-------------------------- MODULE MemoryBanksProofs --------------------------
(***************************************************************************)
(* Proofs about MemoryBanks, for any settings words, tablets and bounds.   *)
(***************************************************************************)
EXTENDS MemoryBanks, SequenceTheorems, TLAPS

(***************************************************************************)
(* Settings words and controls.                                            *)
(***************************************************************************)
\* What the controls are set to shows the word, and can be told to the daemon.
LEMMA ControlsFacts ==
  ASSUME NEW c \in Controls, NEW w \in Word
  PROVE  /\ SetControlsForSettings(c, w) \in Controls
         /\ Shows(SetControlsForSettings(c, w), w, Fields)
         /\ SettingsStringFromControls(c) \in Word
  BY DEF Controls, Word, ListedSets, SetControlsForSettings, Shows, Fields, SettingsStringFromControls

\* What the stream of packets makes of the controls.
LEMMA StreamedFacts ==
  ASSUME NEW c \in Controls, NEW w \in Word
  PROVE  /\ SelectStreamed(c, w) \in Controls
         /\ \A field \in Fields \ Streamed : field # "low" => SelectStreamed(c, w)[field] = c[field]
         /\ \A v \in Word : Shows(c, v, Fields \ Streamed) =>
              Shows(SelectStreamed(c, w), v, Fields \ Streamed)
         /\ Shows(c, w, Fields \ Streamed) => Shows(SelectStreamed(c, w), w, Fields)
  BY DEF Controls, Word, ListedSets, SelectStreamed, Shows, Fields, Streamed

LEMMA ShowsLess ==
  ASSUME NEW c, NEW w, NEW fs, NEW gs, fs \subseteq gs, Shows(c, w, gs)
  PROVE  Shows(c, w, fs)
  BY DEF Shows

LEMMA InitialControlsFacts == InitialControls \in Controls
  BY DEF InitialControls, Controls, ListedSets

\* What the user may make of a setting.
Edits(field) == IF field = "set" THEN ListedSets ELSE 0..1

\* One field set, in controls or in a word.
Put(x, field, value) == [x EXCEPT ![field] = value]

LEMMA PutFacts ==
  ASSUME NEW x \in Controls \cup Word, NEW field \in Fields \ {"low"}, NEW value \in Edits(field)
  PROVE  /\ Put(x, field, value)[field] = value
         /\ \A f \in Fields \ {"low", field} : Put(x, field, value)[f] = x[f]
         /\ x \in Controls => Put(x, field, value) \in Controls
         /\ x \in Word => Put(x, field, value) \in Word
<1>1. CASE x \in Controls
  BY <1>1 DEF Controls, Word, Fields, Edits, ListedSets, Put
<1>2. CASE x \in Word
  BY <1>2 DEF Controls, Word, Fields, Edits, ListedSets, Put
<1> QED
  BY <1>1, <1>2

LEMMA PutShows ==
  ASSUME NEW c \in Controls, NEW w \in Word, NEW fs \in SUBSET Fields, Shows(c, w, fs),
         NEW field \in Fields \ {"low"}, NEW value \in Edits(field)
  PROVE  /\ Put(c, field, value) \in Controls /\ Put(w, field, value) \in Word
         /\ Shows(Put(c, field, value), Put(w, field, value), fs)
<1> DEFINE d == Put(c, field, value)
           v == Put(w, field, value)
<1>1. /\ d \in Controls /\ d[field] = value
      /\ \A f \in Fields \ {"low", field} : d[f] = c[f]
  BY PutFacts
<1>2. /\ v \in Word /\ v[field] = value
      /\ \A f \in Fields \ {"low", field} : v[f] = w[f]
  BY PutFacts
<1> HIDE DEF d, v
<1>3. Shows(d, v, fs)
  BY <1>1, <1>2 DEF Shows, Fields
<1> QED
  BY <1>1, <1>2, <1>3 DEF d, v

\* Edit sets one field, or two.
LEMMA EditSteps ==
  ASSUME NEW x, NEW field \in Fields \ {"low"}, NEW value
  PROVE  /\ field = "tilt" /\ value = 1 => Edit(x, field, value) = Put(Put(x, "tilt", 1), "mdm", 0)
         /\ field = "mdm" /\ value = 1 => Edit(x, field, value) = Put(Put(x, "mdm", 1), "tilt", 0)
         /\ ~(field = "tilt" /\ value = 1) /\ ~(field = "mdm" /\ value = 1) =>
              Edit(x, field, value) = Put(x, field, value)
  BY DEF Edit, Put

LEMMA FieldsFacts ==
  /\ "tilt" \in Fields \ {"low"} /\ "mdm" \in Fields \ {"low"}
  /\ 0 \in Edits("tilt") /\ 1 \in Edits("tilt") /\ 0 \in Edits("mdm") /\ 1 \in Edits("mdm")
  /\ \A field \in Fields : \A value \in Edits(field) : value \in 0..3
  BY DEF Fields, Edits, ListedSets

LEMMA EditFacts ==
  ASSUME NEW c \in Controls, NEW field \in Fields \ {"low"}, NEW value \in Edits(field)
  PROVE  Edit(c, field, value) \in Controls
<1>1. CASE field = "tilt" /\ value = 1
  BY <1>1, EditSteps, PutFacts, FieldsFacts
<1>2. CASE field = "mdm" /\ value = 1
  BY <1>2, EditSteps, PutFacts, FieldsFacts
<1>3. CASE ~(field = "tilt" /\ value = 1) /\ ~(field = "mdm" /\ value = 1)
  <2>1. Edit(c, field, value) = Put(c, field, value)
    BY <1>3, EditSteps
  <2> QED
    BY <2>1, PutFacts
<1> QED
  BY <1>1, <1>2, <1>3

\* One setting edited in controls that show a word is that setting edited in the
\* word.
LEMMA EditShows ==
  ASSUME NEW c \in Controls, NEW w \in Word, NEW fs \in SUBSET Fields, Shows(c, w, fs),
         NEW field \in Fields \ {"low"}, NEW value \in Edits(field)
  PROVE  Shows(Edit(c, field, value), Edit(w, field, value), fs)
<1>1. CASE field = "tilt" /\ value = 1
  BY <1>1, EditSteps, PutShows, FieldsFacts
<1>2. CASE field = "mdm" /\ value = 1
  BY <1>2, EditSteps, PutShows, FieldsFacts
<1>3. CASE ~(field = "tilt" /\ value = 1) /\ ~(field = "mdm" /\ value = 1)
  <2>1. Edit(c, field, value) = Put(c, field, value) /\ Edit(w, field, value) = Put(w, field, value)
    BY <1>3, EditSteps
  <2> QED
    BY <2>1, PutShows
<1> QED
  BY <1>1, <1>2, <1>3

LEMMA StringFacts ==
  ASSUME NEW c \in Controls, NEW f \in Fields \ {"low"}
  PROVE  SettingsStringFromControls(c)[f] = c[f]
  BY DEF Controls, Fields, SettingsStringFromControls

LEMMA ImportFacts ==
  ASSUME NEW digits \in Word, NEW readable \in BOOLEAN, NEW memory \in Settings
  PROVE  Import(digits, readable, memory) \in Word
  BY MemoryBanksAssumption DEF Import

LEMMA ConstantFacts ==
  /\ Tries \in Nat /\ Tries > 0 /\ MaxOps \in Nat
  /\ Settings \subseteq Word /\ Default \in Word
  /\ Lossy \in BOOLEAN /\ Patient \in BOOLEAN
  /\ \A l \in Labellings : l \in BOOLEAN
  BY MemoryBanksAssumption

-----------------------------------------------------------------------------
(***************************************************************************)
(* Messages and answers.                                                   *)
(***************************************************************************)
\* What a message carries.
LEMMA MessageFacts ==
  ASSUME NEW r \in Message
  PROVE  /\ r.op \in {"?bank", "test", "command", "setup", "reinit", "setmem"}
         /\ r.op # "command" => r.bank \in Banks
         /\ r.op \notin {"?bank", "test"} => r.value \in Word
  BY DEF Message

\* The messages the pane sends.
LEMMA SentFacts ==
  ASSUME NEW b \in Banks, NEW value \in Word
  PROVE  /\ [op |-> "?bank", bank |-> b] \in Message
         /\ [op |-> "test", bank |-> b] \in Message
         /\ [op |-> "command", value |-> value] \in Message
         /\ RequestCurrentSettings \in Message
  BY DEF Message, Banks, RequestCurrentSettings

LEMMA SetFacts ==
  ASSUME NEW op \in {"setup", "reinit", "setmem"}, NEW b \in Banks, NEW c \in Controls,
         NEW field \in Fields, NEW value \in 0..3, selected \in Banks
  PROVE  Set(op, b, c, field, value) \in Message
<1>1. Trusted \in SUBSET Fields
  BY DEF Trusted
<1>2. [from |-> selected, field |-> field, edit |-> value, sure |-> Trusted] \in Change
  BY <1>1 DEF Change
<1>3. SettingsStringFromControls(c) \in Word
  BY DEF SettingsStringFromControls, Controls, ListedSets, Word
<1> QED
  BY <1>2, <1>3 DEF Set, Message

\* A sequence less its head, and with another element.
LEMMA SeqFacts ==
  ASSUME NEW S, NEW s \in Seq(S)
  PROVE  /\ s # <<>> => Head(s) \in S /\ Tail(s) \in Seq(S) /\ Tail(s) # s
         /\ \A x \in S : Append(s, x) \in Seq(S)
         /\ \A x \in S, y \in S : s \o <<x, y>> \in Seq(S)
<1>1. ASSUME s # <<>>
      PROVE  Head(s) \in S /\ Tail(s) \in Seq(S) /\ Tail(s) # s
  <2>1. Head(s) \in S /\ Tail(s) \in Seq(S) /\ Len(Tail(s)) = Len(s) - 1 /\ Len(s) \in Nat
    BY <1>1, HeadTailProperties, LenProperties
  <2>2. \A m, n \in Nat : m = n - 1 => m # n
    OBVIOUS
  <2>3. Len(Tail(s)) # Len(s)
    <3>1. Len(Tail(s)) \in Nat
      BY <2>1, LenProperties, Zenon
    <3> QED
      BY <2>1, <2>2, <3>1, Zenon
  <2> QED
    BY <2>1, <2>3, Zenon
<1>2. ASSUME NEW x \in S, NEW y \in S
      PROVE  Append(s, x) \in Seq(S) /\ s \o <<x, y>> \in Seq(S)
  OBVIOUS
<1> QED
  BY <1>1, <1>2

-----------------------------------------------------------------------------
(***************************************************************************)
(* The types.                                                              *)
(***************************************************************************)
Flags ==
  labelled \in BOOLEAN /\ open \in BOOLEAN /\ ignoreNext \in BOOLEAN /\ strayed \in BOOLEAN

Contents ==
  /\ bank \in [Banks -> Word] /\ settings \in [Banks -> Word]
  /\ line \in Seq(Answer) /\ queue \in Seq(Answer)
  /\ requests \in Seq(Message)
  /\ controls \in Controls

Bounds ==
  /\ lastRequested \in Banks /\ selected \in Banks
  /\ tries \in 0..Tries /\ ops \in 0..MaxOps
  /\ unsure \subseteq Banks /\ missed \subseteq Banks
  /\ oldSetFmt \in {<<>>} \union (0..3) \X (0..1)

LEMMA TypeParts == TypeOK <=> Flags /\ Contents /\ Bounds
  BY DEF TypeOK, Flags, Contents, Bounds

LEMMA TypePartsNext == TypeOK' <=> Flags' /\ Contents' /\ Bounds'
  BY DEF TypeOK, Flags, Contents, Bounds

LEMMA UnansweredTypes ==
  ASSUME unsure \subseteq Banks, missed \subseteq Banks,
         NEW b \in Banks, NEW test \in BOOLEAN, Unanswered(b, test)
  PROVE  unsure' \subseteq Banks /\ missed' \subseteq Banks
  BY DEF Unanswered

\* What a question leaves on the line.
LEMMA AskTypes ==
  ASSUME TypeOK, NEW b \in Banks, NEW unread \in Seq(Answer), NEW test \in BOOLEAN,
         bank' \in [Banks -> Word], Ask(b, unread, test)
  PROVE  /\ lastRequested' \in Banks
         /\ line' \in Seq(Answer)
         /\ unsure' \subseteq Banks /\ missed' \subseteq Banks
<1>1. unsure \subseteq Banks /\ missed \subseteq Banks
  BY TypeParts DEF Bounds
<1>2. lastRequested' = b
  BY DEF Ask
<1>3. CASE \E readable \in {TRUE, ~Lossy} :
             /\ line' = Append(unread, [bank |-> b, value |-> bank'[b], test |-> test,
                                        readable |-> readable])
             /\ IF readable THEN UNCHANGED history ELSE Unanswered(b, test)
  <2>1. PICK readable \in {TRUE, ~Lossy} :
             /\ line' = Append(unread, [bank |-> b, value |-> bank'[b], test |-> test,
                                        readable |-> readable])
             /\ IF readable THEN UNCHANGED history ELSE Unanswered(b, test)
    BY <1>3
  <2>2. readable \in BOOLEAN
    BY ConstantFacts, Zenon
  <2>3. [bank |-> b, value |-> bank'[b], test |-> test, readable |-> readable] \in Answer
    BY <2>2 DEF Answer
  <2>4. line' \in Seq(Answer)
    BY <2>1, <2>3, SeqFacts
  <2>5. unsure' \subseteq Banks /\ missed' \subseteq Banks
    BY <1>1, <2>1, <2>2, UnansweredTypes DEF history
  <2> QED
    BY <1>2, <2>4, <2>5
<1>4. CASE line' \in {unread, <<>>} /\ Unanswered(b, test)
  BY <1>1, <1>2, <1>4, UnansweredTypes, EmptySeq
<1> QED
  BY <1>3, <1>4 DEF Ask

\* What an answer makes of the daemon's settings.
LEMMA ProcessReplyTypes ==
  ASSUME TypeOK, line # <<>>, ProcessReply
  PROVE  /\ settings' \in [Banks -> Word]
         /\ line' \in Seq(Answer) /\ queue' \in Seq(Answer)
         /\ lastRequested' \in Banks
         /\ unsure' \subseteq Banks /\ missed' \subseteq Banks
<1> DEFINE answer == Head(line)
           b      == FiledUnder(answer)
<1>1. /\ settings \in [Banks -> Word]
      /\ line \in Seq(Answer) /\ queue \in Seq(Answer)
      /\ lastRequested \in Banks
      /\ unsure \subseteq Banks /\ missed \subseteq Banks
  BY TypeParts DEF Contents, Bounds
<1>2. answer \in Answer /\ Tail(line) \in Seq(Answer)
  BY <1>1, SeqFacts
<1>3. b \in Banks
  BY <1>1, <1>2 DEF FiledUnder, Answer
<1>4. PICK memory \in Settings :
        LET value == Import(answer.value, answer.readable, memory)
        IN  /\ settings' = [settings EXCEPT ![b] = value]
            /\ queue' = Append(queue, [answer EXCEPT !.bank = b, !.value = value])
            /\ line' = Tail(line)
            /\ unsure' = IF answer.readable THEN unsure \ {answer.bank}
                         ELSE unsure \union {b}
            /\ UNCHANGED <<lastRequested, missed>>
  BY DEF ProcessReply
<1> DEFINE value == Import(answer.value, answer.readable, memory)
<1>5. value \in Word
  BY <1>2, ImportFacts DEF Answer
<1>6. [answer EXCEPT !.bank = b, !.value = value] \in Answer
  BY <1>2, <1>3, <1>5 DEF Answer
<1>7. settings' \in [Banks -> Word]
  BY <1>1, <1>3, <1>4, <1>5
<1>8. queue' \in Seq(Answer)
  BY <1>1, <1>4, <1>6, SeqFacts
<1>9. unsure' \subseteq Banks
  BY <1>1, <1>3, <1>4
<1> QED
  BY <1>1, <1>2, <1>4, <1>7, <1>8, <1>9

\* A message is handled.
LEMMA HandleTypes ==
  ASSUME TypeOK, NEW op, NextMessage(op)
  PROVE  /\ Head(requests) \in Message /\ requests' \in Seq(Message)
         /\ UNCHANGED <<labelled, queue, selected, controls, ignoreNext, ops, oldSetFmt, strayed>>
         /\ tries = 0
<1>1. requests \in Seq(Message) /\ requests # <<>> /\ requests' = Tail(requests)
  BY TypeParts DEF Contents, NextMessage
<1> QED
  BY <1>1, SeqFacts DEF NextMessage, pane, stream

LEMMA StartModalTypes ==
  ASSUME TypeOK, NEW b \in Banks, NEW unread \in Seq(Answer), NEW value \in Word,
         SetUp(b, value), StartModal(b, unread)
  PROVE  /\ settings' \in [Banks -> Word] /\ bank' \in [Banks -> Word]
         /\ lastRequested' \in Banks
         /\ line' \in Seq(Answer)
         /\ unsure' \subseteq Banks /\ missed' \subseteq Banks
         /\ tries' \in 0..Tries
<1>1. settings \in [Banks -> Word] /\ bank \in [Banks -> Word]
  BY TypeParts DEF Contents
<1>2. settings' \in [Banks -> Word] /\ bank' \in [Banks -> Word]
  BY <1>1 DEF SetUp
<1>3. Ask(b, unread, FALSE)
  BY DEF StartModal
<1>4. tries' \in 0..Tries
  BY ConstantFacts DEF StartModal
<1> QED
  BY <1>2, <1>3, <1>4, AskTypes

LEMMA DaemonTypes ==
  ASSUME TypeOK, DaemonSteps
  PROVE  TypeOK'
<1>0. /\ labelled \in BOOLEAN /\ open \in BOOLEAN /\ ignoreNext \in BOOLEAN
      /\ bank \in [Banks -> Word] /\ settings \in [Banks -> Word]
      /\ line \in Seq(Answer) /\ queue \in Seq(Answer)
      /\ requests \in Seq(Message)
      /\ controls \in Controls
      /\ lastRequested \in Banks /\ selected \in Banks
      /\ tries \in 0..Tries /\ ops \in 0..MaxOps
      /\ unsure \subseteq Banks /\ missed \subseteq Banks
      /\ strayed \in BOOLEAN /\ oldSetFmt \in {<<>>} \union (0..3) \X (0..1)
  BY TypeParts DEF Flags, Contents, Bounds
<1>1. CASE TimerRead \/ ModalRead
  <2>1. /\ line # <<>> /\ ProcessReply /\ tries' = 0
        /\ UNCHANGED <<labelled, bank, open, requests, pane, ops, stream>>
    BY <1>1 DEF TimerRead, ModalRead
  <2>2. tries' \in 0..Tries
    BY <2>1, ConstantFacts
  <2> QED
    BY <1>0, <2>1, <2>2, ProcessReplyTypes, TypePartsNext DEF Flags, Contents, Bounds, pane, stream
<1>2. CASE ModalTimeout
  <2>1. tries' \in 0..Tries
    BY <1>0, <1>2, ConstantFacts DEF ModalTimeout
  <2>2. bank' \in [Banks -> Word]
    BY <1>0, <1>2 DEF ModalTimeout
  <2>3. /\ lastRequested' \in Banks
        /\ line' \in Seq(Answer)
        /\ unsure' \subseteq Banks /\ missed' \subseteq Banks
    <3>1. CASE tries > 1
      <4>1. Ask(lastRequested, line, FALSE)
        BY <1>2, <3>1 DEF ModalTimeout
      <4> QED
        BY <1>0, <2>2, <4>1, AskTypes
    <3>2. CASE ~(tries > 1)
      BY <1>0, <1>2, <3>2 DEF ModalTimeout, history
    <3> QED
      BY <3>1, <3>2
  <2> QED
    BY <1>0, <1>2, <2>1, <2>2, <2>3, TypePartsNext
    DEF ModalTimeout, Flags, Contents, Bounds, pane, stream
<1>3. CASE \E op \in {"?bank", "test"} : HandleAsk(op)
  <2>1. PICK op \in {"?bank", "test"} : HandleAsk(op)
    BY <1>3
  <2>2. /\ NextMessage(op) /\ Head(requests).op = op
        /\ UNCHANGED <<bank, open, settings, tries>>
        /\ Ask(Head(requests).bank, line, op = "test")
    BY <2>1 DEF HandleAsk, NextMessage
  <2>3. Head(requests).bank \in Banks /\ (op = "test") \in BOOLEAN
    BY <2>2, HandleTypes, MessageFacts
  <2>4. bank' \in [Banks -> Word]
    BY <1>0, <2>2
  <2>5. /\ lastRequested' \in Banks
        /\ line' \in Seq(Answer)
        /\ unsure' \subseteq Banks /\ missed' \subseteq Banks
    BY <1>0, <2>2, <2>3, <2>4, AskTypes
  <2> QED
    BY <1>0, <2>2, <2>4, <2>5, HandleTypes, TypePartsNext DEF Flags, Contents, Bounds
<1>4. CASE \E op \in {"setup", "setmem"} : HandleSetup(op)
  <2>1. PICK op \in {"setup", "setmem"} : HandleSetup(op)
    BY <1>4
  <2> DEFINE b == IF op = "setup" THEN 0 ELSE Head(requests).bank
             value == Head(requests).value
  <2>2. /\ NextMessage(op) /\ Head(requests).op = op
        /\ open' = open
        /\ SetUp(b, value) /\ StartModal(b, line)
    BY <2>1 DEF HandleSetup, NextMessage
  <2>3. b \in Banks /\ value \in Word
    BY <2>2, HandleTypes, MessageFacts DEF Banks
  <2> HIDE DEF b, value
  <2> QED
    BY <1>0, <2>2, <2>3, HandleTypes, StartModalTypes, TypePartsNext DEF Flags, Contents, Bounds
<1>5. CASE HandleReinit
  <2>1. /\ NextMessage("reinit") /\ Head(requests).op = "reinit"
        /\ SetUp(0, Head(requests).value)
        /\ open' \in BOOLEAN
    BY <1>5 DEF HandleReinit, NextMessage
  <2>2. PICK unread \in {line, <<>>} : StartModal(0, unread)
    BY <1>5 DEF HandleReinit
  <2>3. 0 \in Banks /\ Head(requests).value \in Word
    BY <2>1, HandleTypes, MessageFacts DEF Banks
  <2>4. unread \in Seq(Answer)
    BY <1>0, EmptySeq
  <2> QED
    BY <1>0, <2>1, <2>2, <2>3, <2>4, HandleTypes, StartModalTypes, TypePartsNext
    DEF Flags, Contents, Bounds
<1>6. CASE HandleCommand
  <2>1. /\ NextMessage("command") /\ Head(requests).op = "command"
        /\ bank' = IF open THEN [bank EXCEPT ![0] = Head(requests).value] ELSE bank
        /\ UNCHANGED <<line, open, settings, lastRequested, tries, history>>
    BY <1>6 DEF HandleCommand, NextMessage
  <2>2. Head(requests).value \in Word
    BY <2>1, HandleTypes, MessageFacts
  <2>3. bank' \in [Banks -> Word]
    BY <1>0, <2>1, <2>2
  <2> QED
    BY <1>0, <2>1, <2>3, HandleTypes, TypePartsNext DEF Flags, Contents, Bounds, history
<1> QED
  BY <1>1, <1>2, <1>3, <1>4, <1>5, <1>6 DEF DaemonSteps

\* What the user does in the pane.
LEMMA UserTypes ==
  ASSUME TypeOK, UserSteps
  PROVE  /\ UserActs
         /\ ops' \in 0..MaxOps
         /\ requests' \in Seq(Message)
         /\ selected' \in Banks /\ controls' \in Controls /\ ignoreNext' \in BOOLEAN
<1>0. /\ ignoreNext \in BOOLEAN
      /\ requests \in Seq(Message)
      /\ controls \in Controls
      /\ selected \in Banks
      /\ ops \in 0..MaxOps
  BY TypeParts DEF Flags, Contents, Bounds
<1>1. ASSUME UserActs PROVE ops' \in 0..MaxOps
  <2>1. ops < MaxOps /\ ops' = ops + 1
    BY <1>1 DEF UserActs
  <2> QED
    BY <1>0, <2>1, ConstantFacts
<1>2. CASE \E b \in Banks : ChooseMemoryBank(b) \/ TestBank(b)
  BY <1>0, <1>1, <1>2, SentFacts, SeqFacts, ConstantFacts DEF ChooseMemoryBank, TestBank
<1>3. ASSUME NEW field \in Fields \ {"low"}, NEW value \in Edits(field), SettingsChanged(field, value)
      PROVE  /\ UserActs
             /\ requests' \in Seq(Message)
             /\ selected' \in Banks /\ controls' \in Controls /\ ignoreNext' \in BOOLEAN
  <2>1. controls' \in Controls
    BY <1>0, <1>3, EditFacts DEF SettingsChanged
  <2>2. Set(IF selected = 0 THEN "setup" ELSE "setmem", selected, controls', field, value) \in Message
    BY <1>0, <2>1, FieldsFacts, SetFacts
  <2> QED
    BY <1>0, <1>3, <2>1, <2>2, SeqFacts DEF SettingsChanged
<1>4. \A value \in ListedSets : value \in Edits("set")
  BY DEF Edits
<1>5. \A field \in {"format", "tilt", "mdm", "serial"} :
        field \in Fields \ {"low"} /\ 1 - controls[field] \in Edits(field)
  BY <1>0 DEF Edits, Fields, Controls
<1>6. CASE SerialSettingsChanged(1 - controls.serial)
  <2>1. controls' \in Controls
    BY <1>0, <1>5, <1>6, EditFacts DEF SerialSettingsChanged
  <2>2. Set("reinit", 0, controls', "serial", 1 - controls.serial) \in Message
    BY <1>0, <1>5, <2>1, FieldsFacts, SetFacts DEF Banks
  <2> QED
    BY <1>0, <1>1, <1>6, <2>1, <2>2, SeqFacts DEF SerialSettingsChanged
<1>7. CASE \E value \in Settings : TestCommand(value)
  <2>1. PICK value \in Settings : TestCommand(value)
    BY <1>7
  <2>2. [op |-> "command", value |-> value] \in Message /\ RequestCurrentSettings \in Message
    BY ConstantFacts, SentFacts DEF Banks
  <2>3. requests' = requests \o <<[op |-> "command", value |-> value], RequestCurrentSettings>>
    BY <2>1 DEF TestCommand
  <2>4. requests' \in Seq(Message)
    BY <1>0, <2>2, <2>3, SeqFacts
  <2> QED
    <3>1. UserActs /\ ignoreNext' = FALSE /\ selected' = 0 /\ controls' = controls
      BY <2>1 DEF TestCommand
    <3>2. ignoreNext' \in BOOLEAN
      BY <3>1, Zenon
    <3>3. selected' \in Banks /\ controls' \in Controls
      BY <1>0, <3>1 DEF Banks
    <3> QED
      BY <1>1, <2>4, <3>1, <3>2, <3>3
<1>8. CASE ActivateMem
  <2>1. controls.serial \in Edits("serial") /\ "serial" \in Fields /\ 0 \in Banks
    BY <1>0 DEF Controls, Edits, Fields, Banks
  <2>2. Set("reinit", 0, controls, "serial", controls.serial) \in Message
    BY <1>0, <2>1, FieldsFacts, SetFacts
  <2>3. requests' = requests \o <<Set("reinit", 0, controls, "serial", controls.serial),
                                  RequestCurrentSettings>>
    BY <1>8 DEF ActivateMem
  <2>4. RequestCurrentSettings \in Message
    BY DEF RequestCurrentSettings, Message, Banks
  <2>5. requests' \in Seq(Message)
    BY <1>0, <2>2, <2>3, <2>4, SeqFacts
  <2> QED
    BY <1>0, <1>1, <1>8, <2>1, <2>5 DEF ActivateMem
<1>9. "set" \in Fields \ {"low"}
  BY DEF Fields
<1> QED
  BY <1>1, <1>2, <1>3, <1>4, <1>5, <1>6, <1>7, <1>8, <1>9 DEF UserSteps

\* What the pane shows.
LEMMA PingTypes ==
  ASSUME TypeOK, Ping
  PROVE  TypeOK'
<1>1. /\ queue \in Seq(Answer) /\ queue # <<>> /\ controls \in Controls
      /\ selected \in Banks /\ missed \subseteq Banks /\ ignoreNext \in BOOLEAN
      /\ strayed \in BOOLEAN
  BY TypeParts DEF Ping, Flags, Contents, Bounds
<1>2. Head(queue) \in Answer /\ Tail(queue) \in Seq(Answer)
  BY <1>1, SeqFacts
<1>3. Head(queue).bank \in Banks /\ Head(queue).value \in Word
  BY <1>2 DEF Answer
<1>4. controls' \in Controls
  BY <1>1, <1>3, ControlsFacts DEF Ping
<1>5. selected' \in Banks /\ missed' \subseteq Banks
  BY <1>1, <1>3 DEF Ping, Banks
<1>6. ignoreNext' \in BOOLEAN /\ strayed' \in BOOLEAN
  BY <1>1 DEF Ping
<1>7. Flags'
  BY <1>6, TypeParts DEF Ping, Flags, tablet
<1>8. Contents' /\ Bounds'
  BY <1>2, <1>4, <1>5, TypeParts DEF Ping, Contents, Bounds, tablet
<1> QED
  BY <1>7, <1>8, TypePartsNext

LEMMA RawTypes ==
  ASSUME TypeOK, Raw
  PROVE  TypeOK'
<1>1. settings[0] \in Word /\ controls \in Controls
  BY TypeParts DEF Contents, Banks
<1>2. controls' \in Controls
  BY <1>1, StreamedFacts DEF Raw
<1>3. settings[0].set \in 0..3 /\ settings[0].format \in 0..1
  BY <1>1 DEF Word
<1>4. oldSetFmt' \in {<<>>} \union (0..3) \X (0..1)
  BY <1>3 DEF Raw
<1>5. strayed' \in BOOLEAN
  BY DEF Raw
<1>6. Flags'
  BY <1>5, TypeParts DEF Raw, Flags, tablet
<1>7. Contents' /\ Bounds'
  BY <1>2, <1>4, TypeParts DEF Raw, Contents, Bounds, tablet, daemon, history
<1> QED
  BY <1>6, <1>7, TypePartsNext

LEMMA TypesNext ==
  ASSUME TypeOK, [Next]_vars
  PROVE  TypeOK'
<1>1. CASE UserSteps
  <2>1. UNCHANGED <<tablet, daemon, history, stream>>
    BY <1>1, UserTypes DEF UserActs
  <2>2. Flags' /\ Contents' /\ Bounds'
    BY <1>1, <2>1, UserTypes, TypeParts
    DEF Flags, Contents, Bounds, tablet, daemon, history, stream
  <2> QED
    BY <2>2, TypePartsNext
<1>2. CASE UNCHANGED vars
  <2>1. Flags' /\ Contents' /\ Bounds'
    BY <1>2, TypeParts DEF Flags, Contents, Bounds, vars, tablet, daemon, pane, history, stream
  <2> QED
    BY <2>1, TypePartsNext
<1> QED
  BY <1>1, <1>2, DaemonTypes, PingTypes, RawTypes DEF Next

LEMMA TypesInit == Init => TypeOK
<1> SUFFICES ASSUME Init PROVE TypeOK
  OBVIOUS
<1>1. Flags
  BY ConstantFacts DEF Init, Flags
<1>2. bank \in [Banks -> Word] /\ settings \in [Banks -> Word]
  BY ConstantFacts DEF Init, Banks
<1>3. controls \in Controls
  BY <1>2, InitialControlsFacts, ControlsFacts DEF Init, Banks
<1>4. Contents
  BY <1>2, <1>3, EmptySeq DEF Init, Contents
<1>5. Bounds
  BY ConstantFacts DEF Init, Bounds, Banks
<1> QED
  BY <1>1, <1>4, <1>5, TypeParts

-----------------------------------------------------------------------------
(***************************************************************************)
(* The inductive invariant, for a user who waits until nothing is under    *)
(* way.                                                                    *)
(***************************************************************************)
\* The answers from a bank that holds the word, to Testing commands and others.
Honest(b, word) == {a \in Answer : a.bank = b /\ ~a.test /\ (a.readable => a.value = word)}
Tested(b, word) == {a \in Answer : a.bank = b /\ a.test /\ (a.readable => a.value = word)}

\* An answer that the pane will show is among them.
Coming(s) == \E i \in 1..Len(s) : s[i].readable /\ ~s[i].test

\* Nothing has come of what the user did last.
Fresh == line = <<>> /\ queue = <<>> /\ tries = 0

\* A message the user sent: what it sets a bank to is what its user meant.
Proper(r) ==
  /\ r.op = "test" => ignoreNext
  /\ r.op \notin {"test", "command"} => r.bank = selected
  /\ r.op \in {"setup", "reinit"} => r.bank = 0
  /\ r.op \in {"setup", "setmem", "reinit"} /\ open =>
        AsMeant(r, bank, [bank EXCEPT ![r.bank] = r.value])

\* The three phases: the daemon has not handled the user's message yet, answers are
\* on their way that the pane will show, or one that it will not show is.
Clicked ==
  /\ Fresh
  /\ \E r \in Message :
       /\ Proper(r)
       /\ \/ requests = <<r>> /\ r.op # "command"
          \/ /\ requests = <<r, RequestCurrentSettings>>
             /\ r.op \in {"reinit", "command"}
             /\ selected = 0

Answering ==
  /\ requests \in {<<>>, <<RequestCurrentSettings>>}
  /\ requests # <<>> => lastRequested = 0 /\ selected = 0
  /\ line \in Seq(Honest(lastRequested, bank[lastRequested]))
  /\ queue \in Seq(Honest(lastRequested, bank[lastRequested]))
  /\ Fresh \/ lastRequested = selected

Testing ==
  /\ requests = <<>> /\ tries = 0 /\ ignoreNext
  /\ \E a \in Tested(lastRequested, bank[lastRequested]) :
       (line = <<a>> /\ queue = <<>>) \/ (line = <<>> /\ queue = <<a>>)

\* The active settings will be asked for.
Renewed ==
  \/ requests = <<RequestCurrentSettings>>
  \/ \E r \in Message : requests = <<r, RequestCurrentSettings>>

\* settings[0] is right or will be put right.
Active ==
  open /\ 0 \notin unsure =>
    settings[0] = bank[0] \/ (lastRequested = 0 /\ Coming(line)) \/ Renewed

\* The fields whose controls no [raw] has set since they showed a bank.
Unstrayed == IF strayed THEN Fields \ Streamed ELSE Fields

\* The controls are right or will be put right.
Shown ==
  open /\ selected \notin missed =>
    \/ Shows(controls, bank[selected], Unstrayed)
    \/ requests # <<>> /\ Head(requests).op # "test"
    \/ Coming(line) \/ Coming(queue)

Inv ==
  /\ TypeOK
  /\ tries > 0 => open
  /\ Clicked \/ Answering \/ Testing
  /\ Active
  /\ Shown

-----------------------------------------------------------------------------
\* Sequences of answers.
LEMMA ComingFacts ==
  ASSUME NEW s \in Seq(Answer)
  PROVE  /\ s # <<>> /\ Coming(s) => Coming(Tail(s)) \/ (Head(s).readable /\ ~Head(s).test)
         /\ \A a \in Answer : Coming(s) \/ (a.readable /\ ~a.test) => Coming(Append(s, a))
<1>1. ASSUME s # <<>>, Coming(s)
      PROVE  Coming(Tail(s)) \/ (Head(s).readable /\ ~Head(s).test)
  <2>1. PICK i \in 1..Len(s) : s[i].readable /\ ~s[i].test
    BY <1>1 DEF Coming
  <2>2. Head(s) = s[1] /\ Len(s) \in Nat /\ Len(Tail(s)) = Len(s) - 1
    BY <1>1, HeadTailProperties, LenProperties
  <2>3. CASE i = 1
    BY <2>1, <2>2, <2>3
  <2>4. CASE i # 1
    <3>1. i - 1 \in 1..Len(Tail(s)) /\ Tail(s)[i - 1] = s[i]
      BY <1>1, <2>2, <2>4
    <3> QED
      BY <2>1, <3>1 DEF Coming
  <2> QED
    BY <2>3, <2>4
<1>2. ASSUME NEW a \in Answer, Coming(s) \/ (a.readable /\ ~a.test)
      PROVE  Coming(Append(s, a))
  <2>1. /\ Len(Append(s, a)) = Len(s) + 1 /\ Len(s) \in Nat
        /\ Append(s, a)[Len(s) + 1] = a
        /\ \A i \in 1..Len(s) : Append(s, a)[i] = s[i]
    BY AppendProperties, LenProperties
  <2>2. CASE Coming(s)
    <3>1. PICK i \in 1..Len(s) : s[i].readable /\ ~s[i].test
      BY <2>2 DEF Coming
    <3>2. i \in 1..Len(Append(s, a)) /\ Append(s, a)[i] = s[i]
      BY <2>1
    <3> QED
      BY <3>1, <3>2 DEF Coming
  <2>3. CASE a.readable /\ ~a.test
    <3>1. Len(s) + 1 \in 1..Len(Append(s, a))
      BY <2>1
    <3> QED
      BY <2>1, <2>3, <3>1 DEF Coming
  <2> QED
    BY <1>2, <2>2, <2>3
<1> QED
  BY <1>1, <1>2

LEMMA NoneComing == ~Coming(<<>>)
<1>1. Len(<<>>) = 0
  OBVIOUS
<1> QED
  BY <1>1 DEF Coming

LEMMA ShortFacts ==
  ASSUME NEW a, NEW b
  PROVE  /\ <<a>> # <<>> /\ Head(<<a>>) = a /\ Tail(<<a>>) = <<>> /\ Append(<<>>, a) = <<a>>
         /\ <<a, b>> # <<>> /\ Head(<<a, b>>) = a /\ Tail(<<a, b>>) = <<b>>
         /\ <<>> \o <<a, b>> = <<a, b>>
         /\ <<a>> = <<b>> => a = b
         /\ \A c : <<a, b>> # <<c>>
  OBVIOUS

LEMMA AnswerFacts ==
  ASSUME NEW b, NEW word
  PROVE  /\ Seq(Honest(b, word)) \subseteq Seq(Answer)
         /\ Honest(b, word) \subseteq Answer /\ Tested(b, word) \subseteq Answer
  BY DEF Honest, Tested

\* What a question does.
LEMMA AskFacts ==
  ASSUME NEW b \in Banks, NEW unread \in Seq(Answer), NEW test \in BOOLEAN,
         bank' \in [Banks -> Word], Ask(b, unread, test)
  PROVE  /\ lastRequested' = b
         /\ unsure \subseteq unsure' /\ missed \subseteq missed'
         /\ \/ \E a \in Answer :
                 /\ open' /\ line' = Append(unread, a)
                 /\ a.bank = b /\ a.value = bank'[b] /\ a.test = test
                 /\ a.readable \/ (b \in unsure' /\ (test \/ b \in missed'))
            \/ line' = unread /\ b \in unsure' /\ (test \/ b \in missed')
            \/ ~open' /\ line' = <<>>
<1>1. lastRequested' = b
  BY DEF Ask
<1>2. ASSUME Unanswered(b, test)
      PROVE  /\ unsure \subseteq unsure' /\ missed \subseteq missed'
             /\ b \in unsure' /\ (test \/ b \in missed')
  BY <1>2 DEF Unanswered
<1>3. CASE \E readable \in {TRUE, ~Lossy} :
             /\ open'
             /\ line' = Append(unread, [bank |-> b, value |-> bank'[b], test |-> test,
                                        readable |-> readable])
             /\ IF readable THEN UNCHANGED history ELSE Unanswered(b, test)
  <2>1. PICK readable \in {TRUE, ~Lossy} :
             /\ open'
             /\ line' = Append(unread, [bank |-> b, value |-> bank'[b], test |-> test,
                                        readable |-> readable])
             /\ IF readable THEN UNCHANGED history ELSE Unanswered(b, test)
    BY <1>3
  <2> DEFINE a == [bank |-> b, value |-> bank'[b], test |-> test, readable |-> readable]
  <2>2. readable \in BOOLEAN
    BY ConstantFacts, Zenon
  <2>3. /\ a \in Answer /\ a.bank = b /\ a.value = bank'[b] /\ a.test = test
        /\ a.readable = readable
    BY <2>2 DEF Answer
  <2>4. CASE readable
    BY <1>1, <2>1, <2>3, <2>4 DEF history
  <2>5. CASE ~readable
    BY <1>1, <1>2, <2>1, <2>3, <2>5
  <2> QED
    BY <2>4, <2>5
<1>4. CASE open' /\ line' = unread /\ Unanswered(b, test)
  BY <1>1, <1>2, <1>4
<1>5. CASE ~open' /\ line' = <<>> /\ Unanswered(b, test)
  BY <1>1, <1>2, <1>5
<1> QED
  BY <1>3, <1>4, <1>5 DEF Ask

\* A question whose answer is shown has an answer on its way, or is known to
\* have none.
LEMMA AskedFacts ==
  ASSUME NEW b \in Banks, NEW unread \in Seq(Honest(b, bank'[b])),
         bank' \in [Banks -> Word], Ask(b, unread, FALSE)
  PROVE  /\ lastRequested' = b
         /\ unsure \subseteq unsure' /\ missed \subseteq missed'
         /\ line' \in Seq(Honest(b, bank'[b]))
         /\ open' => Coming(line') \/ (b \in unsure' /\ b \in missed')
         /\ open' /\ Coming(unread) => Coming(line')
<1> DEFINE H == Honest(b, bank'[b])
<1>1. unread \in Seq(Answer)
  BY AnswerFacts
<1>2. /\ lastRequested' = b
      /\ unsure \subseteq unsure' /\ missed \subseteq missed'
      /\ \/ \E a \in Answer :
              /\ open' /\ line' = Append(unread, a)
              /\ a.bank = b /\ a.value = bank'[b] /\ a.test = FALSE
              /\ a.readable \/ (b \in unsure' /\ b \in missed')
         \/ line' = unread /\ b \in unsure' /\ b \in missed'
         \/ ~open' /\ line' = <<>>
  BY <1>1, AskFacts
<1>3. CASE \E a \in Answer :
              /\ open' /\ line' = Append(unread, a)
              /\ a.bank = b /\ a.value = bank'[b] /\ a.test = FALSE
              /\ a.readable \/ (b \in unsure' /\ b \in missed')
  <2>1. PICK a \in Answer :
              /\ open' /\ line' = Append(unread, a)
              /\ a.bank = b /\ a.value = bank'[b] /\ a.test = FALSE
              /\ a.readable \/ (b \in unsure' /\ b \in missed')
    BY <1>3
  <2>2. a \in H
    BY <2>1 DEF Honest
  <2>3. line' \in Seq(H)
    BY <2>1, <2>2, SeqFacts
  <2>4. /\ Coming(unread) => Coming(line')
        /\ a.readable => Coming(line')
    BY <1>1, <2>1, ComingFacts
  <2> QED
    BY <1>2, <2>1, <2>3, <2>4
<1>4. CASE line' = unread /\ b \in unsure' /\ b \in missed'
  BY <1>2, <1>4
<1>5. CASE ~open' /\ line' = <<>>
  BY <1>2, <1>5, EmptySeq
<1> QED
  BY <1>2, <1>3, <1>4, <1>5

\* What the pane has sent.
LEMMA ClickedFacts ==
  ASSUME Clicked
  PROVE  /\ requests # <<>> /\ Head(requests) \in Message /\ Proper(Head(requests))
         /\ Tail(requests) \in {<<>>, <<RequestCurrentSettings>>}
         /\ Tail(requests) # <<>> => Head(requests).op \in {"reinit", "command"} /\ selected = 0
         /\ Head(requests).op = "command" => Tail(requests) = <<RequestCurrentSettings>>
         /\ Renewed /\ Tail(requests) = <<>> => Head(requests) = RequestCurrentSettings
<1>1. PICK r \in Message :
       /\ Proper(r)
       /\ \/ requests = <<r>> /\ r.op # "command"
          \/ /\ requests = <<r, RequestCurrentSettings>>
             /\ r.op \in {"reinit", "command"}
             /\ selected = 0
  BY DEF Clicked
<1>2. CASE requests = <<r>> /\ r.op # "command"
  <2>1. Head(requests) = r /\ Tail(requests) = <<>> /\ requests # <<>>
    BY <1>2, ShortFacts
  <2>2. Renewed => r = RequestCurrentSettings
    BY <1>2, ShortFacts DEF Renewed
  <2> QED
    BY <1>1, <1>2, <2>1, <2>2
<1>3. CASE requests = <<r, RequestCurrentSettings>> /\ r.op \in {"reinit", "command"} /\ selected = 0
  <2>1. Head(requests) = r /\ Tail(requests) = <<RequestCurrentSettings>> /\ requests # <<>>
    BY <1>3, ShortFacts
  <2>2. Tail(requests) # <<>>
    BY <2>1, ShortFacts
  <2> QED
    BY <1>1, <1>3, <2>1, <2>2
<1> QED
  BY <1>1, <1>2, <1>3

\* A message that is not the pane's second is one the user just sent.
LEMMA NotRenewing ==
  ASSUME Clicked \/ Answering \/ Testing, requests # <<>>
  PROVE  \/ Clicked
         \/ Answering /\ requests = <<RequestCurrentSettings>> /\ Head(requests) = RequestCurrentSettings
              /\ Tail(requests) = <<>> /\ lastRequested = 0 /\ selected = 0
<1>1. ~Testing
  BY DEF Testing
<1>2. ASSUME Answering
      PROVE  requests = <<RequestCurrentSettings>> /\ Head(requests) = RequestCurrentSettings
              /\ Tail(requests) = <<>> /\ lastRequested = 0 /\ selected = 0
  BY <1>2, ShortFacts DEF Answering
<1> QED
  BY <1>1, <1>2

LEMMA CurrentFacts ==
  /\ RequestCurrentSettings.op = "?bank" /\ RequestCurrentSettings.bank = 0
  /\ RequestCurrentSettings \in Message
  BY DEF RequestCurrentSettings, Message, Banks

-----------------------------------------------------------------------------
(***************************************************************************)
(* The daemon's steps.                                                     *)
(***************************************************************************)
\* An answer is filed under the bank it came from.
LEMMA FiledFacts ==
  ASSUME TypeOK, Clicked \/ Answering \/ Testing, line # <<>>
  PROVE  /\ Head(line) \in Answer /\ Head(line).bank = lastRequested
         /\ FiledUnder(Head(line)) = lastRequested
         /\ Head(line).readable => Head(line).value = bank[lastRequested]
<1>1. CASE Answering
  BY <1>1, SeqFacts DEF Answering, Honest, FiledUnder
<1>2. CASE Testing
  <2>1. PICK a \in Tested(lastRequested, bank[lastRequested]) : line = <<a>>
    BY <1>2 DEF Testing
  <2>2. Head(line) = a
    BY <2>1, ShortFacts
  <2> QED
    BY <2>2 DEF Tested, FiledUnder
<1> QED
  BY <1>1, <1>2 DEF Clicked, Fresh

\* What the daemon makes of the next answer.
LEMMA ReplyFacts ==
  ASSUME TypeOK, Clicked \/ Answering \/ Testing, line # <<>>, ProcessReply
  PROVE  \E item \in Answer :
           /\ queue' = Append(queue, item) /\ line' = Tail(line)
           /\ settings' = [settings EXCEPT ![lastRequested] = item.value]
           /\ item.bank = lastRequested
           /\ item.test = Head(line).test /\ item.readable = Head(line).readable
           /\ item.readable => item.value = bank[lastRequested]
           /\ unsure' = IF item.readable THEN unsure \ {lastRequested}
                        ELSE unsure \union {lastRequested}
           /\ UNCHANGED <<lastRequested, missed>>
<1>1. /\ Head(line) \in Answer /\ Head(line).bank = lastRequested
      /\ FiledUnder(Head(line)) = lastRequested
      /\ Head(line).readable => Head(line).value = bank[lastRequested]
  BY FiledFacts
<1>2. PICK memory \in Settings :
        LET value == Import(Head(line).value, Head(line).readable, memory)
        IN  /\ settings' = [settings EXCEPT ![lastRequested] = value]
            /\ queue' = Append(queue, [Head(line) EXCEPT !.bank = lastRequested, !.value = value])
            /\ line' = Tail(line)
            /\ unsure' = IF Head(line).readable THEN unsure \ {lastRequested}
                         ELSE unsure \union {lastRequested}
            /\ UNCHANGED <<lastRequested, missed>>
  BY <1>1 DEF ProcessReply
<1> DEFINE value == Import(Head(line).value, Head(line).readable, memory)
           item  == [Head(line) EXCEPT !.bank = lastRequested, !.value = value]
<1>3. value \in Word /\ (Head(line).readable => value = bank[lastRequested])
  BY <1>1, ImportFacts DEF Answer, Import
<1>4. /\ item \in Answer /\ item.bank = lastRequested /\ item.value = value
      /\ item.test = Head(line).test /\ item.readable = Head(line).readable
  BY <1>1, <1>3 DEF Answer
<1> QED
  BY <1>2, <1>3, <1>4

LEMMA ReadStep ==
  ASSUME Inv, line # <<>>, ProcessReply, tries' = 0, TypeOK',
         UNCHANGED <<labelled, bank, open, requests, pane, ops, stream>>
  PROVE  Inv'
<1>0. TypeOK /\ (Clicked \/ Answering \/ Testing) /\ Active /\ Shown
  BY DEF Inv
<1>1. PICK item \in Answer :
           /\ queue' = Append(queue, item) /\ line' = Tail(line)
           /\ settings' = [settings EXCEPT ![lastRequested] = item.value]
           /\ item.bank = lastRequested
           /\ item.test = Head(line).test /\ item.readable = Head(line).readable
           /\ item.readable => item.value = bank[lastRequested]
           /\ unsure' = IF item.readable THEN unsure \ {lastRequested}
                        ELSE unsure \union {lastRequested}
           /\ UNCHANGED <<lastRequested, missed>>
  BY <1>0, ReplyFacts
<1>2. /\ line \in Seq(Answer) /\ queue \in Seq(Answer)
      /\ settings \in [Banks -> Word] /\ lastRequested \in Banks
  BY <1>0, TypeParts DEF Contents, Bounds
<1>3. Answering' \/ Testing'
  <2>1. CASE Answering
    <3> DEFINE H == Honest(lastRequested, bank[lastRequested])
    <3>1. Head(line) \in H /\ Tail(line) \in Seq(H) /\ queue \in Seq(H)
      BY <2>1, SeqFacts DEF Answering
    <3>2. item \in H
      BY <1>1, <3>1 DEF Honest
    <3>3. queue' \in Seq(H) /\ line' \in Seq(H)
      BY <1>1, <3>1, <3>2, SeqFacts
    <3>4. lastRequested = selected
      BY <2>1 DEF Answering, Fresh
    <3> QED
      BY <1>1, <2>1, <3>3, <3>4 DEF Answering, pane
  <2>2. CASE Testing
    <3>1. PICK a \in Tested(lastRequested, bank[lastRequested]) : line = <<a>> /\ queue = <<>>
      BY <2>2 DEF Testing
    <3>2. Head(line) = a /\ line' = <<>> /\ queue' = <<item>>
      BY <1>1, <3>1, ShortFacts
    <3>3. item \in Tested(lastRequested, bank[lastRequested])
      BY <1>1, <3>1, <3>2 DEF Tested
    <3> QED
      BY <1>1, <2>2, <3>2, <3>3 DEF Testing, pane
  <2> QED
    BY <1>0, <2>1, <2>2 DEF Clicked, Fresh
<1>4. Active'
  <2> SUFFICES ASSUME open', 0 \notin unsure'
               PROVE  settings'[0] = bank'[0] \/ Renewed'
    BY DEF Active
  <2>1. CASE lastRequested = 0
    BY <1>1, <1>2, <2>1
  <2>2. CASE lastRequested # 0
    <3>1. 0 \notin unsure /\ settings'[0] = settings[0]
      BY <1>1, <1>2, <2>2 DEF Banks
    <3>2. Renewed => Renewed'
      BY DEF Renewed
    <3> QED
      BY <1>0, <2>2, <3>1, <3>2 DEF Active
  <2> QED
    BY <2>1, <2>2
<1>5. Shown'
  <2>1. Coming(line) \/ Coming(queue) => Coming(line') \/ Coming(queue')
    BY <1>1, <1>2, ComingFacts
  <2> QED
    BY <1>0, <1>1, <2>1 DEF Shown, Unstrayed, pane, stream
<1> QED
  BY <1>3, <1>4, <1>5 DEF Inv

LEMMA ModalTimeoutStep ==
  ASSUME Inv, ModalTimeout, TypeOK'
  PROVE  Inv'
<1>0. TypeOK /\ open /\ Answering /\ Active /\ Shown /\ lastRequested = selected
  BY DEF Inv, ModalTimeout, Clicked, Answering, Testing, Fresh
<1>1. /\ tries' = tries - 1
      /\ UNCHANGED <<labelled, bank, open, settings, queue, requests, selected, controls, ignoreNext>>
      /\ Unstrayed' = Unstrayed
  BY DEF ModalTimeout, pane, stream, Unstrayed
<1>2. bank' \in [Banks -> Word] /\ lastRequested \in Banks
  BY <1>0, <1>1, TypeParts DEF Contents, Bounds
<1>3. /\ lastRequested' = lastRequested
      /\ unsure \subseteq unsure' /\ missed \subseteq missed'
      /\ line' \in Seq(Honest(lastRequested, bank'[lastRequested]))
      /\ Coming(line) => Coming(line')
  <2>1. line \in Seq(Honest(lastRequested, bank'[lastRequested]))
    BY <1>0, <1>1 DEF Answering
  <2>2. CASE tries > 1
    <3>1. Ask(lastRequested, line, FALSE)
      BY <2>2 DEF ModalTimeout
    <3> QED
      BY <1>0, <1>1, <1>2, <2>1, <3>1, AskedFacts
  <2>3. CASE ~(tries > 1)
    BY <2>1, <2>3 DEF ModalTimeout, history
  <2> QED
    BY <2>2, <2>3
<1>4. Answering'
  BY <1>0, <1>1, <1>3 DEF Answering
<1>5. Active'
  BY <1>0, <1>1, <1>3 DEF Active, Renewed
<1>6. Shown'
  BY <1>0, <1>1, <1>3 DEF Shown
<1> QED
  BY <1>0, <1>1, <1>4, <1>5, <1>6 DEF Inv

\* The tablet is asked for a bank that is to be shown.
LEMMA HandleShownAsk ==
  ASSUME Inv, HandleAsk("?bank"), TypeOK'
  PROVE  Inv'
<1>0. TypeOK /\ (Clicked \/ Answering \/ Testing) /\ Active /\ Shown
  BY DEF Inv
<1> DEFINE b == Head(requests).bank
<1>1. /\ requests # <<>> /\ Head(requests).op = "?bank" /\ requests' = Tail(requests) /\ tries = 0
      /\ UNCHANGED <<bank, open, settings, tries, queue, selected, controls, ignoreNext>>
      /\ Ask(b, line, FALSE)
  BY DEF HandleAsk, NextMessage, pane
<1>2. /\ b = selected /\ Tail(requests) = <<>>
      /\ Renewed \/ Coming(line) => b = 0
      /\ line \in Seq(Honest(b, bank[b])) /\ queue \in Seq(Honest(b, bank[b]))
  <2>1. CASE Clicked
    <3>1. line = <<>> /\ queue = <<>>
      BY <2>1 DEF Clicked, Fresh
    <3> QED
      BY <1>1, <2>1, <3>1, ClickedFacts, CurrentFacts, EmptySeq, NoneComing DEF Proper
  <2>2. CASE ~Clicked
    <3>1. Answering /\ requests = <<RequestCurrentSettings>> /\ Head(requests) = RequestCurrentSettings
          /\ Tail(requests) = <<>> /\ lastRequested = 0 /\ selected = 0
      BY <1>0, <1>1, <2>2, NotRenewing
    <3> QED
      BY <3>1, CurrentFacts DEF Answering
  <2> QED
    BY <2>1, <2>2
<1>3. b \in Banks /\ bank' \in [Banks -> Word]
  BY <1>0, <1>1, <1>2, TypeParts DEF Contents, Bounds
<1>4. /\ lastRequested' = b
      /\ unsure \subseteq unsure' /\ missed \subseteq missed'
      /\ line' \in Seq(Honest(b, bank'[b]))
      /\ open' => Coming(line') \/ (b \in unsure' /\ b \in missed')
      /\ open' /\ Coming(line) => Coming(line')
  BY <1>1, <1>2, <1>3, AskedFacts
<1>5. Answering'
  BY <1>1, <1>2, <1>4 DEF Answering
<1>6. Active'
  BY <1>0, <1>1, <1>2, <1>4 DEF Active
<1>7. Shown'
  BY <1>1, <1>2, <1>4 DEF Shown
<1> QED
  BY <1>0, <1>1, <1>5, <1>6, <1>7 DEF Inv

\* The tablet is asked by a Testing command for a bank that is not to be shown.
LEMMA HandleTestAsk ==
  ASSUME Inv, HandleAsk("test"), TypeOK'
  PROVE  Inv'
<1>0. TypeOK /\ (Clicked \/ Answering \/ Testing) /\ Active /\ Shown
  BY DEF Inv
<1> DEFINE b == Head(requests).bank
<1>1. /\ requests # <<>> /\ Head(requests).op = "test" /\ requests' = Tail(requests) /\ tries = 0
      /\ UNCHANGED <<bank, open, settings, tries, queue, selected, controls, ignoreNext>>
      /\ Ask(b, line, TRUE) /\ Unstrayed' = Unstrayed
  BY DEF HandleAsk, NextMessage, pane, stream, Unstrayed
<1>2. Clicked
  BY <1>0, <1>1, NotRenewing, CurrentFacts
<1>3. /\ line = <<>> /\ queue = <<>> /\ requests' = <<>> /\ ignoreNext
      /\ b \in Banks /\ ~Renewed
  BY <1>1, <1>2, ClickedFacts, MessageFacts, CurrentFacts DEF Clicked, Fresh, Proper
<1>4. bank' \in [Banks -> Word]
  BY <1>0, <1>1, TypeParts DEF Contents
<1>5. /\ lastRequested' = b
      /\ unsure \subseteq unsure' /\ missed \subseteq missed'
      /\ \/ \E a \in Answer : /\ line' = Append(line, a)
                              /\ a.bank = b /\ a.value = bank'[b] /\ a.test = TRUE
         \/ line' = <<>>
  <2>1. line \in Seq(Answer)
    BY <1>0, TypeParts DEF Contents
  <2> QED
    BY <1>1, <1>3, <1>4, <2>1, AskFacts
<1>6. Answering' \/ Testing'
  <2>1. CASE line' = <<>>
    BY <1>1, <1>3, <2>1, EmptySeq DEF Answering, Fresh
  <2>2. CASE \E a \in Answer : /\ line' = Append(line, a)
                               /\ a.bank = b /\ a.value = bank'[b] /\ a.test = TRUE
    <3>1. PICK a \in Answer : /\ line' = Append(line, a)
                              /\ a.bank = b /\ a.value = bank'[b] /\ a.test = TRUE
      BY <2>2
    <3>2. line' = <<a>>
      BY <1>3, <3>1, ShortFacts
    <3>3. a \in Tested(b, bank'[b])
      BY <3>1 DEF Tested
    <3> QED
      BY <1>1, <1>3, <1>5, <3>2, <3>3 DEF Testing
  <2> QED
    BY <1>5, <2>1, <2>2
<1>7. Active'
  BY <1>0, <1>1, <1>3, <1>5, NoneComing DEF Active
<1>8. Shown'
  BY <1>0, <1>1, <1>3, <1>5, NoneComing DEF Shown
<1> QED
  BY <1>0, <1>1, <1>6, <1>7, <1>8 DEF Inv

\* A modal request begins.
LEMMA ModalFacts ==
  ASSUME Inv, Clicked, NEW b \in Banks, NEW unread \in {line, <<>>}, StartModal(b, unread),
         TypeOK', b = selected, selected' = selected,
         requests' = Tail(requests), queue' = queue,
         requests' # <<>> => b = 0
  PROVE  /\ Answering' /\ Shown'
         /\ tries' > 0 => open'
         /\ unsure \subseteq unsure'
         /\ lastRequested' = b
         /\ open' => Coming(line') \/ b \in unsure'
<1>1. unread = <<>> /\ queue = <<>> /\ bank' \in [Banks -> Word]
  BY TypePartsNext DEF Clicked, Fresh, Contents
<1>2. /\ lastRequested' = b
      /\ unsure \subseteq unsure'
      /\ line' \in Seq(Honest(b, bank'[b]))
      /\ open' => Coming(line') \/ (b \in unsure' /\ b \in missed')
  BY <1>1, AskedFacts, EmptySeq DEF StartModal
<1>3. Answering'
  BY <1>1, <1>2, ClickedFacts, EmptySeq DEF Answering
<1>4. Shown'
  BY <1>2 DEF Shown
<1>5. tries' > 0 => open'
  BY DEF StartModal
<1> QED
  BY <1>2, <1>3, <1>4, <1>5

LEMMA HandleSetupStep ==
  ASSUME Inv, NEW op \in {"setup", "setmem"}, HandleSetup(op), TypeOK'
  PROVE  Inv'
<1>0. TypeOK /\ (Clicked \/ Answering \/ Testing) /\ Active
  BY DEF Inv
<1> DEFINE b == IF op = "setup" THEN 0 ELSE Head(requests).bank
<1>1. /\ requests # <<>> /\ Head(requests).op = op /\ requests' = Tail(requests)
      /\ UNCHANGED <<open, queue, selected>>
      /\ SetUp(b, Head(requests).value) /\ StartModal(b, line)
  BY DEF HandleSetup, NextMessage, pane
<1>2. Clicked
  BY <1>0, <1>1, NotRenewing, CurrentFacts
<1>3. b = selected /\ requests' = <<>> /\ ~Renewed
  BY <1>1, <1>2, ClickedFacts, CurrentFacts DEF Proper
<1>4. selected \in Banks /\ bank \in [Banks -> Word] /\ settings \in [Banks -> Word]
  BY <1>0, TypeParts DEF Bounds, Contents
<1> HIDE DEF b
<1>5. Answering' /\ Shown' /\ (tries' > 0 => open') /\ unsure \subseteq unsure'
  BY <1>1, <1>2, <1>3, <1>4, ModalFacts
<1>6. Active'
  <2> SUFFICES ASSUME open', 0 \notin unsure'
               PROVE  settings'[0] = bank'[0]
    BY DEF Active
  <2>1. settings[0] = bank[0]
    BY <1>0, <1>1, <1>2, <1>3, <1>5, NoneComing DEF Active, Clicked, Fresh
  <2>2. /\ settings' = [settings EXCEPT ![b] = Head(requests).value]
        /\ bank' = [bank EXCEPT ![b] = Head(requests).value]
    BY <1>1 DEF SetUp
  <2> QED
    BY <1>4, <2>1, <2>2 DEF Banks
<1> QED
  BY <1>5, <1>6 DEF Inv

LEMMA HandleReinitStep ==
  ASSUME Inv, HandleReinit, TypeOK'
  PROVE  Inv'
<1>0. TypeOK /\ (Clicked \/ Answering \/ Testing)
  BY DEF Inv
<1>1. /\ requests # <<>> /\ Head(requests).op = "reinit" /\ requests' = Tail(requests)
      /\ UNCHANGED <<queue, selected>>
  BY DEF HandleReinit, NextMessage, pane
<1>2. PICK unread \in {line, <<>>} : StartModal(0, unread)
  BY DEF HandleReinit
<1>3. Clicked
  BY <1>0, <1>1, NotRenewing, CurrentFacts
<1>4. selected = 0 /\ 0 \in Banks
  BY <1>1, <1>3, ClickedFacts DEF Proper, Banks
<1>5. /\ Answering' /\ Shown'
      /\ tries' > 0 => open'
      /\ lastRequested' = 0
      /\ open' => Coming(line') \/ 0 \in unsure'
  BY <1>1, <1>2, <1>3, <1>4, ModalFacts
<1>6. Active'
  BY <1>5 DEF Active
<1> QED
  BY <1>5, <1>6 DEF Inv

LEMMA HandleCommandStep ==
  ASSUME Inv, HandleCommand, TypeOK'
  PROVE  Inv'
<1>0. TypeOK /\ (Clicked \/ Answering \/ Testing)
  BY DEF Inv
<1>1. /\ requests # <<>> /\ Head(requests).op = "command" /\ requests' = Tail(requests)
      /\ UNCHANGED <<line, open, tries, queue, selected>>
  BY DEF HandleCommand, NextMessage, pane
<1>2. Clicked
  BY <1>0, <1>1, NotRenewing, CurrentFacts
<1>3. requests' = <<RequestCurrentSettings>> /\ selected = 0
  BY <1>1, <1>2, ClickedFacts, ShortFacts
<1>4. Clicked'
  BY <1>1, <1>2, <1>3, CurrentFacts DEF Clicked, Fresh, Proper
<1>5. Renewed' /\ Head(requests') = RequestCurrentSettings /\ requests' # <<>>
  BY <1>3, ShortFacts DEF Renewed, RequestCurrentSettings
<1>6. Active'
  BY <1>5 DEF Active
<1>7. Shown'
  BY <1>5, CurrentFacts DEF Shown
<1> QED
  BY <1>1, <1>4, <1>6, <1>7 DEF Inv

-----------------------------------------------------------------------------
(***************************************************************************)
(* The pane's steps.                                                       *)
(***************************************************************************)
\* When nothing is under way everything is right.
LEMMA QuietFacts ==
  ASSUME Inv, Quiet
  PROVE  /\ Answering /\ Fresh /\ ~Renewed
         /\ open /\ 0 \notin unsure => settings[0] = bank[0]
         /\ open /\ selected \notin missed => Shows(controls, bank[selected], Unstrayed)
         /\ open => Shows(controls, bank[selected], Trusted)
<1>1. ~Clicked
  BY ClickedFacts DEF Quiet
<1>2. ~Testing
  BY ShortFacts DEF Quiet, Testing
<1>3. ~Renewed
  BY ShortFacts DEF Quiet, Renewed
<1>4. open /\ selected \notin missed => Shows(controls, bank[selected], Unstrayed)
  BY NoneComing DEF Inv, Quiet, Shown
<1>5. open => Shows(controls, bank[selected], Trusted)
  <2>1. CASE selected \in missed
    BY <2>1 DEF Trusted, Shows
  <2>2. CASE selected \notin missed
    <3>1. Trusted = Unstrayed
      BY <2>2 DEF Trusted, Unstrayed
    <3> QED
      BY <1>4, <2>2, <3>1
  <2> QED
    BY <2>1, <2>2
<1> QED
  BY <1>1, <1>2, <1>3, <1>4, <1>5, NoneComing DEF Inv, Quiet, Fresh, Active

\* A setting edited in controls that show the bank selected is edited in the bank
\* that is set.
LEMMA SetMeant ==
  ASSUME TypeOK, NEW op, NEW b \in Banks,
         NEW field \in Fields \ {"low"}, NEW value \in Edits(field),
         open => Shows(controls, bank[selected], Trusted),
         NEW r, r = Set(op, b, Edit(controls, field, value), field, value),
         open
  PROVE  AsMeant(r, bank, [bank EXCEPT ![r.bank] = r.value])
<1> DEFINE c == Edit(controls, field, value)
<1>1. /\ controls \in Controls /\ bank \in [Banks -> Word] /\ selected \in Banks
      /\ bank[selected] \in Word
  BY TypeParts DEF Contents, Bounds
<1>2. /\ r.bank = b /\ r.value = SettingsStringFromControls(c)
      /\ r.change.from = selected /\ r.change.field = field /\ r.change.edit = value
      /\ r.change.sure = Trusted /\ Trusted \in SUBSET Fields
  BY DEF Set, Trusted
<1>3. Shows(c, Edit(bank[selected], field, value), Trusted)
  BY <1>1, <1>2, EditShows
<1>4. [bank EXCEPT ![r.bank] = r.value][r.bank] = SettingsStringFromControls(c)
  BY <1>1, <1>2
<1>5. c \in Controls
  BY <1>1, EditFacts
<1> HIDE DEF c
<1> QED
  BY <1>2, <1>3, <1>4, <1>5, StringFacts DEF AsMeant, Shows

\* The user sends a message when nothing is under way.
LEMMA SentStep ==
  ASSUME Inv, Quiet, TypeOK', UNCHANGED <<tablet, daemon, history, stream>>,
         NEW r,
         \/ requests' = Append(requests, r) /\ r.op # "command"
         \/ /\ requests' = requests \o <<r, RequestCurrentSettings>>
            /\ r.op \in {"reinit", "command"} /\ selected' = 0,
         Proper(r)',
         r.op # "test" \/ UNCHANGED <<controls, selected>>
  PROVE  Inv'
<1>1. /\ Fresh /\ requests = <<>>
      /\ open /\ 0 \notin unsure => settings[0] = bank[0]
      /\ open /\ selected \notin missed => Shows(controls, bank[selected], Unstrayed)
  BY QuietFacts DEF Quiet
<1>2. /\ \/ requests' = <<r>> /\ r.op # "command"
         \/ /\ requests' = <<r, RequestCurrentSettings>>
            /\ r.op \in {"reinit", "command"} /\ selected' = 0
      /\ requests' # <<>> /\ Head(requests') = r
  BY <1>1, ShortFacts
<1>3. r \in Message
  <2>1. requests' \in Seq(Message)
    BY TypePartsNext DEF Contents
  <2> QED
    BY <1>2, <2>1, SeqFacts
<1>4. Fresh'
  BY <1>1 DEF Fresh, tablet, daemon
<1>5. Clicked'
  BY <1>2, <1>3, <1>4 DEF Clicked
<1>6. tries' > 0 => open'
  BY DEF Inv, tablet, daemon
<1>7. Active'
  BY <1>1 DEF Active, tablet, daemon, history
<1>8. Shown'
  <2>1. CASE r.op # "test"
    BY <1>2, <2>1 DEF Shown
  <2>2. CASE UNCHANGED <<controls, selected>>
    BY <1>1, <2>2 DEF Shown, Unstrayed, tablet, history, stream
  <2> QED
    BY <2>1, <2>2
<1> QED
  BY <1>5, <1>6, <1>7, <1>8 DEF Inv

\* A setting edited.
LEMMA SettingStep ==
  ASSUME Inv, Quiet, TypeOK', UNCHANGED <<tablet, daemon, history, stream, selected>>,
         NEW field \in Fields \ {"low"}, NEW value \in Edits(field),
         controls' = Edit(controls, field, value),
         NEW op \in {"setup", "setmem", "reinit"}, op \in {"setup", "reinit"} => selected = 0,
         requests' = Append(requests, Set(op, selected, controls', field, value))
  PROVE  Inv'
<1>0. PICK r : r = Set(op, selected, Edit(controls, field, value), field, value)
  OBVIOUS
<1>1. TypeOK /\ selected \in Banks
  BY TypeParts DEF Inv, Bounds
<1>2. open => AsMeant(r, bank, [bank EXCEPT ![r.bank] = r.value])
  BY <1>0, <1>1, QuietFacts, SetMeant
<1>3. r.op = op /\ r.bank = selected
  BY <1>0 DEF Set
<1>4. requests' = Append(requests, r)
  BY <1>0
<1>5. open' = open /\ bank' = bank
  BY DEF tablet
<1>6. Proper(r)'
  BY <1>2, <1>3, <1>5 DEF Proper
<1> QED
  BY <1>3, <1>4, <1>6, SentStep

LEMMA UserStep ==
  ASSUME Inv, Patient, UserSteps, TypeOK'
  PROVE  Inv'
<1>1. Quiet /\ UNCHANGED <<tablet, daemon, history, stream>>
  BY UserTypes DEF Inv, UserActs
<1>2. controls \in Controls /\ bank' = bank /\ open' = open
  BY <1>1, TypeParts DEF Inv, Contents, tablet
<1>3. CASE \E b \in Banks : ChooseMemoryBank(b)
  <2>1. PICK b \in Banks : ChooseMemoryBank(b)
    BY <1>3
  <2> DEFINE r == [op |-> "?bank", bank |-> b]
  <2>2. r.op = "?bank" /\ r.bank = b
    OBVIOUS
  <2>3. requests' = Append(requests, r) /\ selected' = b
    BY <2>1 DEF ChooseMemoryBank
  <2> HIDE DEF r
  <2>4. Proper(r)'
    BY <2>2, <2>3 DEF Proper
  <2> QED
    BY <1>1, <2>2, <2>3, <2>4, SentStep
<1>4. CASE \E b \in Banks : TestBank(b)
  <2>1. PICK b \in Banks : TestBank(b)
    BY <1>4
  <2> DEFINE r == [op |-> "test", bank |-> b]
  <2>2. r.op = "test"
    OBVIOUS
  <2>3. requests' = Append(requests, r) /\ ignoreNext' /\ UNCHANGED <<selected, controls>>
    BY <2>1 DEF TestBank
  <2> HIDE DEF r
  <2>4. Proper(r)'
    BY <2>2, <2>3 DEF Proper
  <2> QED
    BY <1>1, <2>2, <2>3, <2>4, SentStep
<1>5. ASSUME NEW field \in Fields \ {"low"}, NEW value \in Edits(field), SettingsChanged(field, value)
      PROVE  Inv'
  <2> DEFINE op == IF selected = 0 THEN "setup" ELSE "setmem"
  <2>1. /\ controls' = Edit(controls, field, value) /\ selected' = selected
        /\ requests' = Append(requests, Set(op, selected, controls', field, value))
    BY <1>5 DEF SettingsChanged
  <2>2. op \in {"setup", "setmem", "reinit"} /\ (op \in {"setup", "reinit"} => selected = 0)
    OBVIOUS
  <2> HIDE DEF op
  <2> QED
    BY <1>1, <2>1, <2>2, SettingStep
<1>6. \A value \in ListedSets : value \in Edits("set")
  BY DEF Edits
<1>7. \A field \in {"format", "tilt", "mdm", "serial"} :
        field \in Fields \ {"low"} /\ 1 - controls[field] \in Edits(field)
  BY <1>2 DEF Edits, Fields, Controls
<1>8. CASE SerialSettingsChanged(1 - controls.serial)
  <2>1. /\ controls' = Edit(controls, "serial", 1 - controls.serial)
        /\ selected = 0 /\ selected' = selected
        /\ requests' = Append(requests, Set("reinit", selected, controls', "serial", 1 - controls.serial))
    BY <1>8 DEF SerialSettingsChanged, UserActs
  <2> QED
    BY <1>1, <1>7, <2>1, SettingStep
<1>9. CASE \E value \in Settings : TestCommand(value)
  <2>1. PICK value \in Settings : TestCommand(value)
    BY <1>9
  <2> DEFINE r == [op |-> "command", value |-> value]
  <2>2. r.op = "command"
    OBVIOUS
  <2>3. requests' = requests \o <<r, RequestCurrentSettings>> /\ selected' = 0
    BY <2>1 DEF TestCommand
  <2> HIDE DEF r
  <2>4. Proper(r)'
    BY <2>2 DEF Proper
  <2> QED
    BY <1>1, <2>2, <2>3, <2>4, SentStep
<1>10. CASE ActivateMem
  <2> DEFINE c == Edit(controls, "serial", controls.serial)
  <2>0. PICK r : r = Set("reinit", 0, c, "serial", controls.serial)
    OBVIOUS
  <2>1. controls.serial \in Edits("serial") /\ "serial" \in Fields \ {"low"} /\ 0 \in Banks
    BY <1>2 DEF Controls, Edits, Fields, Banks
  <2>2. c = controls
    BY <1>2 DEF Edit, Controls
  <2>3. requests' = requests \o <<r, RequestCurrentSettings>> /\ selected' = 0
    BY <1>10, <2>0, <2>2 DEF ActivateMem
  <2>4. open => AsMeant(r, bank, [bank EXCEPT ![r.bank] = r.value])
    BY <1>1, <2>0, <2>1, QuietFacts, SetMeant DEF Inv
  <2>5. r.op = "reinit" /\ r.bank = 0
    BY <2>0 DEF Set
  <2>6. Proper(r)'
    BY <1>2, <2>3, <2>4, <2>5 DEF Proper
  <2> QED
    BY <1>1, <2>3, <2>5, <2>6, SentStep
<1>11. "set" \in Fields \ {"low"}
  BY DEF Fields
<1> QED
  BY <1>3, <1>4, <1>5, <1>6, <1>7, <1>8, <1>9, <1>10, <1>11 DEF UserSteps

\* The pane shows what it fetches, or ignores it.
LEMMA PingStep ==
  ASSUME Inv, Ping, TypeOK'
  PROVE  Inv'
<1>0. TypeOK /\ (Clicked \/ Answering \/ Testing) /\ Active /\ Shown
  BY DEF Inv
<1>1. /\ requests = <<>> /\ queue # <<>> /\ queue' = Tail(queue)
      /\ UNCHANGED <<tablet, lastRequested, tries, settings, requests, unsure>>
  BY DEF Ping
<1>2. /\ queue \in Seq(Answer) /\ controls \in Controls /\ bank \in [Banks -> Word]
      /\ selected \in Banks
  BY <1>0, TypeParts DEF Contents, Bounds
<1>3. UNCHANGED <<bank, line, open>>
  BY <1>1 DEF tablet
<1>4. tries' > 0 => open'
  BY <1>1, <1>3 DEF Inv
<1>5. Active'
  BY <1>0, <1>1, <1>3 DEF Active, Renewed
<1>6. CASE Answering
  <2> DEFINE H == Honest(lastRequested, bank[lastRequested])
  <2>1. queue \in Seq(H) /\ Head(queue) \in H /\ Tail(queue) \in Seq(H) /\ lastRequested = selected
    BY <1>1, <1>6, SeqFacts DEF Answering, Fresh
  <2>2. /\ Head(queue) \in Answer /\ Head(queue).bank = selected /\ ~Head(queue).test
        /\ Head(queue).readable => Head(queue).value = bank[selected]
    BY <2>1 DEF Honest
  <2>3. selected' = selected
    BY <2>2 DEF Ping
  <2>4. Answering'
    BY <1>1, <1>3, <1>6, <2>1, <2>3 DEF Answering
  <2>5. Shown'
    <3>1. CASE ignoreNext
      <4>1. selected \in missed'
        BY <2>2, <3>1 DEF Ping
      <4> QED
        BY <2>3, <4>1 DEF Shown
    <3>2. CASE ~ignoreNext /\ ~Head(queue).readable
      <4>1. selected \in missed'
        BY <2>2, <3>2 DEF Ping
      <4> QED
        BY <2>3, <4>1 DEF Shown
    <3>3. CASE ~ignoreNext /\ Head(queue).readable
      <4>1. controls' = SetControlsForSettings(controls, bank[selected])
        BY <2>2, <3>3 DEF Ping
      <4>2. Shows(controls', bank[selected], Fields)
        BY <1>2, <4>1, ControlsFacts
      <4>3. Shows(controls', bank[selected], Unstrayed')
        BY <3>3, <4>2 DEF Ping, Unstrayed
      <4> QED
        BY <1>3, <2>3, <4>3 DEF Shown
    <3> QED
      BY <3>1, <3>2, <3>3
  <2> QED
    BY <1>4, <1>5, <2>4, <2>5 DEF Inv
<1>7. CASE Testing
  <2>1. PICK a \in Tested(lastRequested, bank[lastRequested]) : line = <<>> /\ queue = <<a>>
    BY <1>1, <1>7 DEF Testing
  <2>2. Head(queue) = a /\ queue' = <<>> /\ a.test
    BY <1>1, <2>1, ShortFacts DEF Tested
  <2>3. missed' = missed /\ UNCHANGED <<selected, controls>> /\ Unstrayed' = Unstrayed
    BY <1>7, <2>2 DEF Ping, Testing, Unstrayed
  <2>4. Answering'
    BY <1>1, <1>3, <1>7, <2>1, <2>2, EmptySeq DEF Answering, Fresh, Testing
  <2>5. ~Coming(queue) /\ ~Coming(line)
    BY <1>1, <1>2, <2>1, <2>2, ComingFacts, NoneComing
  <2>6. Shown'
    BY <1>0, <1>1, <1>3, <2>3, <2>5 DEF Shown
  <2> QED
    BY <1>4, <1>5, <2>4, <2>6 DEF Inv
<1>8. ~Clicked
  BY <1>1 DEF Clicked, Fresh
<1> QED
  BY <1>0, <1>6, <1>7, <1>8

\* A [raw] leaves the other controls alone, and these two right if the active
\* settings are selected.
LEMMA RawStep ==
  ASSUME Inv, Raw, TypeOK'
  PROVE  Inv'
<1>0. TypeOK /\ (Clicked \/ Answering \/ Testing) /\ Active /\ Shown
  BY DEF Inv
<1>1. /\ requests = <<>>
      /\ controls' = SelectStreamed(controls, settings[0])
      /\ strayed' = (selected # 0 \/ 0 \in unsure)
      /\ UNCHANGED <<bank, line, open, settings, lastRequested, tries, queue, requests, selected,
                    ignoreNext, unsure, missed>>
  BY DEF Raw, tablet, daemon, history
<1>2. /\ controls \in Controls /\ settings[0] \in Word
      /\ bank \in [Banks -> Word] /\ selected \in Banks /\ bank[selected] \in Word
  BY <1>0, TypeParts DEF Contents, Bounds, Banks
<1>3. ~Clicked /\ ~Renewed
  BY <1>1, ClickedFacts, ShortFacts DEF Renewed
<1>4. Answering' \/ Testing'
  <2>1. Answering => Answering'
    BY <1>1 DEF Answering, Fresh
  <2>2. Testing => Testing'
    BY <1>1 DEF Testing
  <2> QED
    BY <1>0, <1>3, <2>1, <2>2
<1>5. Active'
  BY <1>0, <1>1 DEF Active, Renewed
<1>6. Shown'
  <2> SUFFICES ASSUME open, selected \notin missed, ~Coming(line), ~Coming(queue)
               PROVE  Shows(controls', bank[selected], Unstrayed')
    BY <1>1 DEF Shown
  <2>1. Shows(controls, bank[selected], Unstrayed)
    BY <1>0, <1>1 DEF Shown
  <2>2. Shows(controls, bank[selected], Fields \ Streamed)
    <3>1. Fields \ Streamed \subseteq Unstrayed
      BY DEF Unstrayed
    <3> QED
      BY <2>1, <3>1, ShowsLess
  <2>3. CASE strayed'
    <3>1. Unstrayed' = Fields \ Streamed
      BY <2>3 DEF Unstrayed
    <3> QED
      BY <1>1, <1>2, <2>2, <3>1, StreamedFacts
  <2>4. CASE ~strayed'
    <3>1. Unstrayed' = Fields
      BY <2>4 DEF Unstrayed
    <3>2. selected = 0 /\ settings[0] = bank[selected]
      BY <1>0, <1>1, <1>3, <2>4 DEF Active
    <3> QED
      BY <1>1, <1>2, <2>2, <3>1, <3>2, StreamedFacts
  <2> QED
    BY <2>3, <2>4
<1> QED
  BY <1>1, <1>4, <1>5, <1>6 DEF Inv

-----------------------------------------------------------------------------
(***************************************************************************)
(* The specification.                                                      *)
(***************************************************************************)
LEMMA InitInv == Init => Inv
<1> SUFFICES ASSUME Init PROVE Inv
  OBVIOUS
<1>1. TypeOK
  BY TypesInit
<1>2. Answering /\ tries = 0
  BY EmptySeq DEF Init, Answering, Fresh
<1>3. Active
  BY DEF Init, Active, Banks
<1>4. Shown
  <2>1. Shows(controls, bank[selected], Fields)
    <3>1. bank[0] \in Word
      BY ConstantFacts DEF Init, Banks
    <3> QED
      BY <3>1, InitialControlsFacts, ControlsFacts DEF Init
  <2>2. Unstrayed = Fields
    BY DEF Init, Unstrayed
  <2> QED
    BY <2>1, <2>2 DEF Shown
<1> QED
  BY <1>1, <1>2, <1>3, <1>4 DEF Inv

LEMMA StutterInv == Inv /\ UNCHANGED vars => Inv'
<1> SUFFICES ASSUME Inv, UNCHANGED vars
             PROVE  Inv'
  OBVIOUS
<1>0. UNCHANGED <<labelled, bank, line, open, settings, lastRequested, tries, queue, requests,
                  selected, controls, ignoreNext, ops, unsure, missed, strayed>>
  BY DEF vars, tablet, daemon, pane, history, stream
<1>1. TypeOK'
  BY TypesNext DEF Inv
<1>2. Clicked => Clicked'
  BY <1>0 DEF Clicked, Fresh, Proper
<1>3. Answering => Answering'
  BY <1>0 DEF Answering, Fresh
<1>4. Testing => Testing'
  BY <1>0 DEF Testing
<1>5. Active => Active'
  BY <1>0 DEF Active, Renewed
<1>6. Shown => Shown'
  BY <1>0 DEF Shown, Unstrayed
<1> QED
  BY <1>0, <1>1, <1>2, <1>3, <1>4, <1>5, <1>6 DEF Inv

LEMMA NextInv ==
  ASSUME Patient
  PROVE  Inv /\ [Next]_vars => Inv'
<1> SUFFICES ASSUME Inv, [Next]_vars
             PROVE  Inv'
  OBVIOUS
<1>0. TypeOK'
  BY TypesNext DEF Inv
<1>1. CASE TimerRead \/ ModalRead
  <2>1. line # <<>> /\ ProcessReply /\ tries' = 0
        /\ UNCHANGED <<labelled, bank, open, requests, pane, ops, stream>>
    BY <1>1 DEF TimerRead, ModalRead
  <2> QED
    BY <1>0, <2>1, ReadStep
<1>2. CASE DaemonSteps
  BY <1>0, <1>1, <1>2, ModalTimeoutStep, HandleShownAsk, HandleTestAsk, HandleSetupStep,
     HandleReinitStep, HandleCommandStep DEF DaemonSteps
<1> QED
  BY <1>0, <1>2, UserStep, PingStep, RawStep, StutterInv DEF Next

\* Every variable keeps its range, whether or not the user waits.
THEOREM TypeCorrect == Spec => []TypeOK
<1>1. TypeOK /\ [Next]_vars => TypeOK'
  BY TypesNext
<1> QED
  BY <1>1, TypesInit, PTL DEF Spec

\* For a user who waits, settings[0] is what the tablet uses once nothing is under
\* way, unless the last question about it had no readable answer.
THEOREM ActiveSettingsRightHolds ==
  ASSUME Patient
  PROVE  Spec => []ActiveSettingsRight
<1>1. Inv => ActiveSettingsRight
  BY QuietFacts DEF ActiveSettingsRight
<1>2. Inv /\ [Next]_vars => Inv'
  BY NextInv
<1> QED
  BY <1>1, <1>2, InitInv, PTL DEF Spec

\* For a user who waits, the controls show the bank that is selected once nothing
\* is under way, unless its answer was lost or ignored, whatever the stream of
\* packets set but for the two popups that it sets.
THEOREM ControlsShowSelectedHolds ==
  ASSUME Patient
  PROVE  Spec => []ControlsShowSelected
<1>1. Inv => ControlsShowSelected
  BY QuietFacts DEF ControlsShowSelected
<1>2. Inv /\ [Next]_vars => Inv'
  BY NextInv
<1> QED
  BY <1>1, <1>2, InitInv, PTL DEF Spec

-----------------------------------------------------------------------------
(***************************************************************************)
(* What a step does.                                                       *)
(***************************************************************************)
LEMMA AppendIsNoTail ==
  ASSUME NEW S, NEW s \in Seq(S), s # <<>>, NEW a \in S
  PROVE  Append(s, a) # Tail(s)
<1>1. \A n \in Nat : n + 1 # n - 1
  OBVIOUS
<1>2. Len(s) \in Nat /\ Len(Append(s, a)) = Len(s) + 1 /\ Len(Tail(s)) = Len(s) - 1
  BY LenProperties, AppendProperties, HeadTailProperties
<1> QED
  BY <1>1, <1>2, Zenon

\* Only a step that processes a reply takes one from the line and leaves the messages.
LEMMA ReplyReadFacts ==
  ASSUME Inv, Next, ReplyRead
  PROVE  ProcessReply
<1>0. /\ TypeOK /\ line \in Seq(Answer) /\ requests \in Seq(Message) /\ lastRequested \in Banks
      /\ bank \in [Banks -> Word]
  BY TypeParts DEF Inv, Contents, Bounds
<1>1. line' # line
  BY <1>0, SeqFacts DEF ReplyRead
<1>2. ASSUME NEW op PROVE ~NextMessage(op)
  BY <1>0, SeqFacts DEF ReplyRead, NextMessage
<1>3. ~ModalTimeout
  <2> SUFFICES ASSUME ModalTimeout PROVE FALSE
    OBVIOUS
  <2>1. Ask(lastRequested, line, FALSE) /\ bank' = bank /\ open' = open /\ tries > 0
    BY <1>1 DEF ModalTimeout
  <2>2. open'
    BY <2>1 DEF Inv
  <2>3. \E a \in Answer : line' = Append(line, a)
    BY <1>0, <1>1, <2>1, <2>2, AskFacts
  <2> QED
    BY <1>0, <2>3, AppendIsNoTail DEF ReplyRead
<1>4. ~UserSteps /\ ~Ping /\ ~Raw
  BY <1>0, <1>1, UserTypes DEF UserActs, Ping, Raw, tablet
<1>5. DaemonSteps
  BY <1>4 DEF Next
<1> QED
  BY <1>2, <1>3, <1>5 DEF DaemonSteps, TimerRead, ModalRead, HandleAsk, HandleSetup,
                          HandleReinit, HandleCommand

\* In every history of a user who waits, each answer is filed under the bank it
\* came from.
THEOREM AnswersToTheirBankHolds ==
  ASSUME Patient
  PROVE  Spec => AnswersToTheirBank
<1> DEFINE Filed == ReplyRead /\ Head(line).readable
             => settings' = [settings EXCEPT ![Head(line).bank] = Head(line).value]
<1>1. Inv /\ [Next]_vars => [Filed]_vars
  <2> SUFFICES ASSUME Inv, Next, ReplyRead, Head(line).readable
               PROVE  settings' = [settings EXCEPT ![Head(line).bank] = Head(line).value]
    OBVIOUS
  <2>1. TypeOK /\ (Clicked \/ Answering \/ Testing) /\ line # <<>> /\ ProcessReply
    BY ReplyReadFacts DEF Inv, ReplyRead
  <2>2. PICK item \in Answer :
          /\ settings' = [settings EXCEPT ![lastRequested] = item.value]
          /\ item.readable = Head(line).readable
          /\ item.readable => item.value = bank[lastRequested]
    BY <2>1, ReplyFacts
  <2> QED
    BY <2>1, <2>2, FiledFacts
<1>2. Inv /\ [Next]_vars => Inv'
  BY NextInv
<1> QED
  BY <1>1, <1>2, InitInv, PTL DEF Spec, AnswersToTheirBank

\* In every history of a user who waits, a bank is set to what its user meant: to
\* what was shown, with one setting edited, but for the two that a [raw] showed of
\* the active settings.
THEOREM EditsOneSettingHolds ==
  ASSUME Patient
  PROVE  Spec => EditsOneSetting
<1> DEFINE Meant ==
       \A op \in {"setup", "setmem", "reinit"} :
       requests # <<>> /\ Head(requests).op = op /\ requests' = Tail(requests)
         /\ open
       => AsMeant(Head(requests), bank, bank')
<1>1. Inv /\ [Next]_vars => [Meant]_vars
  <2> SUFFICES ASSUME Inv, Next, NEW op \in {"setup", "setmem", "reinit"},
                      requests # <<>>, Head(requests).op = op, requests' = Tail(requests),
                      open
               PROVE  AsMeant(Head(requests), bank, bank')
    OBVIOUS
  <2>1. Clicked
    BY NotRenewing, CurrentFacts DEF Inv
  <2>2. Proper(Head(requests))
    BY <2>1, ClickedFacts
  <2>3. ~Ping /\ ~Raw /\ ~TimerRead /\ ~ModalRead /\ ~ModalTimeout
    BY <2>1 DEF Ping, Raw, TimerRead, ModalRead, ModalTimeout, Clicked, Fresh
  <2>4. ~UserSteps
    BY UserTypes DEF Inv, UserActs, Quiet
  <2>5. ~HandleCommand /\ ~(\E o \in {"?bank", "test"} : HandleAsk(o))
    BY DEF HandleCommand, HandleAsk, NextMessage
  <2>6. SetUp(Head(requests).bank, Head(requests).value)
    <3>1. CASE \E o \in {"setup", "setmem"} : HandleSetup(o)
      BY <2>2, <3>1 DEF HandleSetup, NextMessage, Proper
    <3>2. CASE HandleReinit
      BY <2>2, <3>2 DEF HandleReinit, NextMessage, Proper
    <3> QED
      BY <2>3, <2>4, <2>5, <3>1, <3>2 DEF Next, DaemonSteps
  <2> QED
    BY <2>2, <2>6 DEF SetUp, Proper
<1>2. Inv /\ [Next]_vars => Inv'
  BY NextInv
<1> QED
  BY <1>1, <1>2, InitInv, PTL DEF Spec, EditsOneSetting

\* In every history of a user who waits, the reply to a Testing command changes
\* nothing in the controls.
THEOREM TestsNotShownHolds ==
  ASSUME Patient
  PROVE  Spec => TestsNotShown
<1> DEFINE Unshown ==
       queue # <<>> /\ queue' = Tail(queue) /\ Head(queue).test => controls' = controls
<1>1. Inv /\ [Next]_vars => [Unshown]_vars
  <2> SUFFICES ASSUME Inv, Next, queue # <<>>, queue' = Tail(queue), Head(queue).test
               PROVE  controls' = controls
    OBVIOUS
  <2>1. Testing
    <3>1. ~Clicked
      BY DEF Clicked, Fresh
    <3>2. ~Answering
      BY SeqFacts DEF Answering, Honest
    <3> QED
      BY <3>1, <3>2 DEF Inv
  <2>2. CASE Ping
    BY <2>1, <2>2 DEF Ping, Testing
  <2>3. CASE DaemonSteps
    BY <2>3 DEF DaemonSteps, TimerRead, ModalRead, ModalTimeout, HandleAsk, HandleSetup,
                HandleReinit, HandleCommand, NextMessage, pane
  <2>4. ~UserSteps
    BY UserTypes DEF Inv, UserActs, Quiet
  <2>5. ~Raw
    <3>1. queue \in Seq(Answer)
      BY TypeParts DEF Inv, Contents
    <3> QED
      BY <3>1, SeqFacts DEF Raw, daemon
  <2> QED
    BY <2>2, <2>3, <2>4, <2>5 DEF Next
<1>2. Inv /\ [Next]_vars => Inv'
  BY NextInv
<1> QED
  BY <1>1, <1>2, InitInv, PTL DEF Spec, TestsNotShown
=============================================================================
