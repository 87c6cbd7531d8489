----------------------------- MODULE MemoryBanks -----------------------------
(***************************************************************************)
(* The settings of a UD tablet and its memory banks, kept in three places. *)
(*                                                                         *)
(* The tablet holds the active settings (bank 0) and two memory banks, the *)
(* daemon a copy of each in settings[3], and the preference pane shows one *)
(* of them in its controls.  They talk by messages that nothing pairs with *)
(* their answers: the pane asks the daemon for a bank and is told [ok],    *)
(* the daemon sends ~R to the tablet and remembers which bank it asked for *)
(* last, the reply is read by a timer or by a modal request, and an [info] *)
(* waits in outgoing_message_queue until the pane's ping timer fetches it. *)
(* The user may click at any moment between these steps, and may have the  *)
(* Testing tab shown, whose stream of packets sets two of the controls to  *)
(* the active settings whatever bank they are to show.                     *)
(*                                                                         *)
(* The tablet is external: it obeys commands and answers them in order.    *)
(***************************************************************************)
EXTENDS TabletSettings, Sequences

CONSTANTS
  Settings, \* the settings words considered, see TabletSettings
  Default,  \* the settings word a TabletSettings is constructed with
  Tries,    \* the 15 of GetUDSettingsOrFail
  Labellings, \* whether the tablets considered answer ~R1 with ~R1..., as "the
            \* Wacom docs claim", or with ~R...
  Lossy,    \* TRUE if an answer may be lost or made unreadable on the line
  Patient,  \* TRUE if the user waits until nothing is under way
  MaxOps    \* bound: the number of things the user does

ASSUME MemoryBanksAssumption ==
  /\ Settings \subseteq Word
  /\ Default \in Settings
  /\ Tries \in Nat \ {0}
  /\ Labellings \subseteq BOOLEAN
  /\ {Lossy, Patient} \subseteq BOOLEAN
  /\ MaxOps \in Nat

Banks == 0..2

VARIABLES
  \* the tablet and the serial line
  labelled,      \* whether the tablet says which memory bank an answer is from
  bank,          \* what the tablet holds in each bank
  line,          \* the answers the daemon has not read yet
  open,          \* whether the daemon has the serial port open
  \* the daemon
  settings,      \* settings[3]
  lastRequested, \* bank_last_requested
  tries,         \* of the modal GetUDSettingsOrFail; 0 when none is under way
  queue,         \* outgoing_message_queue
  \* the preference pane
  requests,      \* the messages sent to the daemon that it has not handled
  selected,      \* the bank selected in matrixMem
  controls,      \* what the settings controls show
  ignoreNext,    \* ignore_next_info
  oldSetFmt,     \* the statics oldSet and oldFmt; <<>> before the first [raw]
  \* history and bounds
  ops,           \* the number of things the user did
  unsure,        \* the banks whose last question had no readable answer
  missed,        \* the banks that the pane asked for and was not shown since
  strayed        \* whether a [raw] has set popups since a bank was shown in them

tablet == <<labelled, bank, line, open>>
daemon == <<settings, lastRequested, tries, queue>>
pane   == <<selected, controls, ignoreNext>>
history == <<unsure, missed>>
stream == <<oldSetFmt, strayed>>
vars   == <<tablet, daemon, requests, pane, ops, history, stream>>

\* An answer or [info] says which bank it is from; `test` marks what a command
\* of the Testing tab asked for, `readable` an answer whose digits arrived.
Answer == [bank : Banks, value : Word, test : BOOLEAN, readable : BOOLEAN]

\* The user's part in a message that sets a bank: the controls showed the bank
\* `from`, one setting of it was edited, and those in `sure` were shown right as
\* far as the user can know.
Change == [from : Banks, field : Fields, edit : 0..3, sure : SUBSET Fields]

Message ==
  [op : {"?bank", "test"}, bank : Banks]
    \cup [op : {"command"}, value : Word]
    \cup [op : {"setup", "reinit", "setmem"}, bank : Banks, value : Word, change : Change]

Init ==
  /\ labelled \in Labellings
  /\ bank \in [Banks -> Settings]
  /\ line = <<>>
  /\ open = TRUE
  /\ settings = [b \in Banks |-> IF b = 0 THEN bank[0] ELSE Default]
  /\ lastRequested = 0
  /\ tries = 0
  /\ queue = <<>>
  /\ requests = <<>>
  /\ selected = 0
  /\ controls = SetControlsForSettings(InitialControls, bank[0])
  /\ ignoreNext = FALSE
  /\ ops = 0
  /\ unsure = {}
  /\ missed = {}
  /\ oldSetFmt = <<>>
  /\ strayed = FALSE

-----------------------------------------------------------------------------
(***************************************************************************)
(* The daemon.                                                             *)
(***************************************************************************)

\* A question that will have no readable answer.
Unanswered(b, test) ==
  /\ unsure' = unsure \union {b}
  /\ missed' = IF test THEN missed ELSE missed \union {b}

\* SendCommandToTablet with a ~R command, the unread answers being `unread`.
Ask(b, unread, test) ==
  /\ lastRequested' = b
  /\ \/ \E readable \in {TRUE, ~Lossy} :
          /\ open'
          /\ line' = Append(unread, [bank |-> b, value |-> bank'[b], test |-> test,
                                    readable |-> readable])
          /\ IF readable THEN UNCHANGED history ELSE Unanswered(b, test)
     \/ /\ open' /\ Lossy
        /\ line' = unread
        /\ Unanswered(b, test)
     \/ /\ ~open'
        /\ line' = <<>>
        /\ Unanswered(b, test)

\* Faulty: the bank asked for is forgotten.
MutFiledUnder(answer) == IF labelled THEN answer.bank ELSE 0

\* The bank an answer is taken to be from.
FiledUnder(answer) == IF labelled /\ answer.bank # 0 THEN answer.bank ELSE lastRequested

\* ProcessCommandReply of the next answer on the line.
ProcessReply ==
  LET answer == Head(line)
      b      == FiledUnder(answer)
  IN  \E memory \in Settings :
        LET value == Import(answer.value, answer.readable, memory)
        IN  /\ settings' = [settings EXCEPT ![b] = value]
            /\ queue' = Append(queue, [answer EXCEPT !.bank = b, !.value = value])
            /\ line' = Tail(line)
            /\ unsure' = IF answer.readable THEN unsure \ {answer.bank}
                         ELSE unsure \union {b}
            /\ UNCHANGED <<lastRequested, missed>>

\* The timer reads an answer.
TimerRead ==
  /\ open /\ tries = 0 /\ line # <<>>
  /\ ProcessReply
  /\ UNCHANGED <<labelled, bank, open, tries, requests, pane, ops, stream>>

\* A modal request takes whatever answer comes first.
ModalRead ==
  /\ tries > 0 /\ line # <<>>
  /\ ProcessReply
  /\ tries' = 0
  /\ UNCHANGED <<labelled, bank, open, requests, pane, ops, stream>>

\* Faulty: the last try is never given up.
MutModalTimeout ==
  /\ tries > 0
  /\ tries' = IF tries > 1 THEN tries - 1 ELSE tries
  /\ UNCHANGED <<labelled, bank, open, settings, queue, requests, pane, ops, stream>>
  /\ IF tries > 1 THEN Ask(lastRequested, line, FALSE)
     ELSE UNCHANGED <<line, lastRequested, history>>

\* No answer within 0.1 seconds: ask again, or give up.
ModalTimeout ==
  /\ tries > 0
  /\ tries' = tries - 1
  /\ UNCHANGED <<labelled, bank, open, settings, queue, requests, pane, ops, stream>>
  /\ IF tries > 1 THEN Ask(lastRequested, line, FALSE)
     ELSE UNCHANGED <<line, lastRequested, history>>

\* HandleMessage, for the messages about settings; it is not reentered while a
\* modal request is under way.
NextMessage(op) ==
  /\ tries = 0
  /\ requests # <<>>
  /\ Head(requests).op = op
  /\ requests' = Tail(requests)
  /\ UNCHANGED <<labelled, queue, pane, ops, stream>>

\* ?bank b, and the Testing commands that read a bank.
HandleAsk(op) ==
  /\ op \in {"?bank", "test"}
  /\ NextMessage(op)
  /\ UNCHANGED <<bank, open, settings, tries>>
  /\ Ask(Head(requests).bank, line, op = "test")

\* SendUDSetupString imports the string into the intended bank, then tells the
\* tablet.
SetUp(b, value) ==
  /\ settings' = [settings EXCEPT ![b] = value]
  /\ bank' = IF open THEN [bank EXCEPT ![b] = value] ELSE bank

\* A modal request on a port that is not open gives up without asking.
StartModal(b, unread) ==
  /\ Ask(b, unread, FALSE)
  /\ tries' = IF open' THEN Tries ELSE 0

\* setup and setmem: insist on reading the bank back.
HandleSetup(op) ==
  /\ op \in {"setup", "setmem"}
  /\ NextMessage(op)
  /\ UNCHANGED open
  /\ LET b == IF op = "setup" THEN 0 ELSE Head(requests).bank
     IN  SetUp(b, Head(requests).value) /\ StartModal(b, line)

\* reinit: the port is closed, dropping unread answers or not, and opened
\* again, which may fail.
HandleReinit ==
  /\ NextMessage("reinit")
  /\ SetUp(0, Head(requests).value)
  /\ open' \in BOOLEAN
  /\ \E unread \in {line, <<>>} : StartModal(0, unread)

\* A Testing command that changes the tablet's settings behind the daemon's back.
HandleCommand ==
  /\ NextMessage("command")
  /\ bank' = IF open THEN [bank EXCEPT ![0] = Head(requests).value] ELSE bank
  /\ UNCHANGED <<line, open, settings, lastRequested, tries, history>>

-----------------------------------------------------------------------------
(***************************************************************************)
(* The preference pane.                                                    *)
(***************************************************************************)

\* Nothing is under way anywhere.
Quiet == requests = <<>> /\ line = <<>> /\ queue = <<>> /\ tries = 0

\* The pane is blocked until its message is handled, or has timed out while the
\* daemon was in a modal request.
UserActs ==
  /\ ops < MaxOps
  /\ ops' = ops + 1
  /\ requests = <<>> \/ tries > 0
  /\ Patient => Quiet
  /\ UNCHANGED <<tablet, daemon, history, stream>>

\* chooseMemoryBank
ChooseMemoryBank(b) ==
  /\ UserActs
  /\ selected' = b
  /\ requests' = Append(requests, [op |-> "?bank", bank |-> b])
  /\ UNCHANGED <<controls, ignoreNext>>

\* Faulty: the bank shown is asked for instead of the active settings.
MutRequestCurrentSettings == [op |-> "?bank", bank |-> selected]

\* requestCurrentSettings
RequestCurrentSettings == [op |-> "?bank", bank |-> 0]

\* The settings that the controls show of the bank selected, as far as its user can
\* know.
Trusted ==
  IF selected \in missed THEN {} ELSE IF strayed THEN Fields \ Streamed ELSE Fields

\* What the controls now say of the bank selected, for a bank to be set to.
Set(op, b, c, field, value) ==
  [op |-> op, bank |-> b, value |-> SettingsStringFromControls(c),
   change |-> [from |-> selected, field |-> field, edit |-> value, sure |-> Trusted]]

\* activateMem: make the bank shown the active settings.  (Nothing is edited.)
ActivateMem ==
  /\ UserActs
  /\ selected' = 0
  /\ requests' = requests \o
       <<Set("reinit", 0, controls, "serial", controls.serial), RequestCurrentSettings>>
  /\ UNCHANGED <<controls, ignoreNext>>

\* settingsChanged and toggledTiltOrMM, and serialSettingsChanged with a memory bank
\* selected
SettingsChanged(field, value) ==
  /\ UserActs
  /\ field = "serial" => selected # 0
  /\ controls' = Edit(controls, field, value)
  /\ requests' = Append(requests,
       Set(IF selected = 0 THEN "setup" ELSE "setmem", selected, controls', field, value))
  /\ UNCHANGED <<selected, ignoreNext>>

\* serialSettingsChanged with the active settings selected
SerialSettingsChanged(value) ==
  /\ UserActs
  /\ selected = 0
  /\ controls' = Edit(controls, "serial", value)
  /\ requests' = Append(requests, Set("reinit", 0, controls', "serial", value))
  /\ UNCHANGED <<selected, ignoreNext>>

\* Faulty: the reply is not marked as one to ignore.
MutTestBank(b) ==
  /\ UserActs
  /\ requests' = Append(requests, [op |-> "test", bank |-> b])
  /\ UNCHANGED <<selected, controls, ignoreNext>>

\* sendSelectedCommand: a command that reads a bank, whose reply "should not be
\* interpreted", or one that changes the settings, after which they are asked for.
TestBank(b) ==
  /\ UserActs
  /\ ignoreNext' = TRUE
  /\ requests' = Append(requests, [op |-> "test", bank |-> b])
  /\ UNCHANGED <<selected, controls>>

TestCommand(value) ==
  /\ UserActs
  /\ ignoreNext' = FALSE
  /\ requests' = requests \o <<[op |-> "command", value |-> value], RequestCurrentSettings>>
  /\ selected' = 0
  /\ UNCHANGED controls

\* doPingTimer fetches an [info] and handleDaemonMessage shows it.
Ping ==
  /\ requests = <<>> /\ tries = 0 /\ queue # <<>>
  /\ queue' = Tail(queue)
  /\ IF ignoreNext
     THEN /\ ignoreNext' = FALSE
          /\ missed' = IF Head(queue).test THEN missed ELSE missed \union {Head(queue).bank}
          /\ UNCHANGED <<selected, controls, strayed>>
     ELSE /\ controls' = SetControlsForSettings(controls, Head(queue).value)
          /\ selected' = IF Head(queue).bank = 0 THEN 0 ELSE selected
          /\ missed' = IF Head(queue).readable THEN missed \ {Head(queue).bank}
                       ELSE missed \union {Head(queue).bank}
          /\ strayed' = FALSE
          /\ UNCHANGED ignoreNext
  /\ UNCHANGED <<tablet, settings, lastRequested, tries, requests, ops, unsure, oldSetFmt>>

\* handleDaemonMessage of the [raw] that answers a "stream".  The user may show the
\* Testing tab and leave it again between any two steps.
Raw ==
  /\ requests = <<>> /\ tries = 0
  /\ <<settings[0].set, settings[0].format>> # oldSetFmt
  /\ oldSetFmt' = <<settings[0].set, settings[0].format>>
  /\ controls' = SelectStreamed(controls, settings[0])
  /\ strayed' = (selected # 0 \/ 0 \in unsure)
  /\ UNCHANGED <<tablet, daemon, requests, selected, ignoreNext, ops, history>>

-----------------------------------------------------------------------------
DaemonSteps ==
  \/ TimerRead
  \/ ModalRead
  \/ ModalTimeout
  \/ \E op \in {"?bank", "test"} : HandleAsk(op)
  \/ \E op \in {"setup", "setmem"} : HandleSetup(op)
  \/ HandleReinit
  \/ HandleCommand

UserSteps ==
  \/ \E b \in Banks : ChooseMemoryBank(b) \/ TestBank(b)
  \/ \E value \in ListedSets : SettingsChanged("set", value)
  \/ \E field \in {"format", "tilt", "mdm"} : SettingsChanged(field, 1 - controls[field])
  \/ SettingsChanged("serial", 1 - controls.serial)
  \/ SerialSettingsChanged(1 - controls.serial)
  \/ \E value \in Settings : TestCommand(value)
  \/ ActivateMem

Next == DaemonSteps \/ UserSteps \/ Ping \/ Raw

Spec == Init /\ [][Next]_vars

\* The daemon's run loop and the pane's ping timer keep running.
FairSpec == Spec /\ WF_vars(DaemonSteps) /\ WF_vars(Ping)

-----------------------------------------------------------------------------
\* Each variable keeps its range.
TypeOK ==
  /\ labelled \in BOOLEAN
  /\ bank \in [Banks -> Word] /\ settings \in [Banks -> Word]
  /\ line \in Seq(Answer) /\ queue \in Seq(Answer)
  /\ open \in BOOLEAN
  /\ lastRequested \in Banks
  /\ tries \in 0..Tries
  /\ requests \in Seq(Message)
  /\ selected \in Banks
  /\ controls \in Controls
  /\ ignoreNext \in BOOLEAN
  /\ ops \in 0..MaxOps
  /\ unsure \subseteq Banks /\ missed \subseteq Banks
  /\ oldSetFmt \in {<<>>} \union (0..3) \X (0..1)
  /\ strayed \in BOOLEAN

\* The daemon reads an answer.
ReplyRead == line # <<>> /\ line' = Tail(line) /\ requests' = requests

\* Each answer is filed under the bank it came from.
AnswersToTheirBank ==
  [][ReplyRead /\ Head(line).readable
     => settings' = [settings EXCEPT ![Head(line).bank] = Head(line).value]]_vars

\* Once nothing is under way settings[0] "is the active setting", unless the last
\* question about it had no readable answer: the next one that has puts it right.
ActiveSettingsRight == Quiet /\ open /\ 0 \notin unsure => settings[0] = bank[0]

\* The controls show the bank that is selected, as far as they can show it, so
\* that changing a setting changes that bank alone, unless its [info] did not come
\* or was ignored for the one of a Testing command that did not come.  The two
\* popups that a [raw] set since may show the active settings instead.
ControlsShowSelected == Quiet /\ open => Shows(controls, bank[selected], Trusted)

\* Whether message r, handled now, will set a bank as its user meant it: to the bank
\* that was shown, with one setting edited, bits without a control aside.
AsMeant(r, now, then) ==
  \A field \in r.change.sure \ {"low"} :
    LET meant == Edit(now[r.change.from], r.change.field, r.change.edit)
    IN  (field = "set" => meant.set \in ListedSets) => then[r.bank][field] = meant[field]

\* Editing one setting changes one setting: whatever answers were lost before, the
\* tablet's bank gets no other value that the user was not shown, but for the command
\* set and the output format after a [raw] has set their popups.
EditsOneSetting ==
  [][\A op \in {"setup", "setmem", "reinit"} :
       requests # <<>> /\ Head(requests).op = op /\ requests' = Tail(requests) /\ open
       => AsMeant(Head(requests), bank, bank')]_vars

\* The reply to a Testing command "should not be interpreted".
TestsNotShown ==
  [][queue # <<>> /\ queue' = Tail(queue) /\ Head(queue).test => controls' = controls]_vars

\* The daemon comes out of every modal request, whatever is lost, and handles
\* what the pane sent meanwhile.
ModalEnds == (tries > 0) ~> (tries = 0 /\ requests = <<>>)

=============================================================================
