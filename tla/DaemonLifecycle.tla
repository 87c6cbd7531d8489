--------------------------- MODULE DaemonLifecycle ---------------------------
(***************************************************************************)
(* The life of TabletMagicDaemon: how it looks for a tablet, when it runs  *)
(* and how it is asked to stop.                                            *)
(*                                                                         *)
(* main constructs a WacomTablet, whose constructor scans the serial ports *)
(* for a tablet, and then enters the run loop.  Everything else happens in *)
(* callbacks of that loop, one at a time: the timer that reads the port    *)
(* and looks at quitProcessor, messages from the preference pane (which    *)
(* may scan the ports again), and the wake-up notification.  Signals alone *)
(* are asynchronous: their handler sets quitProcessor at any moment.       *)
(*                                                                         *)
(* The tablets, the I/O registry and the signals are external.             *)
(***************************************************************************)
EXTENDS Naturals, Sequences

CONSTANTS
  Ports,       \* the serial ports of the machine
  Kinds,       \* the kinds of tablet considered, of Kind
  Commands,    \* args.command, for the command lines considered
  TestModes,   \* args.quit (-X), for the command lines considered
  Hackintosh,  \* hackintosh
  SignalTimes, \* when signals may come: "starting", "running"
  Requests,    \* the messages of the pane considered, of Request
  Flaky,       \* TRUE if a tablet may leave any request unanswered
  Tries,       \* the 15 of GetUDSettingsOrFail
  MaxEvents    \* bound: the number of messages and wake-ups

\* Only the UD tablets answer requests for their settings.
Kind    == {"UD", "Intuos", "TabletPC"}
Request == {"quit", "port", "reinit", "tabletpc", "start", "stop", "ask"}
Speed   == {9600, 19200}
NoPort  == "none"

\* A tablet has a speed it was set to.
Tablet   == [kind : Kinds, speed : Speed]
NoTablet == [kind |-> "none", speed |-> 9600]

ASSUME LifecycleAssumption ==
  /\ NoPort \notin Ports
  /\ Kinds \subseteq Kind
  /\ Commands \subseteq BOOLEAN /\ TestModes \subseteq BOOLEAN
  /\ Hackintosh \in BOOLEAN /\ Flaky \in BOOLEAN
  /\ SignalTimes \subseteq {"starting", "running"}
  /\ Requests \subseteq Request
  /\ Tries \in Nat \ {0}
  /\ MaxEvents \in Nat

VARIABLES
  \* the machine: the tablet on each port, with the speed it is set to
  plugged,
  \* the command line
  command, testMode, startOff,
  forcePC,       \* args.forcepc
  wanted,        \* args.port: the ports its name matches
  \* the daemon
  pc,            \* where the daemon is
  looping,       \* whether the run loop has been entered
  quitProcessor,
  tabletOn,      \* tablet_on
  fd,            \* the port that is open, or NoPort
  path,          \* deviceFilePath, or NoPort if it is empty
  speed,         \* openSpeed
  series,        \* series_index
  stylusReady,   \* whether InitStylus has run
  \* the scan
  left,          \* the ports the iterator has yet to return
  attempt,       \* the place in models_to_try
  firstSpeed,    \* first_speed
  \* the tablet and the pane
  replyDue,      \* whether a settings reply is on its way
  told,          \* the last of [hello], [ready] and [none] queued for the pane
  \* history and bounds
  asked,         \* whether someone asked the daemon to quit
  stopSent,      \* whether the pane paused the tablet
  silent,        \* whether a tablet ever left a request for settings unanswered
  cut,           \* whether a reinit since the last scan failed to open the port
  brokenOff,     \* whether the last scan was broken off before the last port
  events

arguments == <<command, testMode, startOff, forcePC, wanted>>
port      == <<fd, path, speed, series>>
scanning  == <<left, attempt, firstSpeed>>
history   == <<asked, stopSent, silent, cut, brokenOff>>
vars == <<plugged, arguments, pc, looping, quitProcessor, tabletOn, port,
          stylusReady, scanning, replyDue, told, history, events>>

\* Faulty: the speed is doubled and doubled again.
MutOther(s) == 2 * s

Other(s) == IF s = 9600 THEN 19200 ELSE 9600

\* typical_models and tablet_pc_models: each a model and a speed
ModelsToTry ==
  IF Hackintosh
  THEN <<<<"TabletPC", 19200>>, <<"TabletPC", 9600>>,
         <<"Unknown", firstSpeed>>, <<"Unknown", Other(firstSpeed)>>>>
  ELSE <<<<"Unknown", firstSpeed>>, <<"Unknown", Other(firstSpeed)>>>>

Init ==
  /\ plugged \in [Ports -> {NoTablet} \cup Tablet]
  /\ command \in Commands
  /\ testMode \in TestModes
  /\ startOff \in (IF testMode THEN {TRUE} ELSE IF command THEN BOOLEAN ELSE {FALSE})
  /\ forcePC = FALSE
  /\ wanted \in {Ports} \cup {{p} : p \in Ports}
  /\ pc = "start"
  /\ looping = FALSE
  /\ quitProcessor = FALSE
  /\ tabletOn = ~startOff
  /\ fd = NoPort /\ path = NoPort
  /\ speed = 9600 /\ firstSpeed = 9600
  /\ series = "Unknown"
  /\ stylusReady = FALSE
  /\ left = {} /\ attempt = 1
  /\ replyDue = FALSE
  /\ told = "nothing"
  /\ asked = testMode
  /\ stopSent = FALSE /\ silent = FALSE
  /\ cut = FALSE /\ brokenOff = FALSE
  /\ events = 0

-----------------------------------------------------------------------------
(***************************************************************************)
(* Looking for a tablet.                                                   *)
(***************************************************************************)

\* InitializeForPort, up to the loop of FindTabletOnPort.  The path is left as
\* it is.
InitializeForPort ==
  /\ pc' = "scan"
  /\ fd' = NoPort
  /\ series' = "Unknown"
  /\ left' = Ports
  /\ attempt' = 1
  /\ firstSpeed' = speed
  /\ cut' = FALSE /\ brokenOff' = FALSE
  /\ UNCHANGED <<path, speed>>

\* The constructor.
Start ==
  /\ pc = "start"
  /\ told' = IF command THEN "hello" ELSE told
  /\ InitializeForPort
  /\ UNCHANGED <<plugged, arguments, looping, quitProcessor, tabletOn,
                 stylusReady, replyDue, asked, stopSent, silent, events>>

\* OpenNextMatchingPort: the next port opens, or is passed over because its
\* name does not match or it does not open.
OpenNext(p) ==
  /\ pc = "scan" /\ fd = NoPort
  /\ p \in left
  /\ left' = left \ {p}
  /\ path' = p
  /\ fd' \in IF p \in wanted THEN {p, NoPort} ELSE {NoPort}
  /\ attempt' = 1
  /\ UNCHANGED <<plugged, arguments, pc, looping, quitProcessor, tabletOn, speed,
                 series, stylusReady, firstSpeed, replyDue, told, history, events>>

\* Whether the tablet on a port, opened at a speed, answers for its settings.
AnswersSettings(p, s) ==
  /\ p # NoPort
  /\ plugged[p].kind = "UD" /\ plugged[p].speed = s

\* The request that is answered is number k, none if k is Tries + 1.
Answered(k) == k <= Tries

\* What GetUDSettingsOrFail returns: tries > 0 after as many decrements.
GotSettings(k) == k < Tries

\* Which request can be the one answered by that tablet.
MayAnswer(k, p, s) == IF Answered(k) THEN AnswersSettings(p, s)
                                     ELSE AnswersSettings(p, s) => Flaky

\* Faulty: a tablet that does not answer makes the daemon quit.
MutGetUDSettingsOrFail(k, p, s) ==
  /\ MayAnswer(k, p, s)
  /\ quitProcessor' = IF Answered(k) THEN testMode ELSE TRUE
  /\ silent' = (silent \/ ~Answered(k))

\* The settings reply sets quitProcessor, as ProcessCommandReply does for ~R.
GetUDSettingsOrFail(k, p, s) ==
  /\ MayAnswer(k, p, s)
  /\ quitProcessor' = IF Answered(k) THEN testMode ELSE quitProcessor
  /\ silent' = (silent \/ ~Answered(k))

\* The part of InitializeTablet after the model is known.
SetUpModel ==
  IF series' = "UD"
  THEN \E k \in 1..Tries + 1 :
         /\ GetUDSettingsOrFail(k, fd, speed')
         /\ tabletOn' = IF ~GotSettings(k) /\ command THEN FALSE ELSE tabletOn
  ELSE UNCHANGED <<quitProcessor, silent, tabletOn>>

\* Whether the tablet on the open port answers a request of this kind.
Answers(model, s) ==
  /\ plugged[fd] # NoTablet
  /\ plugged[fd].speed = s
  /\ (plugged[fd].kind = "TabletPC") <=> (model = "TabletPC")

\* A round of FindTabletOnPort's inner loop: SetSpeed and InitializeTablet.  A
\* TabletPC is believed without asking if args.forcepc; the others must answer
\* for their identity and for their maximum coordinates.
Identified(model, s) ==
  \/ model = "TabletPC" /\ forcePC
  \/ Answers(model, s)

\* Faulty: the same model is tried again.
MutGiveUp == UNCHANGED <<attempt, fd, pc>>

GiveUp ==
  /\ attempt' = attempt + 1
  /\ fd' = IF attempt = Len(ModelsToTry) THEN NoPort ELSE fd
  /\ UNCHANGED pc

InitializeTablet ==
  LET model == ModelsToTry[attempt][1]
      s     == ModelsToTry[attempt][2]
  IN  /\ pc = "scan" /\ fd # NoPort
      /\ speed' = s
      /\ \/ /\ Identified(model, s) => Flaky
            /\ series' = IF model = "TabletPC" /\ ~forcePC THEN "TabletPC" ELSE series
            /\ UNCHANGED <<quitProcessor, silent, tabletOn>>
            /\ GiveUp
         \/ /\ Identified(model, s)
            /\ series' = IF model = "TabletPC" THEN "TabletPC" ELSE plugged[fd].kind
            /\ SetUpModel
            /\ \/ pc' = "scanned" /\ UNCHANGED <<fd, attempt>>
               \/ model # "TabletPC" /\ Flaky /\ GiveUp
      /\ UNCHANGED <<plugged, arguments, looping, path, stylusReady, left, firstSpeed,
                     replyDue, told, asked, stopSent, cut, brokenOff, events>>

\* Faulty: the path of the last port tried survives the scan.
MutExhausted ==
  /\ pc = "scan" /\ fd = NoPort /\ left = {}
  /\ pc' = "scanned"
  /\ speed' = firstSpeed
  /\ UNCHANGED <<plugged, arguments, looping, quitProcessor, tabletOn, fd, path, series,
                 stylusReady, scanning, replyDue, told, history, events>>

\* The iterator is exhausted: GetNextPortPath has cleared the path, and the
\* speed is restored.
Exhausted ==
  /\ pc = "scan" /\ fd = NoPort /\ left = {}
  /\ pc' = "scanned"
  /\ path' = NoPort
  /\ speed' = firstSpeed
  /\ UNCHANGED <<plugged, arguments, looping, quitProcessor, tabletOn, fd, series,
                 stylusReady, scanning, replyDue, told, history, events>>

\* The iterator dies, because the registry has changed, or BeginPortScan gave
\* none: the path is that of the port tried last, of this scan or an earlier one.
IteratorDies ==
  /\ pc = "scan" /\ fd = NoPort
  /\ pc' = "scanned"
  /\ speed' = firstSpeed
  /\ left' = {}
  /\ brokenOff' = TRUE
  /\ UNCHANGED <<plugged, arguments, looping, quitProcessor, tabletOn, fd, path, series,
                 stylusReady, attempt, firstSpeed, replyDue, told, asked, stopSent,
                 silent, cut, events>>

\* Faulty: the pane is not told that there is no tablet.
MutAnnounce(found) == IF command /\ found THEN "ready" ELSE told

\* What the pane has been told once the scan is over.
Announce(found) == IF command THEN (IF found THEN "ready" ELSE "none") ELSE told

\* The stylus is initialised for the tablet found.
InitStylus(found) == stylusReady' = (stylusReady \/ found)

\* The end of InitializeForPort: tell the pane, or give up without one.  The
\* variables of the scan are gone.
Report ==
  /\ pc = "scanned"
  /\ LET found == fd # NoPort
     IN  /\ pc' = IF ~found /\ ~command THEN "failed" ELSE IF looping THEN "loop" ELSE "built"
         /\ told' = Announce(found)
         /\ InitStylus(found)
  /\ left' = {} /\ attempt' = 1 /\ firstSpeed' = 9600
  /\ UNCHANGED <<plugged, arguments, looping, quitProcessor, tabletOn, port,
                 replyDue, history, events>>

-----------------------------------------------------------------------------
(***************************************************************************)
(* The run loop.                                                           *)
(***************************************************************************)

\* RunEventLoop
RunEventLoop ==
  /\ pc = "built"
  /\ quitProcessor' = FALSE
  /\ looping' = TRUE
  /\ pc' = "loop"
  /\ UNCHANGED <<plugged, arguments, tabletOn, port, stylusReady, scanning, replyDue,
                 told, history, events>>

\* TabletTimerCallback stops the loop, or reads what is on the port.
TimerStops ==
  /\ pc = "loop" /\ quitProcessor
  /\ pc' = "ended"
  /\ fd' = NoPort
  /\ UNCHANGED <<plugged, arguments, looping, quitProcessor, tabletOn, path, speed, series,
                 stylusReady, scanning, replyDue, told, history, events>>

TimerReads ==
  /\ pc = "loop" /\ ~quitProcessor
  /\ fd # NoPort /\ replyDue
  /\ replyDue' = FALSE
  /\ quitProcessor' = testMode
  /\ UNCHANGED <<plugged, arguments, pc, looping, tabletOn, port, stylusReady, scanning,
                 told, history, events>>

Event ==
  /\ pc = "loop"
  /\ events < MaxEvents
  /\ events' = events + 1
  /\ UNCHANGED <<plugged, command, testMode, startOff, looping, stylusReady, told>>

\* HandleMessage, for the messages that matter here.
Message(request) == Event /\ command /\ request \in Requests

HandleQuit ==
  /\ Message("quit")
  /\ quitProcessor' = TRUE
  /\ asked' = TRUE
  /\ UNCHANGED <<forcePC, wanted, pc, tabletOn, port, scanning, replyDue, stopSent, silent, cut, brokenOff>>

HandlePort ==
  /\ Message("port")
  /\ wanted' \in {Ports} \cup {{p} : p \in Ports}
  /\ InitializeForPort
  /\ UNCHANGED <<forcePC, quitProcessor, tabletOn, replyDue, asked, stopSent, silent>>

HandleTabletPC ==
  /\ Message("tabletpc")
  /\ forcePC' \in BOOLEAN
  /\ InitializeForPort
  /\ UNCHANGED <<wanted, quitProcessor, tabletOn, replyDue, asked, stopSent, silent>>

\* reinit opens the same path again, with the speed of the new settings, and asks
\* for the settings unless the series has none.
HandleReinit ==
  /\ Message("reinit")
  /\ speed' \in Speed
  /\ fd' \in {path, NoPort}
  /\ cut' = (fd' = NoPort)
  /\ IF series # "TabletPC"
     THEN \E k \in 1..Tries + 1 : GetUDSettingsOrFail(k, fd', speed')
     ELSE UNCHANGED <<quitProcessor, silent>>
  /\ UNCHANGED <<forcePC, wanted, pc, tabletOn, path, series, scanning, replyDue, asked, stopSent,
                 brokenOff>>

\* start and stop
HandleProcessing(on) ==
  /\ Message(IF on THEN "start" ELSE "stop")
  /\ tabletOn' = on
  /\ stopSent' = (stopSent \/ ~on)
  /\ UNCHANGED <<forcePC, wanted, pc, quitProcessor, port, scanning, replyDue, asked, silent, cut, brokenOff>>

\* A request for settings whose reply the timer will read.
HandleAsk ==
  /\ Message("ask")
  /\ \/ replyDue' = (replyDue \/ (series # "TabletPC" /\ AnswersSettings(fd, speed)))
     \/ Flaky /\ UNCHANGED replyDue
  /\ UNCHANGED <<forcePC, wanted, pc, quitProcessor, tabletOn, port, scanning, history>>

\* PowerCallBack: the machine has woken up.
Wake ==
  /\ Event
  /\ fd # NoPort
  /\ InitializeForPort
  /\ UNCHANGED <<forcePC, wanted, quitProcessor, tabletOn, replyDue, asked, stopSent, silent>>

\* signal_handler, at any moment.
Signal ==
  /\ pc \notin {"start", "ended", "failed"}
  /\ (IF looping THEN "running" ELSE "starting") \in SignalTimes
  /\ quitProcessor' = TRUE
  /\ asked' = TRUE
  /\ UNCHANGED <<plugged, arguments, pc, looping, tabletOn, port, stylusReady, scanning,
                 replyDue, told, stopSent, silent, cut, brokenOff, events>>

\* A tablet is unplugged.  During a scan this shows as requests left unanswered.
Unplug(p) ==
  /\ Flaky
  /\ pc = "loop"
  /\ plugged[p] # NoTablet
  /\ plugged' = [plugged EXCEPT ![p] = NoTablet]
  /\ UNCHANGED <<arguments, pc, looping, quitProcessor, tabletOn, port, stylusReady,
                 scanning, replyDue, told, history, events>>

-----------------------------------------------------------------------------
Daemon ==
  \/ Start
  \/ \E p \in Ports : OpenNext(p)
  \/ InitializeTablet
  \/ Exhausted
  \/ IteratorDies
  \/ Report
  \/ RunEventLoop
  \/ TimerStops
  \/ TimerReads

Environment ==
  \/ HandleQuit \/ HandlePort \/ HandleTabletPC \/ HandleReinit \/ HandleAsk
  \/ \E on \in BOOLEAN : HandleProcessing(on)
  \/ Wake
  \/ Signal
  \/ \E p \in Ports : Unplug(p)

Next == Daemon \/ Environment

Spec == Init /\ [][Next]_vars

\* The constructor returns and the timer keeps firing.
FairSpec == Spec /\ WF_vars(Daemon)

-----------------------------------------------------------------------------
FlagsOK ==
  /\ command \in BOOLEAN /\ testMode \in BOOLEAN
  /\ startOff \in BOOLEAN /\ forcePC \in BOOLEAN
  /\ looping \in BOOLEAN /\ quitProcessor \in BOOLEAN /\ tabletOn \in BOOLEAN
  /\ stylusReady \in BOOLEAN /\ replyDue \in BOOLEAN
  /\ asked \in BOOLEAN /\ stopSent \in BOOLEAN /\ silent \in BOOLEAN
  /\ cut \in BOOLEAN /\ brokenOff \in BOOLEAN

RangesOK ==
  /\ plugged \in [Ports -> {NoTablet} \cup Tablet]
  /\ wanted \in SUBSET Ports
  /\ pc \in {"start", "scan", "scanned", "built", "loop", "ended", "failed"}
  /\ fd \in Ports \cup {NoPort} /\ path \in Ports \cup {NoPort}
  /\ speed \in Speed /\ firstSpeed \in Speed
  /\ series \in Kind \cup {"Unknown"}
  /\ left \in SUBSET Ports /\ attempt \in 1..5
  /\ told \in {"nothing", "hello", "ready", "none"}
  /\ events \in 0..MaxEvents

TypeOK == FlagsOK /\ RangesOK

\* Whenever a port is open in the run loop the stylus has been initialised, so
\* the timer never feeds packets to a stylus that holds what the allocator left;
\* unless a reinit opened the path that a scan which was broken off left behind.
StylusReadyWhenActive == pc = "loop" /\ fd # NoPort => stylusReady \/ brokenOff

\* What the pane was told last is so: after [ready] the port is open, unless a
\* reinit failed to open it again; without [ready] none is, unless a reinit
\* opened the path that a scan which was broken off left behind.
PaneToldTruth ==
  pc = "loop" /\ command =>
    /\ told = "ready" /\ fd = NoPort => cut
    /\ told # "ready" /\ fd # NoPort => brokenOff

\* The daemon stops only when asked to, and fails only for want of a tablet
\* when no pane listens.
EndsForAReason ==
  /\ pc = "ended" => asked
  /\ pc = "failed" => ~command /\ fd = NoPort

\* Every scan comes to an end, whatever the tablets leave unanswered.
ScanEnds == (pc = "scan") ~> (pc \notin {"scan", "scanned"})

\* "This intercepts signals and shuts down cleanly": a daemon asked to quit
\* does so.  RunEventLoop and every settings reply forget the request.
QuitsWhenAsked == asked ~> (pc \in {"ended", "failed"})

\* "If the tablet fails to respond, consider the tablet inactive", and only then.
InactiveOnlyIfSilent == ~startOff /\ ~stopSent /\ ~silent => tabletOn

=============================================================================
