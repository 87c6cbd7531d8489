------------------------------- MODULE PaneLink -------------------------------
(***************************************************************************)
(* What the preference pane and the daemon know of each other.             *)
(*                                                                         *)
(* The daemon cannot send to the pane: it puts messages in a queue and the *)
(* pane fetches them with "next", five times a second while it is          *)
(* selected.  The pane's requests are calls with a time limit; the daemon  *)
(* answers none while it scans the serial ports, and what it answers after *)
(* the limit is lost.  The daemon comes and goes on its own, and the pane  *)
(* notices that it has gone by counting pings without a port.              *)
(*                                                                         *)
(* launchd and the message ports are external.                             *)
(***************************************************************************)
EXTENDS Integers, Sequences

CONSTANTS
  FailMax,     \* failMax
  MaxLate,     \* bound: the calls that reach their time limit in one scan of the
               \* ports; 0 if a scan is shorter than that
  Reselects,   \* TRUE if the user may leave the pane and come back
  MayDie,      \* TRUE if the daemon may end
  MaxScans,    \* bound: the scans of the ports the daemon begins
  MaxClicks    \* bound: what the user does in the pane

ASSUME PaneLinkAssumption ==
  /\ FailMax \in Nat
  /\ {Reselects, MayDie} \subseteq BOOLEAN
  /\ {MaxLate, MaxScans, MaxClicks} \subseteq Nat

\* The messages the daemon queues; an [info] says whether the tablet is on.
Info(on) == IF on THEN "info active" ELSE "info inactive"
Queued   == {"hello", "ready", "none", "info active", "info inactive"}
Calls    == {"next", "?model", "?info", "hello", "bye", "start", "stop", "?bank", "command"}
AskTablet == {"?bank", "command"}   \* those the tablet answers with its settings
Infos    == {"info active", "info inactive"}

VARIABLES
  \* the daemon
  up,            \* whether the daemon is running, with its message port
  busy,          \* whether it is scanning the serial ports
  found,         \* whether it has a tablet
  tabletOn,      \* tablet_on
  queue,         \* outgoing_message_queue
  queueEnabled,  \* messageQueueEnabled
  repliesDue,    \* the calls for which the tablet owes it its settings
  inbox,         \* the calls that timed out in the pane before it handled them
  scans,
  \* the pane
  opened,        \* whether mainViewDidLoad has run
  isLoaded,      \* isLoaded: what isDaemonLoaded last found
  selected,      \* whether the pane is selected and its ping timer running
  todo,          \* the calls it is about to make
  shows,         \* what it says of the tablet
  check,         \* checkEnabled
  ignoreNextInfo, \* ignore_next_info
  daemonIsGone,
  failCount,
  clicks,
  \* history
  slips          \* what went wrong since the daemon started: a queued message
                 \* flushed, an answer that came too late, a click that
                 \* crossed an [info] on its way, a command of the Testing tab
                 \* whose settings did not come

daemon == <<up, busy, found, tabletOn, queueEnabled, repliesDue, scans>>
view   == <<shows, check, ignoreNextInfo>>
pings  == <<daemonIsGone, failCount>>
pane   == <<opened, isLoaded, selected, todo, view, pings, clicks>>
vars   == <<daemon, queue, inbox, pane, slips>>

Init ==
  /\ up \in BOOLEAN
  /\ busy = up
  /\ found = FALSE
  /\ tabletOn \in BOOLEAN
  /\ queueEnabled = TRUE
  /\ repliesDue = {}
  /\ queue = IF up THEN <<"hello">> ELSE <<>>
  /\ inbox = <<>>
  /\ scans = 0
  /\ opened = FALSE
  /\ isLoaded = FALSE
  /\ selected = FALSE
  /\ todo = <<>>
  /\ shows = "not loaded"
  /\ check \in {"mixed", "off"}
  /\ ignoreNextInfo = FALSE
  /\ daemonIsGone = TRUE
  /\ failCount = FailMax
  /\ clicks = 0
  /\ slips = {}

-----------------------------------------------------------------------------
(***************************************************************************)
(* The daemon.                                                             *)
(***************************************************************************)

\* AddMessageToQueue
AddToQueue(message) == queue' = Append(queue, message)

DaemonStarts ==
  /\ ~up
  /\ scans < MaxScans
  /\ scans' = scans + 1
  /\ up' = TRUE /\ busy' = TRUE
  /\ found' = FALSE
  /\ tabletOn' \in BOOLEAN
  /\ queueEnabled' = TRUE
  /\ AddToQueue("hello")
  /\ slips' = IF ignoreNextInfo THEN {"unanswered"} ELSE {}
  /\ UNCHANGED <<repliesDue, inbox, pane>>

\* A settings reply during the scan (bound: none that says the same twice).
ScanReply ==
  /\ busy
  /\ ~(queue # <<>> /\ queue[Len(queue)] = Info(tabletOn))
  /\ AddToQueue(Info(tabletOn))
  /\ UNCHANGED <<daemon, inbox, pane, slips>>

\* InitializeForPort ends; a tablet that gave no settings is made inactive.
ScanEnds ==
  /\ busy
  /\ busy' = FALSE
  /\ found' \in BOOLEAN
  /\ tabletOn' \in {tabletOn, FALSE}
  /\ AddToQueue(IF found' THEN "ready" ELSE "none")
  /\ UNCHANGED <<up, queueEnabled, repliesDue, scans, inbox, pane, slips>>

\* The machine wakes up and the daemon looks for its tablet again.
Wakes ==
  /\ up /\ ~busy /\ found
  /\ scans < MaxScans
  /\ scans' = scans + 1
  /\ busy' = TRUE
  /\ UNCHANGED <<up, found, tabletOn, queue, queueEnabled, repliesDue, inbox, pane, slips>>

\* The tablet does not answer, or its answer is lost or read during a scan.
ReplyLost ==
  /\ up
  /\ \E call \in repliesDue :
       /\ repliesDue' = repliesDue \ {call}
       /\ slips' = IF call = "command" THEN slips \cup {"unanswered"} ELSE slips
  /\ UNCHANGED <<up, busy, found, tabletOn, queueEnabled, scans, queue, inbox, pane>>

\* The timer reads the reply to a request for settings.
SettingsReply ==
  /\ up /\ ~busy
  /\ \E call \in repliesDue : repliesDue' = repliesDue \ {call}
  /\ AddToQueue(Info(tabletOn))
  /\ UNCHANGED <<up, busy, found, tabletOn, queueEnabled, scans, inbox, pane, slips>>

DaemonEnds ==
  /\ MayDie /\ up
  /\ up' = FALSE /\ busy' = FALSE /\ found' = FALSE
  /\ queue' = <<>> /\ inbox' = <<>>
  /\ repliesDue' = {}
  /\ UNCHANGED <<tabletOn, queueEnabled, scans, pane, slips>>

\* Faulty: the message read is not removed.
MutQueueAfter(call) == IF call \in {"hello", "bye"} THEN <<>> ELSE queue

\* PopMessageQueue and FlushMessageQueue
QueueAfter(call) ==
  CASE call = "next" /\ queue # <<>> -> Tail(queue)
    [] call \in {"hello", "bye"}     -> <<>>
    [] OTHER                         -> queue

\* HandleMessage for one call.
Handle(call) ==
  /\ queue' = QueueAfter(call)
  /\ queueEnabled' = IF call \in {"hello", "bye"} THEN call = "hello" ELSE queueEnabled
  /\ tabletOn' = IF call \in {"start", "stop"} THEN call = "start" ELSE tabletOn
  /\ repliesDue' = repliesDue \cup IF found THEN {call} \cap AskTablet ELSE {}
  /\ UNCHANGED <<up, busy, found, scans>>

\* The messages "hello" and "bye" discard, [hello] itself apart.
Flushed(call) ==
  IF call \in {"hello", "bye"} /\ \E i \in DOMAIN queue : queue[i] # "hello"
  THEN {"flushed"} ELSE {}

\* A command of the Testing tab that no tablet is there to answer.
Unanswered(call) == IF call = "command" /\ ~found THEN {"unanswered"} ELSE {}

\* What the daemon answers.
Reply(call) ==
  CASE call = "next"   -> IF queue = <<>> THEN "" ELSE Head(queue)
    [] call = "?info"  -> Info(tabletOn)
    [] call = "?model" -> IF found THEN "model" ELSE "none"
    [] OTHER           -> "ok"

\* A call that was given up is handled, and its answer goes nowhere.
HandleLate ==
  /\ up /\ ~busy /\ inbox # <<>>
  /\ LET call == Head(inbox)
     IN  /\ Handle(call)
         /\ slips' = slips \cup Flushed(call) \cup Unanswered(call)
                     \cup IF Reply(call) \in Queued THEN {"late"} ELSE {}
  /\ inbox' = Tail(inbox)
  /\ UNCHANGED pane

-----------------------------------------------------------------------------
(***************************************************************************)
(* The pane.                                                               *)
(***************************************************************************)

\* An [info] that the pane takes for the reply to a command of the Testing tab.
Ignored(message) == ignoreNextInfo /\ message \in Infos

\* handleDaemonMessage, before the calls it makes.
Show(message) ==
  /\ ignoreNextInfo' = (ignoreNextInfo /\ message \notin Infos)
  /\ IF Ignored(message)
     THEN UNCHANGED <<shows, check>>
     ELSE /\ shows' = CASE message = "hello"  -> "looking"
                        [] message = "none"   -> "no tablet"
                        [] message = "bye"    -> "not loaded"
                        [] message \in Infos -> "tablet"
                        [] OTHER              -> shows
          /\ check' = CASE message = "info active"   -> "on"
                        [] message = "info inactive" -> "off"
                        [] message = "bye"           -> IF check = "off" THEN "off" ELSE "mixed"
                        [] OTHER                     -> check

\* Faulty: the tablet's settings are not asked for.
MutFollow(message) == IF message = "ready" THEN <<"?model">> ELSE <<>>

\* Faulty: an answer makes the pane ask again.
MutFollowAgain(message) ==
  CASE message = "ready" -> <<"?model", "?info">>
    [] message \in Infos -> <<"?info">>
    [] OTHER             -> <<>>

\* The calls it makes: on [ready] it asks for everything.
Follow(message) == IF message = "ready" THEN <<"?model", "?info">> ELSE <<>>

\* The next call of the pane: answered, given up after its time limit, or not
\* made for want of a port.
Answered ==
  /\ up /\ ~busy /\ inbox = <<>> /\ todo # <<>>
  /\ LET call   == Head(todo)
         answer == Reply(call)
     IN  /\ Handle(call)
         /\ slips' = slips \cup Flushed(call) \cup Unanswered(call)
         /\ IF call \in {"next", "?model", "?info"}
            THEN Show(answer) /\ todo' = Follow(answer) \o Tail(todo)
            ELSE UNCHANGED view /\ todo' = Tail(todo)
  /\ UNCHANGED <<inbox, opened, isLoaded, selected, pings, clicks>>

GivenUp ==
  /\ up /\ busy /\ todo # <<>>
  /\ Len(inbox) < MaxLate
  /\ inbox' = Append(inbox, Head(todo))
  /\ todo' = Tail(todo)
  /\ UNCHANGED <<daemon, queue, opened, isLoaded, selected, view, pings, clicks, slips>>

NoPort ==
  /\ ~up /\ todo # <<>>
  /\ todo' = Tail(todo)
  /\ UNCHANGED <<daemon, queue, inbox, opened, isLoaded, selected, view, pings, clicks, slips>>

\* mainViewDidLoad and the paneDidSelect that follows it.
Open ==
  /\ ~opened
  /\ opened' = TRUE
  /\ selected' = TRUE
  /\ isLoaded' = up
  /\ todo' = IF up THEN <<"?model", "?info", "hello">> ELSE <<>>
  /\ shows' = IF up THEN "no tablet" ELSE "not loaded"
  /\ UNCHANGED <<daemon, queue, inbox, check, ignoreNextInfo, pings, clicks, slips>>

\* paneDidSelect
DidSelect ==
  /\ Reselects /\ opened /\ ~selected /\ todo = <<>>
  /\ selected' = TRUE
  /\ todo' = IF isLoaded THEN <<"hello">> ELSE <<>>
  /\ UNCHANGED <<daemon, queue, inbox, opened, isLoaded, view, pings, clicks, slips>>

\* paneWillUnselect
WillUnselect ==
  /\ Reselects /\ selected /\ todo = <<>>
  /\ selected' = FALSE
  /\ todo' = <<"bye">>
  /\ UNCHANGED <<daemon, queue, inbox, opened, isLoaded, view, pings, clicks, slips>>

\* Faulty: each failure starts the count again.
MutMissedRestarts ==
  /\ ~daemonIsGone
  /\ failCount' = FailMax
  /\ daemonIsGone' = (failCount <= 0)
  /\ IF failCount <= 0 THEN Show("bye") ELSE UNCHANGED view

\* A ping finds no port: after failMax of them the pane relays [bye].
Missed ==
  /\ ~daemonIsGone
  /\ failCount' = failCount - 1
  /\ daemonIsGone' = (failCount <= 0)
  /\ IF failCount <= 0 THEN Show("bye") ELSE UNCHANGED view

\* doPingTimer
Ping ==
  /\ selected /\ todo = <<>>
  /\ IF up
     THEN /\ daemonIsGone' = FALSE
          /\ failCount' = IF daemonIsGone THEN FailMax ELSE failCount
          /\ todo' = <<"next">>
          /\ UNCHANGED view
     ELSE /\ Missed
          /\ UNCHANGED todo
  /\ UNCHANGED <<daemon, queue, inbox, opened, isLoaded, selected, clicks, slips>>

\* Nothing is on its way from the daemon.
NothingDue == ~busy /\ repliesDue = {} /\ queue = <<>> /\ inbox = <<>>

UserActs ==
  /\ selected /\ todo = <<>>
  /\ clicks < MaxClicks
  /\ clicks' = clicks + 1
  /\ UNCHANGED <<daemon, queue, inbox, opened, selected, shows, pings>>

\* toggledDaemon; it starts a daemon where there is none, which may fail.
Enable ==
  /\ check # "on"
  /\ isLoaded' = up
  /\ \/ check' = "on" /\ todo' = <<"start">>
     \/ ~up /\ check' = "mixed" /\ todo' = <<>>

Disable ==
  /\ check # "off"
  /\ check' = "off"
  /\ todo' = <<"stop">>
  /\ UNCHANGED isLoaded

ToggledDaemon ==
  /\ UserActs
  /\ Enable \/ Disable
  /\ slips' = IF NothingDue THEN slips ELSE slips \cup {"raced"}
  /\ UNCHANGED ignoreNextInfo

\* requestCurrentSettings
RequestCurrentSettings ==
  /\ shows = "tablet"
  /\ UserActs
  /\ todo' = <<"?bank">>
  /\ UNCHANGED <<check, ignoreNextInfo, isLoaded, slips>>

\* sendSelectedCommand, for a command that reads the settings and one that does
\* not; the latter may be followed by requestCurrentSettings.
SendReadCommand ==
  /\ shows = "tablet"
  /\ UserActs
  /\ ignoreNextInfo' = TRUE
  /\ todo' = <<"command">>
  /\ slips' = IF NothingDue THEN slips ELSE slips \cup {"raced"}
  /\ UNCHANGED <<check, isLoaded>>

SendOtherCommand ==
  /\ shows = "tablet"
  /\ UserActs
  /\ ignoreNextInfo' = FALSE
  /\ todo' \in {<<>>, <<"?bank">>}
  /\ UNCHANGED <<check, isLoaded, slips>>

-----------------------------------------------------------------------------
Next ==
  \/ DaemonStarts \/ ScanReply \/ ScanEnds \/ Wakes \/ SettingsReply \/ ReplyLost \/ DaemonEnds
  \/ HandleLate
  \/ Answered \/ GivenUp \/ NoPort
  \/ Open \/ DidSelect \/ WillUnselect \/ Ping
  \/ ToggledDaemon \/ RequestCurrentSettings \/ SendReadCommand \/ SendOtherCommand

Spec == Init /\ [][Next]_vars

\* The daemon ends its scans, reads the port and handles calls; the pane goes
\* on with its calls and pings.
FairSpec ==
  /\ Spec
  /\ WF_vars(ScanEnds) /\ WF_vars(SettingsReply) /\ WF_vars(HandleLate)
  /\ WF_vars(Answered \/ GivenUp \/ NoPort) /\ WF_vars(Ping)

-----------------------------------------------------------------------------
FlagsOK ==
  /\ up \in BOOLEAN /\ busy \in BOOLEAN /\ found \in BOOLEAN
  /\ tabletOn \in BOOLEAN /\ queueEnabled \in BOOLEAN
  /\ opened \in BOOLEAN /\ isLoaded \in BOOLEAN /\ selected \in BOOLEAN
  /\ daemonIsGone \in BOOLEAN /\ ignoreNextInfo \in BOOLEAN

RangesOK ==
  /\ repliesDue \subseteq AskTablet
  /\ queue \in Seq(Queued)
  /\ inbox \in Seq(Calls) /\ todo \in Seq(Calls)
  /\ shows \in {"not loaded", "looking", "no tablet", "tablet"}
  /\ check \in {"on", "mixed", "off"}
  /\ failCount \in -1..FailMax
  /\ clicks \in 0..MaxClicks /\ scans \in 0..MaxScans
  /\ slips \subseteq {"flushed", "late", "raced", "unanswered"}

\* Every variable of the two stays within its range.
TypeOK == FlagsOK /\ RangesOK

\* Once nothing is on its way, the Enabled checkbox beside a tablet says
\* whether the daemon passes the tablet's events on, through deaths, restarts
\* and wakes of the daemon and the [info] the pane ignores after a command of
\* the Testing tab: unless a flush, a late answer, a click that crossed an
\* [info], or a Testing command whose own [info] never came was between
\* (toggledDaemon, sendSelectedCommand, handleDaemonMessage).
CheckboxAgrees ==
  up /\ selected /\ todo = <<>> /\ NothingDue /\ shows = "tablet" /\ slips = {}
    => ((check = "on") <=> tabletOn)

\* What the daemon has to say gets through: a message it queued does not wait
\* while the pane is selected (doPingTimer, PopMessageQueue).
QueueDrains == (queue # <<>> /\ selected) ~> (queue = <<>> \/ ~selected)

\* The pane comes back from its calls, whatever the answers make it ask for.
CallsEnd == (todo # <<>>) ~> (todo = <<>>)

\* A daemon that has gone for good is noticed while the pane is selected, if a
\* ping had ever reached it (doPingTimer).
GoneIsNoticed ==
  (~up /\ ~daemonIsGone /\ selected) ~> (shows = "not loaded" \/ up \/ ~selected)

=============================================================================
