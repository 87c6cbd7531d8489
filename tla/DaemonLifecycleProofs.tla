------------------------ MODULE DaemonLifecycleProofs ------------------------
(***************************************************************************)
(* Proofs about DaemonLifecycle, for every set of ports, tablets, command  *)
(* lines and messages, any number of tries and of events: the types, what  *)
(* the pane is told, the stylus being initialised before packets are read, *)
(* and the reasons for which the daemon ends.                              *)
(***************************************************************************)
EXTENDS DaemonLifecycle, TLAPS

\* The models to try are two, or four, at speeds the daemon knows.
LEMMA ModelsToTryFacts ==
  ASSUME firstSpeed \in Speed
  PROVE  /\ Len(ModelsToTry) \in 2..4
         /\ \A i \in 1..Len(ModelsToTry) :
              /\ ModelsToTry[i][1] \in {"TabletPC", "Unknown"}
              /\ ModelsToTry[i][2] \in Speed
<1>1. Other(firstSpeed) \in Speed
  BY DEF Other, Speed
<1>2. CASE Hackintosh
  BY <1>1, <1>2 DEF ModelsToTry, Speed
<1>3. CASE ~Hackintosh
  BY <1>1, <1>3 DEF ModelsToTry, Speed
<1> QED
  BY <1>2, <1>3

\* A tablet on a port is of a kind the daemon knows.
LEMMA TabletKind ==
  ASSUME TypeOK, NEW p \in Ports, plugged[p] # NoTablet
  PROVE  plugged[p].kind \in Kind
<1>1. plugged[p] \in Tablet
  BY DEF TypeOK, RangesOK
<1> QED
  BY <1>1, LifecycleAssumption DEF Tablet

(***************************************************************************)
(* The inductive invariant.  While a port is tried it is the one the path  *)
(* names and a model is left to try; when the scan is over the path names  *)
(* the port that is open, unless the scan was broken off; from then on a   *)
(* path stands for a port whose tablet has a stylus and of which the pane  *)
(* has been told [ready], or for a port that such a scan left behind, and  *)
(* only a reinit that failed leaves no port open after [ready].            *)
(***************************************************************************)
Trying ==
  pc = "scan" /\ fd # NoPort => fd = path /\ attempt <= Len(ModelsToTry)

Scanned == pc = "scanned" => fd = path \/ (fd = NoPort /\ brokenOff)

Settled ==
  pc \in {"built", "loop"} =>
    /\ fd # NoPort => fd = path
    /\ path # NoPort => stylusReady \/ brokenOff
    /\ command /\ path # NoPort => told = "ready" \/ brokenOff
    /\ command /\ told = "ready" /\ fd = NoPort => cut

Reasons ==
  /\ testMode => asked
  /\ quitProcessor => asked
  /\ pc = "ended" => asked
  /\ pc = "failed" => ~command /\ fd = NoPort

Inv == TypeOK /\ Trying /\ Scanned /\ Settled /\ Reasons

\* The initial states.
LEMMA InitInv == Init => Inv
<1> SUFFICES ASSUME Init PROVE Inv
  OBVIOUS
<1>1. FlagsOK
  <2>1. command \in BOOLEAN /\ testMode \in BOOLEAN
    <3>1. command \in Commands /\ testMode \in TestModes
      BY DEF Init
    <3> QED
      BY <3>1, LifecycleAssumption
  <2>2. startOff \in BOOLEAN
    <3>1. startOff \in (IF testMode THEN {TRUE} ELSE IF command THEN BOOLEAN ELSE {FALSE})
      BY DEF Init
    <3> QED
      BY <3>1
  <2> QED
    BY <2>1, <2>2 DEF Init, FlagsOK
<1>2. RangesOK
  BY LifecycleAssumption DEF Init, RangesOK, Speed
<1> QED
  BY <1>1, <1>2 DEF Init, Inv, TypeOK, Trying, Scanned, Settled, Reasons

\* What a reinit may do to the flags.
LEMMA ReinitFacts ==
  ASSUME FlagsOK, HandleReinit
  PROVE  /\ quitProcessor' \in BOOLEAN /\ silent' \in BOOLEAN
         /\ quitProcessor' = quitProcessor \/ quitProcessor' = testMode
<1>1. CASE series # "TabletPC"
  <2>1. PICK k \in 1..Tries + 1 : GetUDSettingsOrFail(k, fd', speed')
    BY <1>1 DEF HandleReinit
  <2> QED
    BY <2>1 DEF FlagsOK, GetUDSettingsOrFail, Answered
<1>2. CASE series = "TabletPC"
  BY <1>2 DEF HandleReinit, FlagsOK
<1> QED
  BY <1>1, <1>2

\* A round of the scan, once and for all: either the model is given up, or the
\* tablet is found on the port that is open.
LEMMA RoundFacts ==
  ASSUME TypeOK, Trying, InitializeTablet
  PROVE  /\ speed' \in Speed /\ series' \in Kind \cup {"Unknown"}
         /\ quitProcessor' \in BOOLEAN /\ silent' \in BOOLEAN /\ tabletOn' \in BOOLEAN
         /\ quitProcessor' = quitProcessor \/ quitProcessor' = testMode
         /\ \/ pc' = "scanned" /\ fd' = fd /\ attempt' = attempt
            \/ /\ pc' = "scan" /\ attempt' = attempt + 1
               /\ fd' = IF attempt = Len(ModelsToTry) THEN NoPort ELSE fd
<1> DEFINE model == ModelsToTry[attempt][1]
           s     == ModelsToTry[attempt][2]
<1>1. /\ pc = "scan" /\ fd \in Ports
      /\ attempt \in 1..Len(ModelsToTry)
      /\ model \in {"TabletPC", "Unknown"} /\ s \in Speed
  <2>1. fd \in Ports /\ pc = "scan" /\ attempt \in 1..5 /\ attempt <= Len(ModelsToTry)
    BY DEF TypeOK, RangesOK, Trying, InitializeTablet
  <2>2. /\ Len(ModelsToTry) \in 2..4
        /\ \A i \in 1..Len(ModelsToTry) :
             /\ ModelsToTry[i][1] \in {"TabletPC", "Unknown"}
             /\ ModelsToTry[i][2] \in Speed
    BY ModelsToTryFacts DEF TypeOK, RangesOK
  <2> QED
    BY <2>1, <2>2
<1>2. speed' = s
  BY DEF InitializeTablet
<1>3. CASE /\ series' = IF model = "TabletPC" /\ ~forcePC THEN "TabletPC" ELSE series
           /\ UNCHANGED <<quitProcessor, silent, tabletOn>>
           /\ GiveUp
  BY <1>1, <1>2, <1>3 DEF TypeOK, FlagsOK, RangesOK, GiveUp, Kind
<1>4. CASE /\ Identified(model, s)
           /\ series' = IF model = "TabletPC" THEN "TabletPC" ELSE plugged[fd].kind
           /\ SetUpModel
           /\ \/ pc' = "scanned" /\ UNCHANGED <<fd, attempt>>
              \/ model # "TabletPC" /\ Flaky /\ GiveUp
  <2>1. series' \in Kind
    <3>1. model # "TabletPC" => plugged[fd] # NoTablet
      BY <1>4 DEF Identified, Answers
    <3> QED
      BY <1>1, <1>4, <3>1, TabletKind DEF Kind
  <2>2. /\ quitProcessor' \in BOOLEAN /\ silent' \in BOOLEAN /\ tabletOn' \in BOOLEAN
        /\ quitProcessor' = quitProcessor \/ quitProcessor' = testMode
    <3>1. CASE series' = "UD"
      <4>1. PICK k \in 1..Tries + 1 :
              /\ GetUDSettingsOrFail(k, fd, speed')
              /\ tabletOn' = IF ~GotSettings(k) /\ command THEN FALSE ELSE tabletOn
        BY <1>4, <3>1 DEF SetUpModel
      <4>2. tabletOn' \in BOOLEAN
        BY <4>1 DEF TypeOK, FlagsOK
      <4> QED
        BY <4>1, <4>2 DEF TypeOK, FlagsOK, GetUDSettingsOrFail, Answered
    <3>2. CASE series' # "UD"
      BY <1>4, <3>2 DEF SetUpModel, TypeOK, FlagsOK
    <3> QED
      BY <3>1, <3>2
  <2> QED
    BY <1>1, <1>2, <1>4, <2>1, <2>2 DEF GiveUp
<1> QED
  BY <1>3, <1>4 DEF InitializeTablet

\* Every action keeps the types of the flags.
LEMMA NextFlags == Inv /\ [Next]_vars => FlagsOK'
<1> SUFFICES ASSUME Inv, [Next]_vars PROVE FlagsOK'
  OBVIOUS
<1>1. CASE Start
  BY <1>1 DEF Inv, TypeOK, FlagsOK, Start, InitializeForPort, arguments, port, scanning,
       history
<1>2. CASE Exhausted
  BY <1>2 DEF Inv, TypeOK, FlagsOK, Exhausted, arguments, port, scanning, history
<1>3. CASE Report
  BY <1>3 DEF Inv, TypeOK, FlagsOK, Report, InitStylus, Announce, arguments, port,
       scanning, history
<1>4. CASE RunEventLoop
  BY <1>4 DEF Inv, TypeOK, FlagsOK, RunEventLoop, arguments, port, scanning, history
<1>5. CASE TimerStops
  BY <1>5 DEF Inv, TypeOK, FlagsOK, TimerStops, arguments, port, scanning, history
<1>6. CASE TimerReads
  BY <1>6 DEF Inv, TypeOK, FlagsOK, TimerReads, arguments, port, scanning, history
<1>7. CASE HandleQuit
  BY <1>7 DEF Inv, TypeOK, FlagsOK, HandleQuit, Message, Event, arguments, port,
       scanning, history
<1>8. CASE HandlePort
  BY <1>8 DEF Inv, TypeOK, FlagsOK, HandlePort, Message, Event, InitializeForPort,
       arguments, port, scanning, history
<1>9. CASE HandleTabletPC
  BY <1>9 DEF Inv, TypeOK, FlagsOK, HandleTabletPC, Message, Event, InitializeForPort,
       arguments, port, scanning, history
<1>10. CASE HandleAsk
  <2>1. replyDue' \in BOOLEAN
    <3>1. AnswersSettings(fd, speed) \in BOOLEAN
      BY DEF AnswersSettings
    <3> QED
      BY <1>10, <3>1 DEF Inv, TypeOK, FlagsOK, HandleAsk
  <2> QED
    BY <1>10, <2>1 DEF Inv, TypeOK, FlagsOK, HandleAsk, Message, Event, port, scanning,
         history
<1>11. CASE Wake
  BY <1>11 DEF Inv, TypeOK, FlagsOK, Wake, Event, InitializeForPort, arguments, port,
       scanning, history
<1>12. CASE Signal
  BY <1>12 DEF Inv, TypeOK, FlagsOK, Signal, arguments, port, scanning, history
<1>13. ASSUME NEW p \in Ports, OpenNext(p) PROVE  FlagsOK'
  BY <1>13 DEF Inv, TypeOK, FlagsOK, OpenNext, arguments, port,
       scanning, history
<1>14. ASSUME NEW on \in BOOLEAN, HandleProcessing(on)
       PROVE  FlagsOK'
  BY <1>14 DEF Inv, TypeOK, FlagsOK, HandleProcessing, Message, Event, arguments, port,
       scanning, history
<1>15. ASSUME NEW p \in Ports, Unplug(p) PROVE  FlagsOK'
  BY <1>15 DEF Inv, TypeOK, FlagsOK, Unplug, arguments, port,
       scanning, history
<1>16. CASE HandleReinit
  <2>1. quitProcessor' \in BOOLEAN /\ silent' \in BOOLEAN
    BY <1>16, ReinitFacts DEF Inv, TypeOK
  <2>2. cut' \in BOOLEAN
    BY <1>16 DEF HandleReinit
  <2> QED
    BY <1>16, <2>1, <2>2 DEF Inv, TypeOK, FlagsOK, HandleReinit, Message, Event
<1>17. CASE InitializeTablet
  <2>1. quitProcessor' \in BOOLEAN /\ silent' \in BOOLEAN /\ tabletOn' \in BOOLEAN
    BY <1>17, RoundFacts DEF Inv
  <2> QED
    BY <1>17, <2>1 DEF Inv, TypeOK, FlagsOK, InitializeTablet, arguments
<1>18. CASE UNCHANGED vars
  BY <1>18 DEF Inv, TypeOK, FlagsOK, vars, arguments, port, scanning, history
<1>19. CASE IteratorDies
  BY <1>19 DEF Inv, TypeOK, FlagsOK, IteratorDies,
       arguments, port, scanning, history
<1> QED
  BY <1>1, <1>2, <1>3, <1>4, <1>5, <1>6, <1>7, <1>8, <1>9, <1>10, <1>11, <1>12, <1>13,
       <1>14, <1>15, <1>16, <1>17, <1>18, <1>19 DEF Next, Daemon, Environment

\* Every action keeps the ranges of the other variables.
LEMMA NextRanges == Inv /\ [Next]_vars => RangesOK'
<1> SUFFICES ASSUME Inv, [Next]_vars PROVE RangesOK'
  OBVIOUS
<1>1. CASE Start
  BY <1>1, LifecycleAssumption DEF Inv, TypeOK, RangesOK, Start, InitializeForPort,
       arguments, port, scanning, history
<1>2. CASE Exhausted
  BY <1>2, LifecycleAssumption DEF Inv, TypeOK, RangesOK, Exhausted, arguments, port,
       scanning, history
<1>3. CASE Report
  BY <1>3, LifecycleAssumption DEF Inv, TypeOK, RangesOK, Speed, Report, InitStylus,
       Announce, arguments, port, history
<1>4. CASE RunEventLoop
  BY <1>4, LifecycleAssumption DEF Inv, TypeOK, RangesOK, RunEventLoop, arguments, port,
       scanning, history
<1>5. CASE TimerStops
  BY <1>5, LifecycleAssumption DEF Inv, TypeOK, RangesOK, TimerStops, arguments, port,
       scanning, history
<1>6. CASE TimerReads
  BY <1>6, LifecycleAssumption DEF Inv, TypeOK, RangesOK, TimerReads, arguments, port,
       scanning, history
<1>7. CASE HandleQuit
  BY <1>7, LifecycleAssumption DEF Inv, TypeOK, RangesOK, HandleQuit, Message, Event,
       arguments, port, scanning, history
<1>8. CASE HandlePort
  BY <1>8, LifecycleAssumption DEF Inv, TypeOK, RangesOK, HandlePort, Message, Event,
       InitializeForPort, arguments, port, scanning, history
<1>9. CASE HandleTabletPC
  BY <1>9, LifecycleAssumption DEF Inv, TypeOK, RangesOK, HandleTabletPC, Message,
       Event, InitializeForPort, arguments, port, scanning, history
<1>10. CASE HandleAsk
  BY <1>10, LifecycleAssumption DEF Inv, TypeOK, RangesOK, HandleAsk, Message, Event,
       arguments, port, scanning, history
<1>11. CASE Wake
  BY <1>11, LifecycleAssumption DEF Inv, TypeOK, RangesOK, Wake, Event,
       InitializeForPort, arguments, port, scanning, history
<1>12. CASE Signal
  BY <1>12, LifecycleAssumption DEF Inv, TypeOK, RangesOK, Signal, arguments, port,
       scanning, history
<1>13. ASSUME NEW p \in Ports, OpenNext(p) PROVE  RangesOK'
  BY <1>13 DEF Inv, TypeOK, RangesOK, OpenNext, arguments, port,
       scanning, history
<1>14. ASSUME NEW on \in BOOLEAN, HandleProcessing(on)
       PROVE  RangesOK'
  BY <1>14, LifecycleAssumption DEF Inv, TypeOK, RangesOK, HandleProcessing, Message,
       Event, arguments, port, scanning, history
<1>15. ASSUME NEW p \in Ports, Unplug(p) PROVE  RangesOK'
  BY <1>15 DEF Inv, TypeOK, RangesOK, Unplug, arguments, port,
       scanning, history
<1>16. CASE HandleReinit
  BY <1>16, LifecycleAssumption DEF Inv, TypeOK, RangesOK, HandleReinit, Message, Event,
       arguments, port, scanning, history
<1>17. CASE InitializeTablet
  <2>1. /\ speed' \in Speed /\ series' \in Kind \cup {"Unknown"}
        /\ fd' \in {fd, NoPort} /\ pc' \in {"scan", "scanned"}
    BY <1>17, RoundFacts DEF Inv
  <2>2. attempt' \in 1..5
    <3>1. attempt \in 1..5
      BY DEF Inv, TypeOK, RangesOK
    <3>2. attempt <= 4
      <4>1. PICK n \in 2..4 : n = Len(ModelsToTry)
        BY ModelsToTryFacts DEF Inv, TypeOK, RangesOK
      <4>2. attempt <= n
        BY <1>17, <4>1 DEF Inv, Trying, InitializeTablet
      <4> QED
        BY <3>1, <4>1, <4>2
    <3>3. attempt' = attempt \/ attempt' = attempt + 1
      BY <1>17, RoundFacts DEF Inv
    <3> QED
      BY <3>1, <3>2, <3>3
  <2>3. UNCHANGED <<plugged, wanted, path, left, firstSpeed, told, events>>
    BY <1>17 DEF InitializeTablet, arguments
  <2> QED
    BY <2>1, <2>2, <2>3 DEF Inv, TypeOK, RangesOK
<1>18. CASE UNCHANGED vars
  BY <1>18, LifecycleAssumption DEF Inv, TypeOK, RangesOK, vars, arguments, port,
       scanning, history
<1>19. CASE IteratorDies
  BY <1>19, LifecycleAssumption DEF Inv, TypeOK, RangesOK, IteratorDies,
       arguments, port, scanning, history
<1> QED
  BY <1>1, <1>2, <1>3, <1>4, <1>5, <1>6, <1>7, <1>8, <1>9, <1>10, <1>11, <1>12, <1>13,
       <1>14, <1>15, <1>16, <1>17, <1>18, <1>19 DEF Next, Daemon, Environment

\* Every action keeps what the path, the open port and the pane's knowledge say
\* of each other.
LEMMA NextPort == Inv /\ [Next]_vars => (Trying /\ Scanned /\ Settled)'
<1> SUFFICES ASSUME Inv, [Next]_vars PROVE (Trying /\ Scanned /\ Settled)'
  OBVIOUS
<1>1. CASE Start
  BY <1>1 DEF Inv, TypeOK, RangesOK, Trying, Scanned, Settled, Start, InitializeForPort,
       arguments, port, scanning, history
<1>2. CASE Exhausted
  BY <1>2 DEF Inv, TypeOK, RangesOK, Trying, Scanned, Settled, Exhausted, arguments,
       port, scanning, history
<1>3. CASE Report
  BY <1>3 DEF Inv, TypeOK, RangesOK, Trying, Scanned, Settled, Report, InitStylus,
       Announce, arguments, port, scanning, history
<1>4. CASE RunEventLoop
  BY <1>4 DEF Inv, TypeOK, RangesOK, Trying, Scanned, Settled, RunEventLoop, arguments,
       port, scanning, history
<1>5. CASE TimerStops
  BY <1>5 DEF Inv, TypeOK, RangesOK, Trying, Scanned, Settled, TimerStops, arguments,
       port, scanning, history
<1>6. CASE TimerReads
  BY <1>6 DEF Inv, TypeOK, RangesOK, Trying, Scanned, Settled, TimerReads, arguments,
       port, scanning, history
<1>7. CASE HandleQuit
  BY <1>7 DEF Inv, TypeOK, RangesOK, Trying, Scanned, Settled, HandleQuit, Message,
       Event, arguments, port, scanning, history
<1>8. CASE HandlePort
  BY <1>8 DEF Inv, TypeOK, RangesOK, Trying, Scanned, Settled, HandlePort, Message,
       Event, InitializeForPort, arguments, port, scanning, history
<1>9. CASE HandleTabletPC
  BY <1>9 DEF Inv, TypeOK, RangesOK, Trying, Scanned, Settled, HandleTabletPC, Message,
       Event, InitializeForPort, arguments, port, scanning, history
<1>10. CASE HandleAsk
  BY <1>10 DEF Inv, TypeOK, RangesOK, Trying, Scanned, Settled, HandleAsk, Message,
       Event, arguments, port, scanning, history
<1>11. CASE Wake
  BY <1>11 DEF Inv, TypeOK, RangesOK, Trying, Scanned, Settled, Wake, Event,
       InitializeForPort, arguments, port, scanning, history
<1>12. CASE Signal
  <2>1. ModelsToTry' = ModelsToTry
    BY <1>12 DEF ModelsToTry, Other, Signal, scanning
  <2> QED
    BY <1>12, <2>1 DEF Inv, Trying, Scanned, Settled, Signal, arguments, port, scanning,
         history
<1>13. ASSUME NEW p \in Ports, OpenNext(p) PROVE  (Trying /\ Scanned /\ Settled)'
  <2>1. ModelsToTry' = ModelsToTry
    BY <1>13 DEF ModelsToTry, Other, OpenNext
  <2>2. PICK models \in 2..4 : models = Len(ModelsToTry)
    BY ModelsToTryFacts DEF Inv, TypeOK, RangesOK
  <2>3. attempt' = 1 /\ fd' \in {path', NoPort} /\ pc' = "scan"
    BY <1>13 DEF OpenNext
  <2>4. fd' # NoPort => fd' = path'
    BY <2>3
  <2>5. Trying'
    BY <2>1, <2>2, <2>3, <2>4 DEF Trying
  <2> QED
    BY <2>3, <2>5 DEF Scanned, Settled
<1>14. ASSUME NEW on \in BOOLEAN, HandleProcessing(on)
       PROVE  (Trying /\ Scanned /\ Settled)'
  BY <1>14 DEF Inv, TypeOK, RangesOK, Trying, Scanned, Settled, HandleProcessing,
       Message, Event, arguments, port, scanning, history
<1>15. ASSUME NEW p \in Ports, Unplug(p) PROVE  (Trying /\ Scanned /\ Settled)'
  <2>1. ModelsToTry' = ModelsToTry
    BY <1>15 DEF ModelsToTry, Other, Unplug, scanning
  <2> QED
    BY <1>15, <2>1 DEF Inv, Trying, Scanned, Settled, Unplug, arguments, port, scanning,
         history
<1>16. CASE HandleReinit
  BY <1>16 DEF Inv, TypeOK, RangesOK, Trying, Scanned, Settled, HandleReinit, Message,
       Event, arguments, port, scanning, history
<1>17. CASE InitializeTablet
  <2>1. \/ pc' = "scanned" /\ fd' = fd
        \/ /\ pc' = "scan" /\ attempt' = attempt + 1
           /\ fd' = IF attempt = Len(ModelsToTry) THEN NoPort ELSE fd
    BY <1>17, RoundFacts DEF Inv
  <2>2. fd = path /\ attempt <= Len(ModelsToTry)
    BY <1>17 DEF Inv, Trying, InitializeTablet
  <2>3. path' = path /\ ModelsToTry' = ModelsToTry
    BY <1>17 DEF InitializeTablet, ModelsToTry, Other
  <2>4. attempt \in 1..5 /\ Len(ModelsToTry) \in 2..4
    BY ModelsToTryFacts DEF Inv, TypeOK, RangesOK
  <2> QED
    BY <2>1, <2>2, <2>3, <2>4 DEF Trying, Scanned, Settled
<1>18. CASE UNCHANGED vars
  <2>1. ModelsToTry' = ModelsToTry
    BY <1>18 DEF ModelsToTry, Other, vars, scanning
  <2> QED
    BY <1>18, <2>1 DEF Inv, Trying, Scanned, Settled, vars, arguments, port, scanning,
         history
<1>19. CASE IteratorDies
  BY <1>19 DEF Inv, TypeOK, RangesOK, Trying, Scanned, Settled, IteratorDies,
       arguments, port, scanning, history
<1> QED
  BY <1>1, <1>2, <1>3, <1>4, <1>5, <1>6, <1>7, <1>8, <1>9, <1>10, <1>11, <1>12, <1>13,
       <1>14, <1>15, <1>16, <1>17, <1>18, <1>19 DEF Next, Daemon, Environment

\* Every action keeps the reasons to quit.
LEMMA NextReasons == Inv /\ [Next]_vars => Reasons'
<1> SUFFICES ASSUME Inv, [Next]_vars PROVE Reasons'
  OBVIOUS
<1>1. CASE Start
  BY <1>1 DEF Inv, TypeOK, FlagsOK, Reasons, Start, InitializeForPort, arguments, port,
       scanning, history
<1>2. CASE Exhausted
  BY <1>2 DEF Inv, TypeOK, FlagsOK, Reasons, Exhausted, arguments, port, scanning,
       history
<1>3. CASE Report
  BY <1>3 DEF Inv, TypeOK, FlagsOK, Reasons, Report, InitStylus, Announce, arguments,
       port, scanning, history
<1>4. CASE RunEventLoop
  BY <1>4 DEF Inv, TypeOK, FlagsOK, Reasons, RunEventLoop, arguments, port, scanning,
       history
<1>5. CASE TimerStops
  BY <1>5 DEF Inv, TypeOK, FlagsOK, Reasons, TimerStops, arguments, port, scanning,
       history
<1>6. CASE TimerReads
  BY <1>6 DEF Inv, TypeOK, FlagsOK, Reasons, TimerReads, arguments, port, scanning,
       history
<1>7. CASE HandleQuit
  BY <1>7 DEF Inv, TypeOK, FlagsOK, Reasons, HandleQuit, Message, Event, arguments,
       port, scanning, history
<1>8. CASE HandlePort
  BY <1>8 DEF Inv, TypeOK, FlagsOK, Reasons, HandlePort, Message, Event,
       InitializeForPort, arguments, port, scanning, history
<1>9. CASE HandleTabletPC
  BY <1>9 DEF Inv, TypeOK, FlagsOK, Reasons, HandleTabletPC, Message, Event,
       InitializeForPort, arguments, port, scanning, history
<1>10. CASE HandleAsk
  BY <1>10 DEF Inv, TypeOK, FlagsOK, Reasons, HandleAsk, Message, Event, arguments,
       port, scanning, history
<1>11. CASE Wake
  BY <1>11 DEF Inv, TypeOK, FlagsOK, Reasons, Wake, Event, InitializeForPort, arguments,
       port, scanning, history
<1>12. CASE Signal
  BY <1>12 DEF Inv, TypeOK, FlagsOK, Reasons, Signal, arguments, port, scanning,
       history
<1>13. ASSUME NEW p \in Ports, OpenNext(p) PROVE  Reasons'
  BY <1>13 DEF Inv, TypeOK, FlagsOK, RangesOK, Reasons, OpenNext, arguments, port,
       scanning, history
<1>14. ASSUME NEW on \in BOOLEAN, HandleProcessing(on)
       PROVE  Reasons'
  BY <1>14 DEF Inv, TypeOK, FlagsOK, Reasons, HandleProcessing, Message, Event,
       arguments, port, scanning, history
<1>15. ASSUME NEW p \in Ports, Unplug(p) PROVE  Reasons'
  BY <1>15 DEF Inv, TypeOK, FlagsOK, RangesOK, Reasons, Unplug, arguments, port,
       scanning, history
<1>16. CASE HandleReinit
  <2>1. quitProcessor' = quitProcessor \/ quitProcessor' = testMode
    BY <1>16, ReinitFacts DEF Inv, TypeOK
  <2> QED
    BY <1>16, <2>1 DEF Inv, Reasons, HandleReinit, Message, Event
<1>17. CASE InitializeTablet
  <2>1. quitProcessor' = quitProcessor \/ quitProcessor' = testMode
    BY <1>17, RoundFacts DEF Inv
  <2>2. pc' \in {"scan", "scanned"}
    BY <1>17, RoundFacts DEF Inv
  <2> QED
    BY <1>17, <2>1, <2>2 DEF Inv, Reasons, InitializeTablet, arguments
<1>18. CASE UNCHANGED vars
  BY <1>18 DEF Inv, TypeOK, FlagsOK, Reasons, vars, arguments, port, scanning, history
<1>19. CASE IteratorDies
  BY <1>19 DEF Inv, TypeOK, FlagsOK, Reasons, IteratorDies,
       arguments, port, scanning, history
<1> QED
  BY <1>1, <1>2, <1>3, <1>4, <1>5, <1>6, <1>7, <1>8, <1>9, <1>10, <1>11, <1>12, <1>13,
       <1>14, <1>15, <1>16, <1>17, <1>18, <1>19 DEF Next, Daemon, Environment

\* The invariant holds in every reachable state.
THEOREM Invariant == Spec => []Inv
<1>1. Inv /\ [Next]_vars => Inv'
  BY NextFlags, NextRanges, NextPort, NextReasons DEF Inv, TypeOK
<1> QED
  BY <1>1, InitInv, PTL DEF Spec

\* Every variable keeps its type.
THEOREM TypeCorrect == Spec => []TypeOK
<1>1. Inv => TypeOK
  BY DEF Inv
<1> QED
  BY <1>1, Invariant, PTL

\* The timer never feeds packets to a stylus that was not initialised, unless a
\* scan was broken off and a reinit opened the port whose path it left.
THEOREM StylusReadyWhenActiveHolds == Spec => []StylusReadyWhenActive
<1>1. Inv => StylusReadyWhenActive
  BY DEF Inv, Settled, StylusReadyWhenActive
<1> QED
  BY <1>1, Invariant, PTL

\* The pane is told the truth about the tablet after every scan, first or not,
\* and only a reinit makes it untrue: one that fails after [ready], or one that
\* opens what a scan that was broken off left behind.
THEOREM PaneToldTruthHolds == Spec => []PaneToldTruth
<1>1. Inv => PaneToldTruth
  BY DEF Inv, Settled, PaneToldTruth
<1> QED
  BY <1>1, Invariant, PTL

\* The daemon ends only when asked to, or for want of a tablet and a pane.
THEOREM EndsForAReasonHolds == Spec => []EndsForAReason
<1>1. Inv => EndsForAReason
  BY DEF Inv, Reasons, EndsForAReason
<1> QED
  BY <1>1, Invariant, PTL
=============================================================================
