---------------------------- MODULE PaneLinkProofs ----------------------------
(***************************************************************************)
(* Proofs about PaneLink, for any limits on failures, late calls, scans    *)
(* and clicks.                                                             *)
(*                                                                         *)
(* The Enabled checkbox is right in the end because of what is on its way: *)
(* every scan ends with a message that makes the pane ask again, and the   *)
(* last message of the queue is always one that puts the checkbox right.   *)
(* An [info] that the pane ignores takes nothing away, since while it is   *)
(* ignoring nothing has changed of which a message will not tell it, or    *)
(* the tablet still owes the settings that the Testing tab asked for.      *)
(***************************************************************************)
EXTENDS PaneLink, SequenceTheorems, TLAPS

(***************************************************************************)
(* The inductive invariant.                                                *)
(***************************************************************************)
\* The calls that the pane can have before it.
Asking == {<<"?model", "?info", "hello">>, <<"?info", "hello">>,
           <<"?model", "?info">>, <<"?info">>}
Todos  == Asking \cup {<<>>, <<"next">>, <<"hello">>, <<"bye">>, <<"start">>, <<"stop">>,
                      <<"?bank">>, <<"command">>}

\* A click on the checkbox that the daemon has not handled.
Clicked == {"start", "stop"}
Clicks  == {<<"start">>, <<"stop">>}

\* A daemon that is not running owes nothing, and a pane that was not opened asks
\* nothing.
Idle ==
  /\ ~up => queue = <<>> /\ inbox = <<>> /\ repliesDue = {} /\ ~busy
  /\ ~opened => todo = <<>> /\ ~selected
  /\ todo \in Todos

\* The pane stops counting below zero.
Counting == ~daemonIsGone => failCount \in 0..FailMax

\* No settings reply comes before a click is handled.
NoReplyAhead ==
  /\ todo \in Clicks => repliesDue = {} /\ \A i \in 1..Len(inbox) : inbox[i] \notin AskTablet
  /\ \A i \in 1..Len(inbox) : inbox[i] \in Clicked =>
       repliesDue = {} /\ \A j \in 1..i : inbox[j] \notin AskTablet

\* The last message makes the pane ask again, shows that there is no tablet, or
\* says what is so and no click will change.
LastIsTrue ==
  ~busy /\ queue # <<>> =>
    \/ queue[Len(queue)] \in {"ready", "none"}
    \/ /\ queue[Len(queue)] = Info(tabletOn)
       /\ todo \notin Clicks
       /\ \A i \in 1..Len(inbox) : inbox[i] \notin Clicked

\* What is handled late is handled before the message of the scan it waited for.
LateComesFirst == ~busy /\ inbox # <<>> => queue # <<>>

\* What the tablet will be when the click is handled.
Meant == IF todo \in Clicks THEN todo = <<"start">> ELSE tabletOn

Agrees == shows = "tablet" => ((check = "on") <=> Meant)

Has(q, S) == \E i \in 1..Len(q) : q[i] \in S

\* The settings that the Testing tab asked for have yet to reach the daemon.
Awaited == todo = <<"command">> \/ Has(inbox, {"command"}) \/ "command" \in repliesDue

\* The checkbox is right or will be put right.
Promised == busy \/ queue # <<>> \/ todo \in Asking \/ Agrees \/ Awaited

\* While the pane is to ignore an [info] one is on its way, no click is, and the
\* checkbox is right unless a scan ends with something to say.
Ignoring ==
  ignoreNextInfo =>
    /\ Awaited \/ Has(queue, Infos)
    /\ todo \notin Clicks
    /\ \A i \in 1..Len(inbox) : inbox[i] \notin Clicked
    /\ busy \/ todo \in Asking \/ Has(queue, {"ready", "none"}) \/ Agrees

OnItsWay == NoReplyAhead /\ LastIsTrue /\ LateComesFirst /\ Promised /\ Ignoring

Inv ==
  /\ TypeOK
  /\ Idle
  /\ Counting
  /\ up /\ slips = {} => OnItsWay

-----------------------------------------------------------------------------
(***************************************************************************)
(* Sequences and messages.                                                 *)
(***************************************************************************)
\* Short sequences.
LEMMA ShortFacts ==
  ASSUME NEW a, NEW b, NEW c
  PROVE  /\ <<a>> # <<>> /\ Head(<<a>>) = a /\ Tail(<<a>>) = <<>>
         /\ <<a, b>> # <<>> /\ Head(<<a, b>>) = a /\ Tail(<<a, b>>) = <<b>>
         /\ <<a, b, c>> # <<>> /\ Head(<<a, b, c>>) = a /\ Tail(<<a, b, c>>) = <<b, c>>
         /\ <<a>> # <<b, c>> /\ (<<a>> = <<b>> => a = b)
         /\ \A d : <<a>> # <<b, c, d>>
  OBVIOUS

\* The calls that are left after the next one.
LEMMA TodosFacts ==
  ASSUME NEW t \in Todos, t # <<>>
  PROVE  /\ Tail(t) \in Todos
         /\ Head(t) \in Calls
         /\ Tail(t) \notin Clicks
         /\ Head(t) \in {"start", "stop", "?bank", "next", "command"} => t = <<Head(t)>> /\ Tail(t) = <<>>
         /\ t \in Asking /\ Head(t) # "?info" => Tail(t) \in Asking
         /\ Head(t) \in {"?model", "?info"} <=> t \in Asking
         /\ t \notin Asking => Tail(t) = <<>>
         /\ t \in Clicks <=> Head(t) \in Clicked
<1>1. CASE t = <<"?model", "?info", "hello">>
  BY <1>1, ShortFacts DEF Todos, Asking, Clicks, Clicked, Calls
<1>2. CASE t = <<"?info", "hello">>
  BY <1>2, ShortFacts DEF Todos, Asking, Clicks, Clicked, Calls
<1>3. CASE t = <<"?model", "?info">>
  BY <1>3, ShortFacts DEF Todos, Asking, Clicks, Clicked, Calls
<1>4. CASE t \in {<<"?info">>, <<"next">>, <<"hello">>, <<"bye">>, <<"start">>, <<"stop">>,
                   <<"?bank">>, <<"command">>}
  <2>1. PICK c \in {"?info", "next", "hello", "bye", "start", "stop", "?bank", "command"} : t = <<c>>
    BY <1>4
  <2>2. Head(t) = c /\ Tail(t) = <<>>
    BY <2>1, ShortFacts
  <2>3. t \in Asking <=> c = "?info"
    BY <2>1, ShortFacts DEF Asking
  <2>4. t \in Clicks <=> c \in Clicked
    BY <2>1, ShortFacts DEF Clicks, Clicked
  <2>5. <<>> \notin Clicks
    BY DEF Clicks
  <2> QED
    BY <2>1, <2>2, <2>3, <2>4, <2>5 DEF Todos, Calls
<1> QED
  BY <1>1, <1>2, <1>3, <1>4 DEF Todos, Asking

LEMMA TodosCalls == Todos \subseteq Seq(Calls)
  BY DEF Todos, Asking, Calls

\* The last element after a removal from the front or an addition.
LEMMA LastFacts ==
  ASSUME NEW S, NEW s \in Seq(S)
  PROVE  /\ s # <<>> => /\ Tail(s) \in Seq(S)
                        /\ Head(s) \in S
                        /\ Tail(s) = <<>> => Head(s) = s[Len(s)]
                        /\ Tail(s) # <<>> => Tail(s)[Len(Tail(s))] = s[Len(s)]
                        /\ \A i \in 1..Len(Tail(s)) : Tail(s)[i] = s[i + 1] /\ i + 1 \in 1..Len(s)
                        /\ Head(s) = s[1] /\ 1 \in 1..Len(s) /\ Len(s) \in 1..Len(s)
                        /\ s[Len(s)] \in S
         /\ \A x \in S : /\ Append(s, x) \in Seq(S)
                         /\ Append(s, x) # <<>>
                         /\ Append(s, x)[Len(Append(s, x))] = x
                         /\ Len(Append(s, x)) = Len(s) + 1
                         /\ \A i \in 1..Len(s) : Append(s, x)[i] = s[i]
<1>1. ASSUME s # <<>>
      PROVE  /\ Tail(s) \in Seq(S)
             /\ Head(s) \in S
             /\ Tail(s) = <<>> => Head(s) = s[Len(s)]
             /\ Tail(s) # <<>> => Tail(s)[Len(Tail(s))] = s[Len(s)]
             /\ \A i \in 1..Len(Tail(s)) : Tail(s)[i] = s[i + 1] /\ i + 1 \in 1..Len(s)
             /\ Head(s) = s[1] /\ 1 \in 1..Len(s) /\ Len(s) \in 1..Len(s)
             /\ s[Len(s)] \in S
  <2>1. Tail(s) = <<>> => Len(s) = 1
    <3>1. Len(Tail(s)) = Len(s) - 1 /\ Len(s) \in Nat
      BY <1>1, HeadTailProperties, LenProperties
    <3>2. Len(<<>>) = 0
      OBVIOUS
    <3>3. Tail(s) = <<>> => Len(Tail(s)) = 0
      BY <3>2, Zenon
    <3> QED
      BY <3>1, <3>3, SMT
  <2> QED
    BY <1>1, <2>1
<1>2. ASSUME NEW x \in S
      PROVE  /\ Append(s, x) \in Seq(S)
             /\ Append(s, x) # <<>>
             /\ Append(s, x)[Len(Append(s, x))] = x
             /\ Len(Append(s, x)) = Len(s) + 1
             /\ \A i \in 1..Len(s) : Append(s, x)[i] = s[i]
  BY <1>2
<1> QED
  BY <1>1, <1>2

\* What a sequence has after a removal from the front or an addition.
LEMMA HasFacts ==
  ASSUME NEW T, NEW q \in Seq(T), NEW S
  PROVE  /\ \A x \in T : Has(Append(q, x), S) <=> Has(q, S) \/ x \in S
         /\ q # <<>> => (Has(q, S) <=> Head(q) \in S \/ Has(Tail(q), S))
         /\ q = <<>> => ~Has(q, S)
<1>1. ASSUME NEW x \in T
      PROVE  Has(Append(q, x), S) <=> Has(q, S) \/ x \in S
  <2>1. /\ Len(Append(q, x)) = Len(q) + 1 /\ Len(q) \in Nat
        /\ \A i \in 1..Len(q) : Append(q, x)[i] = q[i]
        /\ Append(q, x)[Len(q) + 1] = x
    OBVIOUS
  <2>2. \A i \in 1..Len(q) + 1 : i \in 1..Len(q) \/ i = Len(q) + 1
    BY <2>1
  <2>3. Len(q) + 1 \in 1..Len(q) + 1 /\ \A i \in 1..Len(q) : i \in 1..Len(q) + 1
    BY <2>1
  <2> QED
    BY <2>1, <2>2, <2>3 DEF Has
<1>2. ASSUME q # <<>>
      PROVE  Has(q, S) <=> Head(q) \in S \/ Has(Tail(q), S)
  <2>1. /\ Len(Tail(q)) = Len(q) - 1 /\ Len(q) \in Nat /\ Len(q) >= 1
        /\ Head(q) = q[1]
        /\ \A i \in 1..Len(Tail(q)) : Tail(q)[i] = q[i + 1]
    BY <1>2
  <2>2. ASSUME NEW i \in 1..Len(q), q[i] \in S, i # 1
        PROVE  Has(Tail(q), S)
    <3>1. i - 1 \in 1..Len(Tail(q)) /\ (i - 1) + 1 = i
      BY <2>1, <2>2
    <3>2. Tail(q)[i - 1] = q[i]
      BY <2>1, <3>1
    <3> QED
      BY <2>2, <3>1, <3>2 DEF Has
  <2>3. ASSUME NEW i \in 1..Len(Tail(q)), Tail(q)[i] \in S
        PROVE  Has(q, S)
    <3>1. i + 1 \in 1..Len(q) /\ q[i + 1] = Tail(q)[i]
      BY <2>1
    <3> QED
      BY <2>3, <3>1 DEF Has
  <2>4. 1 \in 1..Len(q)
    BY <2>1
  <2> QED
    BY <2>1, <2>2, <2>3, <2>4 DEF Has
<1>3. q = <<>> => ~Has(q, S)
  <2>1. q = <<>> => Len(q) = 0
    OBVIOUS
  <2> QED
    BY <2>1 DEF Has
<1> QED
  BY <1>1, <1>2, <1>3

LEMMA ConstantFacts ==
  MaxScans \in Nat /\ MaxClicks \in Nat /\ MaxLate \in Nat /\ FailMax \in Nat
  BY PaneLinkAssumption

\* Another scan within the bound.
LEMMA ScansFacts ==
  ASSUME TypeOK, scans < MaxScans, scans' = scans + 1
  PROVE  scans' \in 0..MaxScans
<1>1. scans \in 0..MaxScans
  BY DEF TypeOK, RangesOK
<1> QED
  BY <1>1, ConstantFacts

LEMMA InfoFacts ==
  ASSUME NEW on \in BOOLEAN
  PROVE  /\ Info(on) \in {"info active", "info inactive"} /\ Info(on) \in Infos
         /\ Info(on) \in Queued
         /\ (Info(on) = "info active" <=> on)
  BY DEF Info, Infos, Queued

-----------------------------------------------------------------------------
(***************************************************************************)
(* The daemon's steps.                                                     *)
(***************************************************************************)
LEMMA DaemonStartsStep ==
  ASSUME Inv, DaemonStarts
  PROVE  Inv'
<1> USE DEF Inv, DaemonStarts, AddToQueue, pane, view, pings
<1>1. TypeOK'
  <2>1. "hello" \in Queued
    BY DEF Queued
  <2>2. FlagsOK'
    BY DEF TypeOK, FlagsOK
  <2>3. RangesOK'
    BY <2>1, LastFacts, ScansFacts DEF TypeOK, RangesOK
  <2> QED
    BY <2>2, <2>3 DEF TypeOK
<1>2. Idle' /\ Counting'
  BY DEF Idle, Counting
<1>3. ASSUME slips' = {}
      PROVE  OnItsWay'
  BY <1>3 DEF OnItsWay, NoReplyAhead, LastIsTrue, LateComesFirst, Promised, Ignoring, Idle
<1> QED
  BY <1>1, <1>2, <1>3

LEMMA ScanReplyStep ==
  ASSUME Inv, ScanReply
  PROVE  Inv'
<1> USE DEF Inv, ScanReply, AddToQueue, daemon, pane, view, pings
<1>1. TypeOK'
  <2>1. FlagsOK'
    BY DEF TypeOK, FlagsOK
  <2>2. Info(tabletOn) \in Queued
    BY InfoFacts DEF TypeOK, FlagsOK
  <2>3. RangesOK'
    BY <2>2, LastFacts DEF TypeOK, RangesOK
  <2> QED
    BY <2>1, <2>3 DEF TypeOK
<1>2. Idle' /\ Counting'
  BY DEF Idle, Counting
<1>3. ASSUME up', slips' = {}
      PROVE  OnItsWay'
  <2>1. NoReplyAhead' /\ LastIsTrue' /\ LateComesFirst' /\ Promised'
    BY <1>3 DEF OnItsWay, NoReplyAhead, LastIsTrue, LateComesFirst, Promised, Idle
  <2>2. Info(tabletOn) \in Queued /\ queue \in Seq(Queued)
    BY InfoFacts DEF TypeOK, FlagsOK, RangesOK
  <2>3. Has(queue, Infos) => Has(queue', Infos)
    BY <2>2, HasFacts
  <2>4. Ignoring'
    BY <1>3, <2>3 DEF OnItsWay, Ignoring, Awaited
  <2> QED
    BY <2>1, <2>4 DEF OnItsWay
<1> QED
  BY <1>1, <1>2, <1>3

LEMMA ScanEndsStep ==
  ASSUME Inv, ScanEnds
  PROVE  Inv'
<1> USE DEF Inv, ScanEnds, AddToQueue, pane, view, pings
<1> DEFINE message == IF found' THEN "ready" ELSE "none"
<1>1. message \in Queued /\ queue' = Append(queue, message) /\ queue \in Seq(Queued)
  BY DEF Queued, TypeOK, RangesOK
<1>2. /\ queue' \in Seq(Queued)
      /\ queue' # <<>>
      /\ queue'[Len(queue')] = message
  BY <1>1, LastFacts
<1>3. TypeOK'
  <2>1. FlagsOK'
    BY DEF TypeOK, FlagsOK
  <2>2. RangesOK'
    BY <1>2 DEF TypeOK, RangesOK
  <2> QED
    BY <2>1, <2>2 DEF TypeOK
<1>4. Idle' /\ Counting'
  BY DEF Idle, Counting
<1>5. ASSUME up', slips' = {}
      PROVE  OnItsWay'
  <2>1. NoReplyAhead' /\ LastIsTrue' /\ LateComesFirst' /\ Promised'
    BY <1>5, <1>2 DEF OnItsWay, NoReplyAhead, LastIsTrue, LateComesFirst, Promised, Idle
  <2>2. /\ Has(queue, Infos) => Has(queue', Infos)
        /\ Has(queue', {"ready", "none"})
    <3>1. message \in {"ready", "none"}
      OBVIOUS
    <3> HIDE DEF message, ScanEnds
    <3>2. Has(Append(queue, message), {"ready", "none"})
      BY <1>1, <3>1, HasFacts
    <3>3. Has(queue, Infos) => Has(Append(queue, message), Infos)
      BY <1>1, HasFacts
    <3> QED
      BY <1>1, <3>2, <3>3
  <2>3. Ignoring'
    BY <1>5, <2>2 DEF OnItsWay, Ignoring, Awaited
  <2> QED
    BY <2>1, <2>3 DEF OnItsWay
<1> QED
  BY <1>3, <1>4, <1>5

LEMMA WakesStep ==
  ASSUME Inv, Wakes
  PROVE  Inv'
<1> USE DEF Inv, Wakes, pane, view, pings
<1>1. TypeOK'
  <2>1. FlagsOK'
    BY DEF TypeOK, FlagsOK
  <2>2. RangesOK'
    BY ScansFacts DEF TypeOK, RangesOK
  <2> QED
    BY <2>1, <2>2 DEF TypeOK
<1>2. Idle' /\ Counting'
  BY DEF Idle, Counting
<1>3. ASSUME up', slips' = {}
      PROVE  OnItsWay'
  BY <1>3 DEF OnItsWay, NoReplyAhead, LastIsTrue, LateComesFirst, Promised, Ignoring, Awaited,
       Idle
<1> QED
  BY <1>1, <1>2, <1>3

LEMMA SettingsReplyStep ==
  ASSUME Inv, SettingsReply
  PROVE  Inv'
<1> USE DEF Inv, SettingsReply, AddToQueue, pane, view, pings
<1>1. Info(tabletOn) \in Queued /\ queue' = Append(queue, Info(tabletOn)) /\ queue \in Seq(Queued)
  BY InfoFacts DEF TypeOK, FlagsOK, RangesOK
<1>2. /\ queue' \in Seq(Queued)
      /\ queue' # <<>>
      /\ queue'[Len(queue')] = Info(tabletOn)
  BY <1>1, LastFacts
<1>3. TypeOK'
  <2>1. FlagsOK'
    BY DEF TypeOK, FlagsOK
  <2>2. RangesOK'
    BY <1>2 DEF TypeOK, RangesOK
  <2> QED
    BY <2>1, <2>2 DEF TypeOK
<1>4. Idle' /\ Counting'
  BY DEF Idle, Counting
<1>5. ASSUME up', slips' = {}
      PROVE  OnItsWay'
  <2>1. NoReplyAhead /\ repliesDue # {}
    BY <1>5 DEF OnItsWay
  <2>2. todo \notin Clicks /\ \A i \in 1..Len(inbox) : inbox[i] \notin Clicked
    BY <2>1 DEF NoReplyAhead
  <2>3. Info(tabletOn)' = Info(tabletOn)
    BY DEF Info
  <2>4. NoReplyAhead' /\ LastIsTrue' /\ LateComesFirst' /\ Promised'
    BY <1>2, <2>2, <2>3 DEF OnItsWay, NoReplyAhead, LastIsTrue, LateComesFirst, Promised
  <2>5. /\ Has(queue', Infos)
        /\ Has(queue, {"ready", "none"}) => Has(queue', {"ready", "none"})
    <3>1. Info(tabletOn) \in Infos
      BY InfoFacts DEF TypeOK, FlagsOK
    <3> QED
      BY <1>1, <3>1, HasFacts
  <2>6. Agrees' <=> Agrees
    BY DEF Agrees, Meant
  <2>7. Ignoring'
    BY <1>5, <2>2, <2>5, <2>6 DEF OnItsWay, Ignoring
  <2> QED
    BY <2>4, <2>7 DEF OnItsWay
<1> QED
  BY <1>3, <1>4, <1>5

\* A reply that the Testing tab was not waiting for may be lost.
LEMMA ReplyLostStep ==
  ASSUME Inv, ReplyLost
  PROVE  Inv'
<1> USE DEF Inv, pane, view, pings
<1>1. PICK call \in repliesDue :
        /\ repliesDue' = repliesDue \ {call}
        /\ slips' = IF call = "command" THEN slips \cup {"unanswered"} ELSE slips
  BY DEF ReplyLost
<1>2. UNCHANGED <<up, busy, found, tabletOn, queueEnabled, scans, queue, inbox, pane>>
  BY DEF ReplyLost
<1>3. TypeOK'
  <2>1. FlagsOK'
    BY <1>2 DEF TypeOK, FlagsOK
  <2>2. RangesOK'
    BY <1>1, <1>2 DEF TypeOK, RangesOK
  <2> QED
    BY <2>1, <2>2 DEF TypeOK
<1>4. Idle' /\ Counting'
  BY <1>1, <1>2 DEF Idle, Counting
<1>5. ASSUME up', slips' = {}
      PROVE  OnItsWay'
  <2>1. OnItsWay /\ call # "command"
    BY <1>1, <1>2, <1>5
  <2>2. NoReplyAhead'
    BY <1>1, <1>2, <2>1 DEF OnItsWay, NoReplyAhead
  <2>3. Info(tabletOn)' = Info(tabletOn)
    BY <1>2 DEF Info
  <2>4. LastIsTrue' /\ LateComesFirst'
    BY <1>2, <2>1, <2>3 DEF OnItsWay, LastIsTrue, LateComesFirst
  <2>5. (Agrees' <=> Agrees) /\ (Awaited => Awaited')
    BY <1>1, <1>2, <2>1 DEF Agrees, Meant, Awaited, Has
  <2>6. Promised' /\ Ignoring'
    BY <1>2, <2>1, <2>5 DEF OnItsWay, Promised, Ignoring, Has
  <2> QED
    BY <2>2, <2>4, <2>6 DEF OnItsWay
<1> QED
  BY <1>3, <1>4, <1>5

LEMMA DaemonEndsStep ==
  ASSUME Inv, DaemonEnds
  PROVE  Inv'
<1> USE DEF Inv, DaemonEnds, pane, view, pings
<1>1. TypeOK'
  <2>1. FlagsOK'
    BY DEF TypeOK, FlagsOK
  <2>2. RangesOK'
    BY EmptySeq DEF TypeOK, RangesOK
  <2> QED
    BY <2>1, <2>2 DEF TypeOK
<1>2. Idle' /\ Counting'
  BY DEF Idle, Counting
<1> QED
  BY <1>1, <1>2

-----------------------------------------------------------------------------
(***************************************************************************)
(* The handling of a call.                                                 *)
(***************************************************************************)
\* The types after a call.
LEMMA HandleTypes ==
  ASSUME TypeOK, NEW c \in Calls, Handle(c)
  PROVE  /\ queue' \in Seq(Queued)
         /\ tabletOn' \in BOOLEAN /\ queueEnabled' \in BOOLEAN
         /\ repliesDue' \subseteq AskTablet
         /\ scans' = scans
         /\ UNCHANGED <<up, busy, found>>
<1>1. queue' \in Seq(Queued)
  BY EmptySeq, LastFacts DEF TypeOK, RangesOK, Handle, QueueAfter
<1>2. repliesDue' \subseteq AskTablet
  BY DEF TypeOK, RangesOK, Handle
<1> QED
  BY <1>1, <1>2 DEF TypeOK, FlagsOK, Handle

\* A call that flushes nothing but [hello] while the last message is true leaves
\* the last message as it is, or finds or takes the only one.
LEMMA HandleFacts ==
  ASSUME TypeOK, LastIsTrue, ~busy, NEW c \in Calls, Handle(c), Flushed(c) = {},
         c \in Clicked => todo \in Clicks \/ \E i \in 1..Len(inbox) : inbox[i] \in Clicked
  PROVE  /\ queue' # <<>> => /\ queue # <<>>
                             /\ queue'[Len(queue')] = queue[Len(queue)]
                             /\ queue[Len(queue)] \in {"ready", "none"} \/ tabletOn' = tabletOn
         /\ queue' = <<>> => queue = <<>> \/ (c = "next" /\ queue[Len(queue)] = Head(queue))
         /\ c # "next" => queue' = queue
<1>1. queue \in Seq(Queued)
  BY DEF TypeOK, RangesOK
<1>2. CASE c = "next"
  <2>1. tabletOn' = tabletOn
    BY <1>2 DEF Handle
  <2>2. queue' = IF queue = <<>> THEN <<>> ELSE Tail(queue)
    BY <1>2 DEF Handle, QueueAfter
  <2>3. CASE queue = <<>>
    BY <2>2, <2>3
  <2>4. CASE queue # <<>>
    BY <1>1, <1>2, <2>1, <2>2, <2>4, LastFacts
  <2> QED
    BY <2>3, <2>4
<1>3. CASE c \in {"hello", "bye"}
  <2>1. queue' = <<>>
    BY <1>3 DEF Handle, QueueAfter
  <2>2. ASSUME queue # <<>>
        PROVE  FALSE
    <3>1. queue[Len(queue)] # "hello"
      BY <2>2, InfoFacts DEF LastIsTrue, TypeOK, FlagsOK
    <3>2. Len(queue) \in DOMAIN queue
      BY <1>1, <2>2
    <3> QED
      BY <1>3, <3>1, <3>2 DEF Flushed
  <2> QED
    BY <1>3, <2>1, <2>2
<1>4. CASE c \notin {"next", "hello", "bye"}
  <2>1. queue' = queue
    BY <1>4 DEF Handle, QueueAfter
  <2>2. c \notin Clicked => tabletOn' = tabletOn
    BY DEF Handle, Clicked
  <2>3. c \in Clicked /\ queue # <<>> => queue[Len(queue)] \in {"ready", "none"}
    BY DEF LastIsTrue
  <2> QED
    BY <2>1, <2>2, <2>3
<1> QED
  BY <1>2, <1>3, <1>4

-----------------------------------------------------------------------------
(***************************************************************************)
(* The pane's steps.                                                       *)
(***************************************************************************)
\* Handling the next late call leaves the others as they were.
LEMMA HandleLateStep ==
  ASSUME Inv, HandleLate
  PROVE  Inv'
<1> DEFINE c == Head(inbox)
<1> USE DEF Inv, HandleLate, pane, view, pings
<1>1. inbox \in Seq(Calls) /\ inbox # <<>> /\ inbox' = Tail(inbox) /\ todo' = todo
  BY DEF TypeOK, RangesOK
<1>2. /\ c \in Calls
      /\ inbox' \in Seq(Calls)
      /\ \A i \in 1..Len(inbox') : inbox'[i] = inbox[i + 1] /\ i + 1 \in 1..Len(inbox)
      /\ c = inbox[1] /\ 1 \in 1..Len(inbox)
  BY <1>1, LastFacts
<1>3. Handle(c)
  OBVIOUS
<1> HIDE DEF c
<1>4. TypeOK'
  <2>1. FlagsOK'
    BY <1>2, <1>3, HandleTypes DEF TypeOK, FlagsOK
  <2>2. slips' \subseteq {"flushed", "late", "raced", "unanswered"}
    BY DEF TypeOK, RangesOK, Flushed, Unanswered
  <2>3. RangesOK'
    BY <1>2, <1>3, <2>2, HandleTypes DEF TypeOK, RangesOK
  <2> QED
    BY <2>1, <2>3 DEF TypeOK
<1>5. Idle' /\ Counting'
  BY <1>3 DEF Idle, Counting, Handle
<1>6. ASSUME up', slips' = {}
      PROVE  OnItsWay'
  <2>1. slips = {} /\ Flushed(c) = {} /\ Unanswered(c) = {} /\ Reply(c) \notin Queued
    BY <1>6 DEF c
  <2>2. OnItsWay /\ ~busy /\ up
    BY <2>1
  <2>3. queue # <<>>
    BY <1>1, <2>2 DEF OnItsWay, LateComesFirst
  <2>4. c # "next"
    <3>1. queue \in Seq(Queued)
      BY DEF TypeOK, RangesOK
    <3>2. Head(queue) \in Queued
      BY <2>3, <3>1, LastFacts
    <3> QED
      BY <2>1, <2>3, <3>2 DEF Reply
  <2>5. /\ queue' # <<>>
        /\ queue'[Len(queue')] = queue[Len(queue)]
        /\ queue[Len(queue)] \in {"ready", "none"} \/ tabletOn' = tabletOn
        /\ queue' = queue
    BY <1>2, <1>3, <2>1, <2>2, <2>3, <2>4, HandleFacts DEF OnItsWay
  <2>6. busy' = busy
    BY <1>3 DEF Handle
  <2>7. LastIsTrue'
    <3>1. queue[Len(queue)] \in {"ready", "none"} \/
            (queue[Len(queue)] = Info(tabletOn)' /\ todo \notin Clicks /\
             \A i \in 1..Len(inbox) : inbox[i] \notin Clicked)
      <4>1. CASE queue[Len(queue)] \in {"ready", "none"}
        BY <4>1
      <4>2. CASE queue[Len(queue)] \notin {"ready", "none"}
        <5>1. tabletOn' = tabletOn
          BY <2>5, <4>2
        <5>2. Info(tabletOn)' = Info(tabletOn)
          BY <5>1 DEF Info
        <5> QED
          BY <2>2, <2>3, <4>2, <5>2 DEF OnItsWay, LastIsTrue
      <4> QED
        BY <4>1, <4>2
    <3> QED
      BY <1>1, <1>2, <2>5, <3>1 DEF LastIsTrue
  <2>8. NoReplyAhead'
    <3>1. c \notin AskTablet => repliesDue' = repliesDue
      BY <1>3 DEF Handle
    <3>2. todo \in Clicks =>
            repliesDue' = {} /\ \A i \in 1..Len(inbox') : inbox'[i] \notin AskTablet
      BY <1>2, <2>2, <3>1 DEF OnItsWay, NoReplyAhead
    <3>3. ASSUME NEW i \in 1..Len(inbox'), inbox'[i] \in Clicked
          PROVE  repliesDue' = {} /\ \A j \in 1..i : inbox'[j] \notin AskTablet
      <4>1. i + 1 \in 1..Len(inbox) /\ inbox[i + 1] \in Clicked
        BY <1>2, <3>3
      <4>2. repliesDue = {} /\ \A j \in 1..i + 1 : inbox[j] \notin AskTablet
        BY <2>2, <4>1 DEF OnItsWay, NoReplyAhead
      <4>3. i \in Nat /\ Len(inbox') \in Nat
        BY <1>2
      <4>4. ASSUME NEW j \in 1..i
            PROVE  inbox'[j] \notin AskTablet
        <5>1. j \in 1..Len(inbox') /\ j + 1 \in 1..i + 1
          BY <4>3
        <5> QED
          BY <1>2, <4>2, <5>1
      <4>5. 1 \in 1..i + 1
        BY <4>3
      <4> QED
        BY <1>2, <3>1, <4>2, <4>4, <4>5
    <3> QED
      BY <1>1, <3>2, <3>3 DEF NoReplyAhead
  <2>9. ASSUME ignoreNextInfo'
        PROVE  Ignoring'
    <3>1. /\ ignoreNextInfo
          /\ Awaited \/ Has(queue, Infos)
          /\ todo \notin Clicks /\ \A i \in 1..Len(inbox) : inbox[i] \notin Clicked
          /\ busy \/ todo \in Asking \/ Has(queue, {"ready", "none"}) \/ Agrees
      BY <2>2, <2>9 DEF OnItsWay, Ignoring
    <3>2. \A i \in 1..Len(inbox') : inbox'[i] \notin Clicked
      BY <1>2, <3>1
    <3>3. c \notin Clicked /\ tabletOn' = tabletOn
      BY <1>2, <1>3, <3>1 DEF Handle, Clicked
    <3>4. Agrees' <=> Agrees
      BY <1>1, <3>3 DEF Agrees, Meant
    <3>5. Awaited => Awaited'
      <4>1. repliesDue \subseteq repliesDue'
        BY <1>3 DEF Handle
      <4>2. c = "command" => "command" \in repliesDue'
        BY <1>3, <2>1 DEF Handle, Unanswered, AskTablet
      <4>3. Has(inbox, {"command"}) => c = "command" \/ Has(inbox', {"command"})
        BY <1>1, HasFacts DEF c
      <4> QED
        BY <1>1, <4>1, <4>2, <4>3 DEF Awaited
    <3> QED
      BY <1>1, <2>5, <2>6, <3>1, <3>2, <3>4, <3>5 DEF Ignoring
  <2> QED
    BY <2>5, <2>7, <2>8, <2>9 DEF OnItsWay, LateComesFirst, Promised, Ignoring
<1> QED
  BY <1>4, <1>5, <1>6

\* What a message shows.
LEMMA ShowTypes ==
  ASSUME NEW m, Show(m), shows \in {"not loaded", "looking", "no tablet", "tablet"},
         check \in {"on", "mixed", "off"}, ignoreNextInfo \in BOOLEAN
  PROVE  /\ ignoreNextInfo' \in BOOLEAN
         /\ shows' \in {"not loaded", "looking", "no tablet", "tablet"}
         /\ check' \in {"on", "mixed", "off"}
  BY DEF Show, Ignored

\* A message that is true or about no tablet puts the checkbox right, unless it is
\* ignored; [ready], [hello] and the rest leave it.
LEMMA ShowFacts ==
  ASSUME NEW m, Show(m), tabletOn \in BOOLEAN
  PROVE  /\ m = Info(tabletOn) /\ ~ignoreNextInfo => ((check' = "on") <=> tabletOn)
         /\ m \in {"none", "bye", "hello"} => shows' # "tablet"
         /\ m \in {"", "model", "ready"} => shows' = shows /\ check' = check
         /\ m \in Infos /\ ignoreNextInfo => shows' = shows /\ check' = check
         /\ ignoreNextInfo' => ignoreNextInfo /\ m \notin Infos
  BY DEF Show, Info, Ignored, Infos

LEMMA AnsweredStep ==
  ASSUME Inv, Answered
  PROVE  Inv'
<1> DEFINE c == Head(todo)
           answer == Reply(c)
<1> USE DEF Inv, Answered, view, pings
<1>1. todo \in Todos /\ todo # <<>> /\ up /\ ~busy /\ inbox = <<>> /\ inbox' = <<>>
  BY DEF Idle
<1>2. /\ c \in Calls
      /\ Tail(todo) \in Todos
      /\ Tail(todo) \notin Clicks
      /\ c \in {"start", "stop", "?bank", "next", "command"} => todo = <<c>> /\ Tail(todo) = <<>>
      /\ todo \in Asking /\ c # "?info" => Tail(todo) \in Asking
      /\ c \in {"?model", "?info"} <=> todo \in Asking
      /\ todo \in Clicks <=> c \in Clicked
  BY <1>1, TodosFacts
<1>3. Handle(c)
  OBVIOUS
<1>4. slips' = slips \cup Flushed(c) \cup Unanswered(c)
  OBVIOUS
<1>5. /\ c \in {"next", "?model", "?info"} => Show(answer) /\ todo' = Follow(answer) \o Tail(todo)
      /\ c \notin {"next", "?model", "?info"} => UNCHANGED view /\ todo' = Tail(todo)
  OBVIOUS
<1>6. /\ UNCHANGED <<up, busy, found, scans, inbox, opened, isLoaded, selected, clicks>>
      /\ UNCHANGED pings
  BY <1>3 DEF Handle
<1>7. /\ tabletOn \in BOOLEAN
      /\ tabletOn' = IF c \in Clicked THEN c = "start" ELSE tabletOn
      /\ queue \in Seq(Queued)
      /\ c = "next" => queue' = IF queue = <<>> THEN <<>> ELSE Tail(queue)
  BY <1>3 DEF Handle, QueueAfter, Clicked, TypeOK, FlagsOK, RangesOK
<1>8. answer = CASE c = "next"   -> IF queue = <<>> THEN "" ELSE Head(queue)
                 [] c = "?info"  -> Info(tabletOn)
                 [] c = "?model" -> IF found THEN "model" ELSE "none"
                 [] OTHER        -> "ok"
  BY DEF Reply
<1> HIDE DEF c, answer, Inv, Answered
<1>9. /\ c = "?info" => answer = Info(tabletOn) /\ answer \in Infos
      /\ c = "?model" => answer \in {"model", "none"}
      /\ c = "next" => answer = IF queue = <<>> THEN "" ELSE Head(queue)
  BY <1>7, <1>8, InfoFacts
<1>10. /\ c # "next" => todo' = Tail(todo)
       /\ c = "next" /\ answer # "ready" => todo' = <<>>
       /\ c = "next" /\ answer = "ready" => todo' = <<"?model", "?info">>
  <2>1. /\ <<>> \o Tail(todo) = Tail(todo)
        /\ <<>> \o <<>> = <<>>
        /\ <<"?model", "?info">> \o <<>> = <<"?model", "?info">>
    BY <1>2, TodosCalls
  <2>2. c # "next" => answer # "ready" \/ c \notin {"?model", "?info"}
    BY <1>9 DEF Infos
  <2>3. c \in {"next", "?model", "?info"} /\ answer # "ready" => todo' = <<>> \o Tail(todo)
    BY <1>5 DEF Follow
  <2>4. c = "next" /\ answer = "ready" => todo' = <<"?model", "?info">> \o Tail(todo)
    BY <1>5 DEF Follow
  <2>5. c = "next" => Tail(todo) = <<>>
    BY <1>2
  <2> QED
    BY <1>5, <2>1, <2>2, <2>3, <2>4, <2>5
<1>11. todo' \in Todos /\ todo' \notin Clicks
  <2>1. <<"?model", "?info">> \in Todos /\ <<>> \in Todos
    BY DEF Todos, Asking
  <2>2. <<"?model", "?info">> \notin Clicks /\ <<>> \notin Clicks
    BY DEF Clicks
  <2> QED
    BY <1>2, <1>10, <2>1, <2>2
<1>12. TypeOK'
  <2>7. ignoreNextInfo \in BOOLEAN
    BY DEF Inv, TypeOK, FlagsOK
  <2>8. ignoreNextInfo' \in BOOLEAN
    BY <1>5, <2>7, ShowTypes DEF Inv, TypeOK, RangesOK
  <2>1. FlagsOK'
    BY <1>2, <1>3, <1>6, <2>8, HandleTypes DEF Inv, TypeOK, FlagsOK
  <2>2. /\ shows' \in {"not loaded", "looking", "no tablet", "tablet"}
        /\ check' \in {"on", "mixed", "off"}
    BY <1>5, <2>7, ShowTypes DEF Inv, TypeOK, RangesOK
  <2>3. slips' \subseteq {"flushed", "late", "raced", "unanswered"}
    BY <1>4 DEF Inv, TypeOK, RangesOK, Flushed, Unanswered
  <2>4. queue' \in Seq(Queued)
    BY <1>2, <1>3, HandleTypes DEF Inv
  <2>5. todo' \in Seq(Calls)
    BY <1>11, TodosCalls
  <2>6. RangesOK'
    BY <1>2, <1>3, <1>6, <2>2, <2>3, <2>4, <2>5, HandleTypes DEF Inv, TypeOK, RangesOK
  <2> QED
    BY <2>1, <2>6 DEF TypeOK
<1>13. Idle' /\ Counting'
  BY <1>1, <1>6, <1>11 DEF Inv, Idle, Counting
<1>14. ASSUME up', slips' = {}
       PROVE  OnItsWay'
  <2>1. OnItsWay /\ Flushed(c) = {} /\ Unanswered(c) = {}
    BY <1>1, <1>4, <1>14 DEF Inv
  <2>2. /\ queue' # <<>> => /\ queue # <<>>
                            /\ queue'[Len(queue')] = queue[Len(queue)]
                            /\ queue[Len(queue)] \in {"ready", "none"} \/ tabletOn' = tabletOn
        /\ queue' = <<>> => queue = <<>> \/ (c = "next" /\ queue[Len(queue)] = Head(queue))
        /\ c # "next" => queue' = queue
    BY <1>1, <1>2, <1>3, <2>1, HandleFacts DEF Inv, OnItsWay
  <2>3. NoReplyAhead'
    BY <1>1, <1>11 DEF NoReplyAhead
  <2>4. LastIsTrue'
    <3>1. tabletOn' = tabletOn => Info(tabletOn)' = Info(tabletOn)
      BY DEF Info
    <3>2. LastIsTrue /\ \A i \in 1..Len(inbox') : inbox'[i] \notin Clicked
      BY <1>1, <2>1 DEF OnItsWay
    <3> QED
      BY <1>1, <1>11, <2>2, <3>1, <3>2 DEF LastIsTrue
  <2>5. LateComesFirst'
    BY <1>1 DEF LateComesFirst
  <2>7. Awaited => Awaited'
    <3>1. repliesDue \subseteq repliesDue'
      BY <1>3 DEF Handle
    <3>2. c = "command" => "command" \in repliesDue'
      BY <1>3, <2>1 DEF Handle, Unanswered, AskTablet
    <3>3. todo = <<"command">> => c = "command"
      BY ShortFacts DEF c
    <3> QED
      BY <1>6, <3>1, <3>2, <3>3 DEF Awaited
  <2>8. ASSUME ignoreNextInfo
        PROVE  /\ Awaited \/ Has(queue, Infos)
               /\ c \notin Clicked /\ tabletOn' = tabletOn
               /\ todo \in Asking \/ Has(queue, {"ready", "none"}) \/ Agrees
               /\ Meant = tabletOn
    BY <1>1, <1>2, <1>7, <2>1, <2>8 DEF OnItsWay, Ignoring, Meant
  <2>6. ASSUME queue' = <<>>
        PROVE  todo' \in Asking \/ Agrees' \/ Awaited'
    <3>1. Meant' = tabletOn'
      BY <1>11 DEF Meant
    <3>2. CASE c = "?model"
      BY <1>2, <1>10, <3>2
    <3>3. CASE c = "?info"
      <4>1. CASE ignoreNextInfo
        <5>1. queue = <<>>
          BY <2>2, <2>6, <3>3
        <5>2. ~Has(queue, Infos)
          BY <1>7, <5>1, HasFacts
        <5> QED
          BY <2>7, <2>8, <4>1, <5>2
      <4>2. CASE ~ignoreNextInfo
        BY <1>5, <1>7, <1>9, <3>1, <3>3, <4>2, ShowFacts DEF Agrees, Clicked
      <4> QED
        BY <4>1, <4>2
    <3>4. CASE c = "next" /\ queue = <<>>
      <4>1. (Agrees \/ Awaited) /\ Meant = tabletOn
        BY <1>1, <1>2, <2>1, <3>4 DEF OnItsWay, Promised, Meant, Clicked
      <4>2. CASE Awaited
        BY <2>7, <4>2
      <4>3. CASE Agrees
        BY <1>5, <1>7, <1>9, <3>1, <3>4, <4>1, <4>3, ShowFacts DEF Agrees, Clicked
      <4> QED
        BY <4>1, <4>2, <4>3
    <3>5. CASE c = "next" /\ queue # <<>>
      <4>1. /\ answer = queue[Len(queue)]
            /\ answer \in {"ready", "none", Info(tabletOn)}
        BY <1>1, <1>9, <2>1, <2>2, <2>6, <3>5 DEF OnItsWay, LastIsTrue
      <4>2. CASE answer = "ready"
        BY <1>10, <3>5, <4>2 DEF Asking
      <4>3. CASE answer = "none"
        BY <1>5, <1>7, <3>5, <4>3, ShowFacts DEF Agrees
      <4>4. CASE answer = Info(tabletOn)
        <5>1. CASE ~ignoreNextInfo
          BY <1>5, <1>7, <3>1, <3>5, <4>4, <5>1, ShowFacts DEF Agrees, Clicked
        <5>2. CASE ignoreNextInfo
          <6>1. answer \in Infos
            BY <1>7, <4>4, InfoFacts
          <6>2. ~Has(queue, {"ready", "none"})
            <7>1. queue' = Tail(queue) /\ answer = Head(queue)
              BY <1>7, <1>9, <3>5
            <7>2. ~Has(Tail(queue), {"ready", "none"})
              BY <1>12, <2>6, <7>1, HasFacts DEF TypeOK, RangesOK
            <7>3. Head(queue) \notin {"ready", "none"}
              BY <6>1, <7>1 DEF Infos
            <7> QED
              BY <1>7, <3>5, <7>2, <7>3, HasFacts
          <6>3. Agrees /\ Meant = tabletOn /\ tabletOn' = tabletOn
            BY <1>2, <2>8, <3>5, <5>2, <6>2
          <6>4. shows' = shows /\ check' = check
            BY <1>5, <1>7, <3>5, <5>2, <6>1, ShowFacts
          <6> QED
            BY <3>1, <6>3, <6>4 DEF Agrees
        <5> QED
          BY <5>1, <5>2
      <4> QED
        BY <4>1, <4>2, <4>3, <4>4
    <3>6. CASE c \notin {"next", "?model", "?info"}
      <4>1. queue = <<>> /\ (Agrees \/ Awaited)
        BY <1>1, <1>2, <2>1, <2>2, <2>6, <3>6 DEF OnItsWay, Promised
      <4>2. UNCHANGED view
        BY <1>5, <3>6
      <4>3. Meant = tabletOn'
        <5>1. CASE c \in Clicked
          BY <1>2, <1>7, <5>1, ShortFacts DEF Meant, Clicked
        <5>2. CASE c \notin Clicked
          BY <1>2, <1>7, <5>2 DEF Meant
        <5> QED
          BY <5>1, <5>2
      <4> QED
        BY <2>7, <3>1, <4>1, <4>2, <4>3 DEF Agrees, view
    <3> QED
      BY <3>2, <3>3, <3>4, <3>5, <3>6
  <2>9. ASSUME ignoreNextInfo'
        PROVE  Ignoring'
    <3>1. ignoreNextInfo /\ (c \in {"next", "?model", "?info"} => answer \notin Infos)
      BY <1>5, <1>7, <2>9, ShowFacts DEF view
    <3>2. Meant' = tabletOn' /\ tabletOn' = tabletOn /\ Meant = tabletOn
      BY <1>11, <2>8, <3>1 DEF Meant
    <3>3. CASE c = "next" /\ queue # <<>>
      <4>1. queue' = Tail(queue) /\ answer = Head(queue)
        BY <1>7, <1>9, <3>3
      <4>2. /\ Has(queue, Infos) => Has(queue', Infos)
            /\ Has(queue, {"ready", "none"}) =>
                 answer \in {"ready", "none"} \/ Has(queue', {"ready", "none"})
        BY <1>7, <3>1, <3>3, <4>1, HasFacts
      <4>3. todo' \in Asking \/ Has(queue', {"ready", "none"}) \/ Agrees'
        <5>1. CASE answer = "ready"
          BY <1>10, <3>3, <5>1 DEF Asking
        <5>2. CASE answer = "none"
          BY <1>5, <1>7, <3>3, <5>2, ShowFacts DEF Agrees
        <5>3. CASE answer = "hello"
          BY <1>5, <1>7, <3>3, <5>3, ShowFacts DEF Agrees
        <5>4. answer \in {"ready", "none", "hello"}
          <6>1. answer \in Queued
            BY <1>7, <3>3, <4>1, LastFacts
          <6> QED
            BY <3>1, <3>3, <6>1 DEF Queued, Infos
        <5> QED
          BY <5>1, <5>2, <5>3, <5>4
      <4> QED
        BY <1>1, <1>11, <2>7, <2>8, <3>1, <4>2, <4>3 DEF Ignoring
    <3>4. CASE ~(c = "next" /\ queue # <<>>)
      <4>1. queue' = queue
        BY <1>7, <2>2, <3>4
      <4>2. CASE c \in {"?model", "?info"}
        <5>1. c = "?model"
          BY <1>9, <3>1, <4>2
        <5>2. todo' \in Asking
          BY <1>2, <1>10, <5>1
        <5> QED
          BY <1>1, <1>11, <2>7, <2>8, <3>1, <4>1, <5>2 DEF Ignoring
      <4>3. CASE c \notin {"?model", "?info"}
        <5>1. Has(queue, {"ready", "none"}) \/ Agrees
          BY <1>2, <2>8, <3>1, <4>3
        <5>2. UNCHANGED <<shows, check>>
          <6>1. CASE c = "next"
            BY <1>5, <1>7, <1>9, <3>4, <6>1, ShowFacts
          <6>2. CASE c # "next"
            BY <1>5, <4>3, <6>2 DEF view
          <6> QED
            BY <6>1, <6>2
        <5>3. Agrees => Agrees'
          BY <3>2, <5>2 DEF Agrees
        <5> QED
          BY <1>1, <1>11, <2>7, <2>8, <3>1, <4>1, <5>1, <5>3 DEF Ignoring
      <4> QED
        BY <4>2, <4>3
    <3> QED
      BY <3>3, <3>4
  <2> QED
    BY <2>3, <2>4, <2>5, <2>6, <2>9 DEF OnItsWay, Promised, Ignoring
<1> QED
  BY <1>12, <1>13, <1>14 DEF Inv

\* A call that is given up, or made without a port, is gone from the pane.
LEMMA TodoFacts ==
  ASSUME Inv, todo # <<>>, todo' = Tail(todo)
  PROVE  /\ todo' \in Todos /\ todo' \notin Clicks /\ todo' \in Seq(Calls)
         /\ Head(todo) \in Calls
         /\ todo \in Clicks <=> Head(todo) \in Clicked
         /\ Head(todo) \in {"start", "stop", "?bank", "command"} => todo' = <<>>
  BY TodosFacts, TodosCalls DEF Inv, Idle

LEMMA GivenUpStep ==
  ASSUME Inv, GivenUp
  PROVE  Inv'
<1> DEFINE c == Head(todo)
<1>1. /\ up /\ busy /\ todo # <<>> /\ todo' = Tail(todo) /\ inbox' = Append(inbox, c)
      /\ inbox \in Seq(Calls)
      /\ UNCHANGED <<daemon, queue, opened, isLoaded, selected, view, pings, clicks, slips>>
  BY DEF Inv, TypeOK, RangesOK, GivenUp
<1>2. /\ todo' \in Todos /\ todo' \notin Clicks /\ todo' \in Seq(Calls)
      /\ c \in Calls
      /\ todo \in Clicks <=> c \in Clicked
  BY <1>1, TodoFacts
<1> HIDE DEF c
<1>3. /\ inbox' \in Seq(Calls)
      /\ Len(inbox') = Len(inbox) + 1
      /\ \A i \in 1..Len(inbox) : inbox'[i] = inbox[i]
      /\ inbox'[Len(inbox')] = c
      /\ Len(inbox) \in Nat
  BY <1>1, <1>2, LastFacts
<1>4. TypeOK'
  <2>1. FlagsOK'
    BY <1>1 DEF Inv, TypeOK, FlagsOK, daemon, view, pings
  <2>2. RangesOK'
    BY <1>1, <1>2, <1>3 DEF Inv, TypeOK, RangesOK, daemon, view, pings
  <2> QED
    BY <2>1, <2>2 DEF TypeOK
<1>5. Idle' /\ Counting'
  BY <1>1, <1>2 DEF Inv, Idle, Counting, daemon, pings
<1>6. ASSUME up', slips' = {}
      PROVE  OnItsWay'
  <2>1. NoReplyAhead
    BY <1>1, <1>6 DEF Inv, OnItsWay
  <2>2. NoReplyAhead'
    <3>1. repliesDue' = repliesDue
      BY <1>1 DEF daemon
    <3>2. ASSUME NEW i \in 1..Len(inbox'), inbox'[i] \in Clicked
          PROVE  repliesDue = {} /\ \A j \in 1..i : inbox'[j] \notin AskTablet
      <4>1. CASE i \in 1..Len(inbox)
        <5>1. repliesDue = {} /\ \A j \in 1..i : inbox[j] \notin AskTablet
          BY <1>3, <2>1, <3>2, <4>1 DEF NoReplyAhead
        <5>2. \A j \in 1..i : j \in 1..Len(inbox)
          BY <1>3, <4>1
        <5> QED
          BY <1>3, <5>1, <5>2
      <4>2. CASE i = Len(inbox')
        <5>1. c \in Clicked
          BY <1>3, <3>2, <4>2
        <5>2. repliesDue = {} /\ \A j \in 1..Len(inbox) : inbox[j] \notin AskTablet
          BY <1>2, <2>1, <5>1 DEF NoReplyAhead
        <5>3. \A j \in 1..i : j \in 1..Len(inbox) \/ j = Len(inbox')
          BY <1>3, <4>2
        <5> QED
          BY <1>3, <5>1, <5>2, <5>3 DEF Clicked, AskTablet
      <4>3. i \in 1..Len(inbox) \/ i = Len(inbox')
        BY <1>3
      <4> QED
        BY <4>1, <4>2, <4>3
    <3> QED
      BY <1>2, <3>1, <3>2 DEF NoReplyAhead
  <2>3. busy'
    BY <1>1 DEF daemon
  <2>4. ASSUME ignoreNextInfo'
        PROVE  Ignoring'
    <3>1. /\ Awaited \/ Has(queue, Infos)
          /\ todo \notin Clicks
          /\ \A i \in 1..Len(inbox) : inbox[i] \notin Clicked
      BY <1>1, <1>6, <2>4 DEF Inv, OnItsWay, Ignoring, view
    <3>2. \A i \in 1..Len(inbox') : inbox'[i] \notin Clicked
      <4>1. \A i \in 1..Len(inbox') : i \in 1..Len(inbox) \/ i = Len(inbox')
        BY <1>3
      <4> QED
        BY <1>2, <1>3, <3>1, <4>1
    <3>3. Awaited => Awaited'
      <4>1. todo = <<"command">> => c = "command"
        BY ShortFacts DEF c
      <4>2. c = "command" \/ Has(inbox, {"command"}) => Has(inbox', {"command"})
        BY <1>1, <1>2, HasFacts
      <4> QED
        BY <1>1, <4>1, <4>2 DEF Awaited, daemon
    <3> QED
      BY <1>1, <1>2, <2>3, <3>1, <3>2, <3>3 DEF Ignoring
  <2> QED
    BY <2>2, <2>3, <2>4 DEF OnItsWay, LastIsTrue, LateComesFirst, Promised, Ignoring
<1> QED
  BY <1>4, <1>5, <1>6 DEF Inv

LEMMA NoPortStep ==
  ASSUME Inv, NoPort
  PROVE  Inv'
<1>1. todo' \in Todos /\ todo' \in Seq(Calls)
  BY TodoFacts DEF NoPort
<1>2. TypeOK'
  <2>1. FlagsOK'
    BY DEF Inv, TypeOK, FlagsOK, NoPort, daemon, view, pings
  <2>2. RangesOK'
    BY <1>1 DEF Inv, TypeOK, RangesOK, NoPort, daemon, view, pings
  <2> QED
    BY <2>1, <2>2 DEF TypeOK
<1>3. Idle' /\ Counting'
  BY <1>1 DEF Inv, Idle, Counting, NoPort, daemon, pings
<1> QED
  BY <1>2, <1>3 DEF Inv, NoPort, daemon

\* Calls of which the first thing asked is no click.
LEMMA NewTodos ==
  /\ {<<>>, <<"next">>, <<"hello">>, <<"bye">>, <<"?bank">>, <<"command">>, 
    <<"start">>, <<"stop">>} \subseteq Todos
  /\ <<"?model", "?info", "hello">> \in Todos /\ <<"?model", "?info", "hello">> \in Asking
  /\ {<<>>, <<"next">>, <<"hello">>, <<"bye">>, <<"?bank">>, <<"command">>,
      <<"?model", "?info", "hello">>} \cap Clicks = {}
  /\ {<<>>, <<"next">>, <<"hello">>, <<"bye">>, <<"?bank">>, <<"command">>} \cap Asking = {}
  BY ShortFacts DEF Todos, Asking, Clicks

LEMMA OpenStep ==
  ASSUME Inv, Open
  PROVE  Inv'
<1>1. todo' \in Todos /\ todo' \notin Clicks /\ (up => todo' \in Asking)
  BY NewTodos DEF Open
<1>2. todo' \in Seq(Calls)
  BY <1>1, TodosCalls
<1>3. TypeOK'
  <2>1. FlagsOK'
    BY DEF Inv, TypeOK, FlagsOK, Open, daemon, pings
  <2>2. RangesOK'
    BY <1>2 DEF Inv, TypeOK, RangesOK, Open, daemon, pings
  <2> QED
    BY <2>1, <2>2 DEF TypeOK
<1>4. Idle' /\ Counting'
  BY <1>1 DEF Inv, Idle, Counting, Open, daemon, pings
<1>5. ASSUME up', slips' = {}
      PROVE  OnItsWay'
  <2>1. OnItsWay /\ todo' \in Asking /\ todo = <<>>
    BY <1>1, <1>5 DEF Inv, Idle, Open, daemon
  <2>2. Info(tabletOn)' = Info(tabletOn)
    BY DEF Open, daemon, Info
  <2>3. todo # <<"command">>
    BY <2>1
  <2> QED
    BY <1>1, <2>1, <2>2, <2>3 DEF Open, daemon, OnItsWay, NoReplyAhead, LastIsTrue, LateComesFirst, Promised,
       Ignoring, Awaited
<1> QED
  BY <1>3, <1>4, <1>5 DEF Inv

\* A pane that had nothing before it goes on with calls that are no click.
LEMMA NextCallStep ==
  ASSUME Inv, opened, todo = <<>>, todo' \in {<<>>, <<"next">>, <<"hello">>, <<"bye">>, <<"?bank">>},
         UNCHANGED <<daemon, queue, inbox, opened, slips>>,
         up => UNCHANGED <<shows, check>>,
         shows' \in {"not loaded", "looking", "no tablet", "tablet"},
         check' \in {"on", "mixed", "off"}, clicks' \in 0..MaxClicks,
         ignoreNextInfo' \in BOOLEAN, ignoreNextInfo' => ignoreNextInfo,
         isLoaded' \in BOOLEAN, selected' \in BOOLEAN, daemonIsGone' \in BOOLEAN,
         failCount' \in -1..FailMax, Counting'
  PROVE  Inv'
<1>1. todo' \in Todos /\ todo' \notin Clicks /\ todo' \notin Asking
  BY NewTodos
<1>2. todo' \in Seq(Calls)
  BY <1>1, TodosCalls
<1>3. TypeOK'
  <2>1. FlagsOK'
    BY DEF Inv, TypeOK, FlagsOK, daemon
  <2>2. RangesOK'
    BY <1>2 DEF Inv, TypeOK, RangesOK, daemon
  <2> QED
    BY <2>1, <2>2 DEF TypeOK
<1>4. Idle'
  BY <1>1 DEF Inv, Idle, daemon
<1>5. ASSUME up', slips' = {}
      PROVE  OnItsWay'
  <2>1. OnItsWay /\ todo \notin Clicks /\ todo \notin Asking /\ up
    BY <1>5, NewTodos DEF Inv, daemon
  <2>2. Info(tabletOn)' = Info(tabletOn)
    BY DEF daemon, Info
  <2>3. Agrees => Agrees'
    BY <1>1, <2>1 DEF Agrees, Meant, daemon
  <2>4. Awaited => Awaited'
    <3>1. todo # <<"command">>
      OBVIOUS
    <3> QED
      BY <3>1 DEF Awaited, daemon
  <2>5. NoReplyAhead' /\ LastIsTrue' /\ LateComesFirst' /\ Promised'
    BY <1>1, <2>1, <2>2, <2>3, <2>4
    DEF daemon, OnItsWay, NoReplyAhead, LastIsTrue, LateComesFirst, Promised
  <2>6. Ignoring'
    BY <1>1, <2>1, <2>3, <2>4 DEF daemon, OnItsWay, Ignoring
  <2> QED
    BY <2>5, <2>6 DEF OnItsWay
<1> QED
  BY <1>3, <1>4, <1>5 DEF Inv

LEMMA DidSelectStep ==
  ASSUME Inv, DidSelect
  PROVE  Inv'
<1>1. /\ shows' \in {"not loaded", "looking", "no tablet", "tablet"}
      /\ check' \in {"on", "mixed", "off"} /\ clicks' \in 0..MaxClicks
      /\ failCount' \in -1..FailMax
  BY DEF Inv, TypeOK, RangesOK, DidSelect, view, pings
<1>2. /\ isLoaded' \in BOOLEAN /\ selected' \in BOOLEAN /\ daemonIsGone' \in BOOLEAN
      /\ ignoreNextInfo' \in BOOLEAN /\ ignoreNextInfo' = ignoreNextInfo
  BY DEF Inv, TypeOK, FlagsOK, DidSelect, view, pings
<1>3. Counting'
  BY DEF Inv, Counting, DidSelect, pings
<1>4. /\ opened /\ todo = <<>> /\ todo' \in {<<>>, <<"next">>, <<"hello">>, <<"bye">>, <<"?bank">>}
      /\ UNCHANGED <<daemon, queue, inbox, opened, slips>>
      /\ UNCHANGED <<shows, check>>
  BY DEF DidSelect, view
<1> QED
  BY <1>1, <1>2, <1>3, <1>4, NextCallStep

LEMMA WillUnselectStep ==
  ASSUME Inv, WillUnselect
  PROVE  Inv'
<1>1. /\ shows' \in {"not loaded", "looking", "no tablet", "tablet"}
      /\ check' \in {"on", "mixed", "off"} /\ clicks' \in 0..MaxClicks
      /\ failCount' \in -1..FailMax
  BY DEF Inv, TypeOK, RangesOK, WillUnselect, view, pings
<1>2. /\ isLoaded' \in BOOLEAN /\ selected' \in BOOLEAN /\ daemonIsGone' \in BOOLEAN
      /\ ignoreNextInfo' \in BOOLEAN /\ ignoreNextInfo' = ignoreNextInfo
  BY DEF Inv, TypeOK, FlagsOK, WillUnselect, view, pings
<1>3. Counting' /\ opened
  BY DEF Inv, Idle, Counting, WillUnselect, pings
<1>4. /\ opened /\ todo = <<>> /\ todo' \in {<<>>, <<"next">>, <<"hello">>, <<"bye">>, <<"?bank">>}
      /\ UNCHANGED <<daemon, queue, inbox, opened, slips>>
      /\ UNCHANGED <<shows, check>>
  BY <1>3 DEF WillUnselect, view
<1> QED
  BY <1>1, <1>2, <1>3, <1>4, NextCallStep

LEMMA RequestCurrentSettingsStep ==
  ASSUME Inv, RequestCurrentSettings
  PROVE  Inv'
<1>1. /\ shows' \in {"not loaded", "looking", "no tablet", "tablet"}
      /\ check' \in {"on", "mixed", "off"}
      /\ failCount' \in -1..FailMax
  BY DEF Inv, TypeOK, RangesOK, RequestCurrentSettings, UserActs, pings
<1>2. /\ isLoaded' \in BOOLEAN /\ selected' \in BOOLEAN /\ daemonIsGone' \in BOOLEAN
      /\ ignoreNextInfo' \in BOOLEAN /\ ignoreNextInfo' = ignoreNextInfo
  BY DEF Inv, TypeOK, FlagsOK, RequestCurrentSettings, UserActs, pings
<1>3. Counting' /\ opened
  BY DEF Inv, Idle, Counting, RequestCurrentSettings, UserActs, pings
<1>4. clicks' \in 0..MaxClicks
  <2>1. clicks \in 0..MaxClicks /\ clicks < MaxClicks /\ clicks' = clicks + 1
    BY DEF Inv, TypeOK, RangesOK, RequestCurrentSettings, UserActs
  <2> QED
    BY <2>1, ConstantFacts
<1> QED
  BY <1>1, <1>2, <1>3, <1>4, NextCallStep DEF RequestCurrentSettings, UserActs, view

LEMMA SendOtherCommandStep ==
  ASSUME Inv, SendOtherCommand
  PROVE  Inv'
<1>1. /\ shows' \in {"not loaded", "looking", "no tablet", "tablet"}
      /\ check' \in {"on", "mixed", "off"}
      /\ failCount' \in -1..FailMax
  BY DEF Inv, TypeOK, RangesOK, SendOtherCommand, UserActs, pings
<1>2. /\ isLoaded' \in BOOLEAN /\ selected' \in BOOLEAN /\ daemonIsGone' \in BOOLEAN
      /\ ignoreNextInfo' \in BOOLEAN /\ ~ignoreNextInfo'
  BY DEF Inv, TypeOK, FlagsOK, SendOtherCommand, UserActs, pings
<1>3. Counting' /\ opened
  BY DEF Inv, Idle, Counting, SendOtherCommand, UserActs, pings
<1>4. clicks' \in 0..MaxClicks
  <2>1. clicks \in 0..MaxClicks /\ clicks < MaxClicks /\ clicks' = clicks + 1
    BY DEF Inv, TypeOK, RangesOK, SendOtherCommand, UserActs
  <2> QED
    BY <2>1, ConstantFacts
<1> QED
  BY <1>1, <1>2, <1>3, <1>4, NextCallStep DEF SendOtherCommand, UserActs, view

LEMMA SendReadCommandStep ==
  ASSUME Inv, SendReadCommand
  PROVE  Inv'
<1>1. /\ selected /\ todo = <<>> /\ clicks < MaxClicks /\ clicks' = clicks + 1
      /\ todo' = <<"command">> /\ ignoreNextInfo' = TRUE
      /\ UNCHANGED <<daemon, queue, inbox, opened, selected, shows, check, isLoaded, pings>>
      /\ slips' = IF NothingDue THEN slips ELSE slips \cup {"raced"}
  BY DEF SendReadCommand, UserActs
<1>2. todo' \in Todos /\ todo' \notin Clicks
  BY <1>1, NewTodos
<1>3. todo' \in Seq(Calls)
  BY <1>2, TodosCalls
<1>4. TypeOK'
  <2>1. FlagsOK'
    BY <1>1 DEF Inv, TypeOK, FlagsOK, daemon, pings
  <2>2. clicks' \in 0..MaxClicks
    <3>1. clicks \in 0..MaxClicks
      BY DEF Inv, TypeOK, RangesOK
    <3> QED
      BY <1>1, <3>1, ConstantFacts
  <2>3. RangesOK'
    BY <1>1, <1>3, <2>2 DEF Inv, TypeOK, RangesOK, daemon, pings
  <2> QED
    BY <2>1, <2>3 DEF TypeOK
<1>5. Idle' /\ Counting'
  BY <1>1, <1>2 DEF Inv, Idle, Counting, daemon, pings
<1>6. ASSUME up', slips' = {}
      PROVE  OnItsWay'
  <2>1. NothingDue /\ OnItsWay
    BY <1>1, <1>6 DEF Inv, daemon
  <2>2. queue' = <<>> /\ inbox' = <<>> /\ Len(inbox') = 0
    BY <1>1, <2>1 DEF NothingDue
  <2>3. Agrees
    <3>1. ~Awaited
      <4>1. todo # <<"command">> /\ Len(inbox) = 0
        BY <1>1, <2>1 DEF NothingDue
      <4> QED
        BY <2>1, <4>1 DEF Awaited, Has, NothingDue
    <3> QED
      BY <1>1, <2>1, <3>1, NewTodos DEF OnItsWay, Promised, NothingDue
  <2>4. Agrees'
    <3>1. Meant' = Meant
      BY <1>1, <1>2, NewTodos DEF Meant, daemon
    <3> QED
      BY <1>1, <2>3, <3>1 DEF Agrees
  <2>5. Awaited'
    BY <1>1 DEF Awaited
  <2> QED
    BY <1>2, <2>2, <2>4, <2>5 DEF OnItsWay, NoReplyAhead, LastIsTrue, LateComesFirst, Promised,
         Ignoring
<1> QED
  BY <1>4, <1>5, <1>6 DEF Inv

LEMMA PingStep ==
  ASSUME Inv, Ping
  PROVE  Inv'
<1>1. /\ opened /\ todo = <<>>
      /\ UNCHANGED <<daemon, queue, inbox, opened, slips, isLoaded, selected, clicks>>
      /\ todo' \in {<<>>, <<"next">>}
      /\ up => UNCHANGED <<shows, check>>
  BY DEF Inv, Idle, Ping, view
<1>2. /\ failCount \in -1..FailMax /\ clicks' \in 0..MaxClicks
      /\ shows \in {"not loaded", "looking", "no tablet", "tablet"}
      /\ check \in {"on", "mixed", "off"}
  BY <1>1 DEF Inv, TypeOK, RangesOK
<1>6. ignoreNextInfo \in BOOLEAN /\ tabletOn \in BOOLEAN
  BY DEF Inv, TypeOK, FlagsOK
<1>7. ignoreNextInfo' \in BOOLEAN /\ (ignoreNextInfo' => ignoreNextInfo)
  BY <1>2, <1>6, ShowTypes, ShowFacts DEF Ping, Missed, view
<1>3. /\ shows' \in {"not loaded", "looking", "no tablet", "tablet"}
      /\ check' \in {"on", "mixed", "off"}
  BY <1>2, <1>6, ShowTypes DEF Ping, Missed, view
<1>4. isLoaded' \in BOOLEAN /\ selected' \in BOOLEAN
  BY <1>1 DEF Inv, TypeOK, FlagsOK
<1>5. daemonIsGone' \in BOOLEAN /\ failCount' \in -1..FailMax /\ Counting'
  <2>1. CASE up
    <3>1. /\ daemonIsGone' = FALSE
          /\ failCount' = IF daemonIsGone THEN FailMax ELSE failCount
      BY <2>1 DEF Ping
    <3>2. failCount' \in 0..FailMax
      BY <3>1, ConstantFacts DEF Inv, Counting
    <3>3. failCount' \in -1..FailMax
      BY <3>2, ConstantFacts
    <3>4. daemonIsGone' \in BOOLEAN
      BY <3>1, Zenon
    <3> QED
      BY <3>2, <3>3, <3>4, Zenon DEF Counting
  <2>2. CASE ~up
    <3>1. ~daemonIsGone /\ failCount' = failCount - 1 /\ daemonIsGone' = (failCount <= 0)
      BY <2>2 DEF Ping, Missed
    <3>2. failCount \in 0..FailMax
      BY <3>1 DEF Inv, Counting
    <3>3. failCount' \in -1..FailMax /\ (~(failCount <= 0) => failCount' \in 0..FailMax)
      BY <3>1, <3>2, ConstantFacts, SMT
    <3>4. (failCount <= 0) \in BOOLEAN
      BY <3>2, SMT
    <3>5. daemonIsGone' \in BOOLEAN /\ (~daemonIsGone' => ~(failCount <= 0))
      BY <3>1, <3>4, Zenon
    <3> QED
      BY <3>3, <3>5, Zenon DEF Counting
  <2> QED
    BY <2>1, <2>2
<1> QED
  BY <1>1, <1>2, <1>3, <1>4, <1>5, <1>7, NextCallStep

\* A click, when nothing is on its way, says what the tablet will be.
LEMMA ToggledDaemonStep ==
  ASSUME Inv, ToggledDaemon
  PROVE  Inv'
<1>1. /\ selected /\ todo = <<>> /\ clicks < MaxClicks /\ clicks' = clicks + 1
      /\ UNCHANGED <<daemon, queue, inbox, opened, selected, shows, ignoreNextInfo, pings>>
      /\ slips' = IF NothingDue THEN slips ELSE slips \cup {"raced"}
  BY DEF ToggledDaemon, UserActs
<1>2. \/ check' = "on" /\ todo' = <<"start">> /\ isLoaded' = up
      \/ ~up /\ check' = "mixed" /\ todo' = <<>> /\ isLoaded' = up
      \/ check' = "off" /\ todo' = <<"stop">> /\ isLoaded' = isLoaded
  BY DEF ToggledDaemon, Enable, Disable
<1>3. todo' \in Todos
  BY <1>2, NewTodos
<1>4. todo' \in Seq(Calls)
  BY <1>3, TodosCalls
<1>5. TypeOK'
  <2>1. isLoaded' \in BOOLEAN
    <3>1. up \in BOOLEAN /\ isLoaded \in BOOLEAN
      BY DEF Inv, TypeOK, FlagsOK
    <3> QED
      BY <1>2, <3>1
  <2>2. FlagsOK'
    BY <1>1, <2>1 DEF Inv, TypeOK, FlagsOK, daemon, pings
  <2>3. clicks' \in 0..MaxClicks
    <3>1. clicks \in 0..MaxClicks
      BY DEF Inv, TypeOK, RangesOK
    <3> QED
      BY <1>1, <3>1, ConstantFacts
  <2>4. RangesOK'
    BY <1>1, <1>2, <1>4, <2>3 DEF Inv, TypeOK, RangesOK, daemon, pings
  <2> QED
    BY <2>2, <2>4 DEF TypeOK
<1>6. Idle' /\ Counting'
  BY <1>1, <1>3 DEF Inv, Idle, Counting, daemon, pings
<1>7. ASSUME up', slips' = {}
      PROVE  OnItsWay'
  <2>1. NothingDue /\ up
    BY <1>1, <1>7 DEF daemon
  <2>2. queue' = <<>> /\ inbox' = <<>> /\ repliesDue' = {}
    BY <1>1, <2>1 DEF NothingDue, daemon
  <2>3. Len(inbox') = 0
    BY <2>2
  <2>4. Agrees'
    <3>1. CASE check' = "on" /\ todo' = <<"start">>
      <4>1. Meant'
        BY <3>1 DEF Meant, Clicks
      <4> QED
        BY <3>1, <4>1 DEF Agrees
    <3>2. CASE check' = "off" /\ todo' = <<"stop">>
      <4>1. Meant' = FALSE
        BY <3>2, ShortFacts DEF Meant, Clicks
      <4>2. check' # "on"
        BY <3>2
      <4> QED
        BY <4>1, <4>2 DEF Agrees
    <3> QED
      BY <1>2, <2>1, <3>1, <3>2
  <2>5. ~ignoreNextInfo'
    <3>1. ~Awaited /\ ~Has(queue, Infos)
      <4>1. todo # <<"command">> /\ Len(inbox) = 0 /\ Len(queue) = 0
        BY <1>1, <2>1 DEF NothingDue
      <4> QED
        BY <2>1, <4>1 DEF Awaited, Has, NothingDue
    <3> QED
      BY <1>1, <1>7, <2>1, <3>1 DEF Inv, OnItsWay, Ignoring
  <2> QED
    BY <2>2, <2>3, <2>4, <2>5
    DEF OnItsWay, NoReplyAhead, LastIsTrue, LateComesFirst, Promised, Ignoring
<1> QED
  BY <1>5, <1>6, <1>7 DEF Inv

-----------------------------------------------------------------------------
(***************************************************************************)
(* The specification.                                                      *)
(***************************************************************************)
LEMMA InitInv == Init => Inv
<1> SUFFICES ASSUME Init PROVE Inv
  OBVIOUS
<1>1. TypeOK
  <2>1. FlagsOK
    BY DEF Init, FlagsOK
  <2>2. queue \in Seq(Queued)
    <3>1. "hello" \in Queued
      BY DEF Queued
    <3>2. <<"hello">> \in Seq(Queued)
      BY <3>1
    <3> QED
      BY <3>2, EmptySeq DEF Init
  <2>3. RangesOK
    <3>1. inbox \in Seq(Calls) /\ todo \in Seq(Calls)
      BY EmptySeq DEF Init
    <3>2. failCount \in -1..FailMax /\ clicks \in 0..MaxClicks /\ scans \in 0..MaxScans
      <4>1. failCount = FailMax /\ clicks = 0 /\ scans = 0
        BY DEF Init
      <4> QED
        BY <4>1, ConstantFacts
    <3>3. /\ shows \in {"not loaded", "looking", "no tablet", "tablet"}
          /\ check \in {"on", "mixed", "off"}
          /\ slips \subseteq {"flushed", "late", "raced", "unanswered"}
      BY DEF Init
    <3>4. repliesDue \subseteq AskTablet
      BY DEF Init
    <3> QED
      BY <2>2, <3>1, <3>2, <3>3, <3>4 DEF RangesOK
  <2> QED
    BY <2>1, <2>3 DEF TypeOK
<1>2. Idle /\ Counting
  BY NewTodos DEF Init, Idle, Counting
<1>3. ASSUME up
      PROVE  OnItsWay
  <2>1. busy /\ inbox = <<>> /\ todo = <<>>
    BY <1>3 DEF Init
  <2>2. Len(inbox) = 0
    BY <2>1
  <2>3. todo \notin Clicks
    BY <2>1 DEF Clicks
  <2>4. ignoreNextInfo = FALSE
    BY DEF Init
  <2> QED
    BY <2>1, <2>2, <2>3, <2>4
    DEF OnItsWay, NoReplyAhead, LastIsTrue, LateComesFirst, Promised, Ignoring
<1> QED
  BY <1>1, <1>2, <1>3 DEF Inv

LEMMA StutterInv == Inv /\ UNCHANGED vars => Inv'
<1> SUFFICES ASSUME Inv, UNCHANGED vars
             PROVE  Inv'
  OBVIOUS
<1> USE DEF vars, daemon, pane, view, pings
<1>1. TypeOK'
  <2>1. FlagsOK'
    BY DEF Inv, TypeOK, FlagsOK
  <2>2. RangesOK'
    BY DEF Inv, TypeOK, RangesOK
  <2> QED
    BY <2>1, <2>2 DEF TypeOK
<1>2. Idle' /\ Counting'
  BY DEF Inv, Idle, Counting
<1>3. ASSUME up', slips' = {}
      PROVE  OnItsWay'
  <2>1. OnItsWay
    BY <1>3 DEF Inv
  <2>2. NoReplyAhead' /\ LateComesFirst'
    BY <2>1 DEF OnItsWay, NoReplyAhead, LateComesFirst
  <2>3. Info(tabletOn)' = Info(tabletOn)
    BY DEF Info
  <2>4. LastIsTrue'
    BY <2>1, <2>3 DEF OnItsWay, LastIsTrue
  <2>5. Agrees' <=> Agrees
    BY DEF Agrees, Meant
  <2>6. Awaited' <=> Awaited
    BY DEF Awaited, Has
  <2>7. Promised' /\ Ignoring'
    BY <2>1, <2>5, <2>6 DEF OnItsWay, Promised, Ignoring, Has
  <2> QED
    BY <2>2, <2>4, <2>7 DEF OnItsWay
<1> QED
  BY <1>1, <1>2, <1>3 DEF Inv

LEMMA NextInv == Inv /\ [Next]_vars => Inv'
<1> SUFFICES ASSUME Inv, [Next]_vars
             PROVE  Inv'
  OBVIOUS
<1> QED
  BY DaemonStartsStep, ScanReplyStep, ScanEndsStep, WakesStep, SettingsReplyStep,
     ReplyLostStep, DaemonEndsStep, HandleLateStep, AnsweredStep, GivenUpStep, NoPortStep, OpenStep,
     DidSelectStep, WillUnselectStep, PingStep, ToggledDaemonStep,
     RequestCurrentSettingsStep, SendOtherCommandStep, SendReadCommandStep, StutterInv
  DEF Next

\* Every variable of the daemon and the pane keeps its type.
THEOREM TypeCorrect == Spec => []TypeOK
<1>1. Inv => TypeOK
  BY DEF Inv
<1> QED
  BY <1>1, InitInv, NextInv, PTL DEF Spec

\* In every history, once nothing is on its way from a running daemon, the Enabled
\* checkbox says whether the tablet is on, if nothing slipped since the daemon
\* started.
THEOREM CheckboxAgreesHolds == Spec => []CheckboxAgrees
<1>1. Inv => CheckboxAgrees
  <2> SUFFICES ASSUME Inv, up, todo = <<>>, NothingDue, shows = "tablet", slips = {}
               PROVE  (check = "on") <=> tabletOn
    BY DEF CheckboxAgrees
  <2>1. ~Awaited
    <3>1. todo # <<"command">> /\ Len(inbox) = 0
      BY DEF NothingDue
    <3> QED
      BY <3>1 DEF Awaited, Has, NothingDue
  <2> QED
    BY <2>1, NewTodos DEF Inv, OnItsWay, Promised, Agrees, Meant, NothingDue
<1> QED
  BY <1>1, InitInv, NextInv, PTL DEF Spec
=============================================================================
