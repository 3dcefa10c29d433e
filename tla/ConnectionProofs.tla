-------------------------- MODULE ConnectionProofs --------------------------
(***************************************************************************)
(* Theorems about Connection, for timer queues of any length and any bound *)
(* on events and pending commands.                                         *)
(***************************************************************************)
EXTENDS Connection, SequenceTheorems, TLAPS

(* The network has been started: step 4 of a master is connectToWifi.      *)
NetworkUp == role = "MASTER" /\ made >= 4

LEMMA StepsFacts ==
  ASSUME NEW r \in Roles
  PROVE  /\ Len(Steps(r)) \in Nat
         /\ \A i \in 1 .. Len(Steps(r)) :
              (Steps(r)[i] = "wifi") <=> r = "MASTER" /\ i = 4
         /\ r = "MASTER" => Len(Steps(r)) = 10 /\ Steps(r)[1] = "timers"
BY DEF Roles, Steps, LoopSteps, NetworkSteps

LEMMA UpHasTimers == ASSUME TypeOK, NetworkUp PROVE Has("timers")
BY StepsFacts DEF TypeOK, NetworkUp, Has, Roles

LEMMA JobFacts ==
  /\ GotIp \in WifiJobs \ {<<>>} /\ Lost \in WifiJobs \ {<<>>}
  /\ \A j \in WifiJobs : j # <<>> => Tail(j) \in WifiJobs
  /\ Connected \in MqttJobs \ {<<>>} /\ Tail(Connected) \in MqttJobs \ {<<>>}
  /\ Tail(Tail(Connected)) = <<>> /\ Tail(Connected) # Connected
  /\ Head(Connected) = "announce" /\ Head(Tail(Connected)) = "subscribe"
  /\ \A j \in MqttJobs : j # <<>> => Tail(j) \in MqttJobs
BY DEF WifiJobs, GotIp, Lost, Connected, MqttJobs

LEMMA EmptyJob == <<>> \in WifiJobs /\ <<>> \in MqttJobs
BY DEF WifiJobs, MqttJobs

LEMMA CommandTyped ==
  ASSUME TypeOK, NEW c \in TimerCommand, Command(c)
  PROVE  commands' \in Seq(TimerCommand) /\ Len(commands') <= TimerQueueLength
BY TimerAssumption DEF TypeOK, Command

LEMMA RaiseTyped ==
  ASSUME TypeOK, NEW e \in Events, Raise(e)
  PROVE  events' \in Seq(Events) /\ Len(events') <= MaxEvents
BY TimerAssumption DEF TypeOK, Raise

LEMMA EventsTail ==
  ASSUME TypeOK, events # <<>>
  PROVE  /\ Tail(events) \in Seq(Events) /\ Len(Tail(events)) <= MaxEvents
         /\ Head(events) \in Events
BY TimerAssumption DEF TypeOK

LEMMA CommandsTail ==
  ASSUME TypeOK, commands # <<>>
  PROVE  /\ Tail(commands) \in Seq(TimerCommand)
         /\ Len(Tail(commands)) <= TimerQueueLength
         /\ Head(commands).timer \in Timers
<1>1. /\ Tail(commands) \in Seq(TimerCommand)
      /\ Len(Tail(commands)) <= TimerQueueLength
      /\ Head(commands) \in TimerCommand
  BY TimerAssumption DEF TypeOK
<1> QED BY <1>1 DEF TimerCommand

LEMMA ResetTyped ==
  ASSUME TypeOK, Reset, missing' \in Things \cup {Nothing}
  PROVE  TypeOK'
<1>1. /\ role' \in Roles /\ made' \in 0 .. Len(Steps(role'))
  BY StepsFacts DEF TypeOK, Reset
<1>2. events' \in Seq(Events) /\ Len(events') <= MaxEvents
      /\ commands' \in Seq(TimerCommand) /\ Len(commands') <= TimerQueueLength
  BY TimerAssumption DEF Reset
<1>3. wifiJob' \in WifiJobs /\ mqttJob' \in MqttJobs
  BY EmptyJob DEF Reset
<1>4. active' \in [Timers -> BOOLEAN] /\ heard' \subseteq Subscribed
  BY DEF Reset
<1> QED BY <1>1, <1>2, <1>3, <1>4 DEF TypeOK, Reset

LEMMA UseTyped ==
  ASSUME TypeOK, NEW things \in SUBSET Things, Use(things)
  PROVE  TypeOK'
<1>1. CASE UNCHANGED vars
  BY <1>1 DEF TypeOK, vars, boot, wifi, timers, client
<1>2. CASE Crash(things)
  BY <1>2, ResetTyped DEF Crash, Missing
<1> QED BY <1>1, <1>2 DEF Use

LEMMA InitTyped == Init => TypeOK
<1> SUFFICES ASSUME Init PROVE TypeOK
  OBVIOUS
<1>1. role \in Roles /\ made \in 0 .. Len(Steps(role))
  BY StepsFacts DEF Init
<1>2. events \in Seq(Events) /\ Len(events) <= MaxEvents
      /\ commands \in Seq(TimerCommand) /\ Len(commands) <= TimerQueueLength
  BY TimerAssumption DEF Init
<1>3. wifiJob \in WifiJobs /\ mqttJob \in MqttJobs
  BY EmptyJob DEF Init
<1>4. active \in [Timers -> BOOLEAN]
  BY DEF Init
<1> QED BY <1>1, <1>2, <1>3, <1>4 DEF Init, TypeOK

LEMMA NetworkTyped ==
  ASSUME TypeOK, Reboot \/ Setup \/ Unsettle \/ Join \/ LinkLost \/ AutoReconnect
  PROVE  TypeOK'
<1>1. CASE Reboot
  BY <1>1 DEF Reboot, TypeOK, wifi, timers, client
<1>2. CASE Setup
  BY <1>2, StepsFacts DEF Setup, TypeOK, timers, client, connectToWifi
<1>3. CASE Unsettle
  BY <1>3 DEF Unsettle, TypeOK, boot, wifi, timers, client
<1>4. CASE Join
  <2>1. events' \in Seq(Events) /\ Len(events') <= MaxEvents
    BY <1>4, RaiseTyped DEF Join, Events
  <2> QED BY <1>4, <2>1 DEF Join, TypeOK, boot, timers, client
<1>5. CASE LinkLost
  <2>1. events' \in Seq(Events) /\ Len(events') <= MaxEvents
    BY <1>5, RaiseTyped DEF LinkLost, Events
  <2>2. mqtt' \in {"disconnected", "connecting", "connected", "broken"}
    BY <1>5 DEF LinkLost, TypeOK
  <2> QED BY <1>5, <2>1, <2>2 DEF LinkLost, TypeOK, boot, timers
<1>6. CASE AutoReconnect
  BY <1>6 DEF AutoReconnect, TypeOK, boot, timers, client
<1> QED BY <1>1, <1>2, <1>3, <1>4, <1>5, <1>6

LEMMA EventTaskTyped == ASSUME TypeOK, EventTask PROVE TypeOK'
<1>1. CASE TakeEvent
  <2>1. wifiJob' \in WifiJobs /\ isConnected' \in BOOLEAN
    BY <1>1, JobFacts DEF TakeEvent
  <2> QED BY <1>1, <2>1, EventsTail DEF TakeEvent, TypeOK, boot, timers, client
<1>2. CASE EventConnects
  <2>1. wifiJob' \in WifiJobs
    BY <1>2, JobFacts DEF EventConnects, NextInWifi, WifiDone, TypeOK
  <2>2. mqtt' \in {"disconnected", "connecting", "connected", "broken"}
    BY <1>2 DEF EventConnects, connectToMqtt, TypeOK
  <2> QED BY <1>2, <2>1, <2>2 DEF EventConnects, TypeOK, boot, timers
<1>3. CASE EventServes
  <2>1. wifiJob' \in WifiJobs /\ listening' \in BOOLEAN
    BY <1>3, JobFacts DEF EventServes, NextInWifi, WifiDone, TypeOK
  <2> QED BY <1>3, <2>1 DEF EventServes, TypeOK, boot, timers, client
<1>4. CASE EventCommands
  <2>1. CASE Has("timers")
    <3>1. wifiJob' \in WifiJobs
      BY <1>4, <2>1, JobFacts DEF EventCommands, NextInWifi, WifiDone, TypeOK
    <3>2. Stop("mqtt") \in TimerCommand /\ Start("wifi") \in TimerCommand
      BY DEF Stop, Start, TimerCommand, Timers
    <3>3. commands' \in Seq(TimerCommand) /\ Len(commands') <= TimerQueueLength
      BY <1>4, <2>1, <3>2, CommandTyped DEF EventCommands
    <3> QED BY <1>4, <2>1, <3>1, <3>3 DEF EventCommands, TypeOK, boot, client
  <2>2. CASE ~Has("timers")
    BY <1>4, <2>2, ResetTyped DEF EventCommands, Crash, Missing, Things
  <2> QED BY <2>1, <2>2
<1> QED BY <1>1, <1>2, <1>3, <1>4 DEF EventTask

LEMMA DaemonTyped == ASSUME TypeOK, Daemon PROVE TypeOK'
<1>1. CASE TimerTakes
  <2>1. active' \in [Timers -> BOOLEAN]
    BY <1>1 DEF TimerTakes, TypeOK
  <2> QED BY <1>1, <2>1, CommandsTail DEF TimerTakes, TypeOK, boot, wifi, client
<1>2. CASE WifiTimerExpires
  BY <1>2 DEF WifiTimerExpires, connectToWifi, TypeOK, boot, client
<1>3. CASE MqttTimerExpires
  BY <1>3 DEF MqttTimerExpires, connectToMqtt, TypeOK, boot, wifi
<1> QED BY <1>1, <1>2, <1>3 DEF Daemon

LEMMA MqttTaskTyped == ASSUME TypeOK, MqttTask PROVE TypeOK'
<1>1. CASE MqttConnects
  BY <1>1, JobFacts DEF MqttConnects, TypeOK, boot, wifi, timers
<1>2. CASE onMqttConnect
  <2>1. mqttJob' \in MqttJobs
    BY <1>2, JobFacts DEF onMqttConnect, TypeOK
  <2>2. announced' \subseteq hassConfig /\ heard' \subseteq Subscribed
    BY <1>2 DEF onMqttConnect, TypeOK
  <2> QED BY <1>2, <2>1, <2>2 DEF onMqttConnect, TypeOK, boot, wifi, timers
<1>3. CASE MqttDisconnects
  <2>1. <<"ask">> \in MqttJobs
    BY DEF MqttJobs
  <2> QED BY <1>3, <2>1 DEF MqttDisconnects, TypeOK, boot, wifi, timers
<1>4. CASE onMqttDisconnect
  <2>1. mqttJob' \in MqttJobs
    BY <1>4 DEF onMqttDisconnect, MqttJobs
  <2>2. Start("mqtt") \in TimerCommand
    BY DEF Start, TimerCommand, Timers
  <2>3. commands' \in Seq(TimerCommand) /\ Len(commands') <= TimerQueueLength
    BY <1>4, <2>2, CommandTyped DEF onMqttDisconnect, TypeOK
  <2> QED BY <1>4, <2>1, <2>3 DEF onMqttDisconnect, TypeOK, boot, wifi
<1> QED BY <1>1, <1>2, <1>3, <1>4 DEF MqttTask

LEMMA RequestTyped ==
  ASSUME TypeOK, onMqttMessage \/ HttpRequest \/ BusMessage
  PROVE  TypeOK'
<1>1. /\ {"control_q"} \in SUBSET Things /\ {"models"} \in SUBSET Things
      /\ {"io"} \in SUBSET Things /\ {"models", "control_q"} \in SUBSET Things
  BY DEF Things
<1>2. CASE Reset /\ UNCHANGED missing
  BY <1>2, ResetTyped DEF TypeOK
<1> QED BY <1>1, <1>2, UseTyped DEF onMqttMessage, HttpRequest, BusMessage

LEMMA StepTyped == TypeOK /\ [Next]_vars => TypeOK'
<1> SUFFICES ASSUME TypeOK, [Next]_vars PROVE TypeOK'
  OBVIOUS
<1>1. CASE UNCHANGED vars
  BY <1>1 DEF vars, TypeOK, boot, wifi, timers, client
<1> QED BY <1>1, NetworkTyped, EventTaskTyped, DaemonTyped, MqttTaskTyped, RequestTyped
        DEF Next

(* Every variable keeps its type: no handler is started on top of another, *)
(* and the queue of the timer daemon does not exceed its length.           *)
THEOREM TypeCorrect == Spec => []TypeOK
BY InitTyped, StepTyped, PTL DEF Spec
-----------------------------------------------------------------------------
(* Whatever the network causes comes after connectToWifi in setup, and so  *)
(* after the timers have been created; a reset ends all of it.             *)
Active ==
  \/ station # "down" \/ events # <<>> \/ wifiJob # <<>>
  \/ commands # <<>> \/ \E t \in Timers : active[t]
  \/ mqtt # "disconnected" \/ mqttJob # <<>>
NetInv == (Active => NetworkUp) /\ TimersReady

LEMMA QuietStep ==
  ASSUME NetInv, NetworkUp, UNCHANGED <<role, made, missing>>
  PROVE  NetInv'
BY DEF NetInv, NetworkUp, TimersReady

LEMMA CrashStep ==
  ASSUME NetInv, NEW things \in SUBSET (Things \ {"timers"}), Use(things)
  PROVE  NetInv'
<1>1. CASE UNCHANGED vars
  BY <1>1 DEF vars, boot, wifi, timers, client, NetInv, Active, NetworkUp, TimersReady
<1>2. CASE Crash(things)
  BY <1>2 DEF Crash, Missing, Things, Reset, NetInv, Active, TimersReady
<1> QED BY <1>1, <1>2 DEF Use

LEMMA HasWifi == ASSUME TypeOK, Has("wifi") PROVE NetworkUp
BY StepsFacts DEF TypeOK, Has, NetworkUp, Roles

LEMMA NetStep == TypeOK /\ NetInv /\ [Next]_vars => NetInv'
<1> SUFFICES ASSUME TypeOK, NetInv, [Next]_vars PROVE NetInv'
  OBVIOUS
<1>1. CASE UNCHANGED vars
  BY <1>1 DEF vars, boot, wifi, timers, client, NetInv, Active, NetworkUp, TimersReady
<1>2. CASE Reboot
  BY <1>2 DEF Reboot, wifi, timers, client, NetInv, Active, NetworkUp, TimersReady, Nothing
<1>3. CASE Setup
  <2>1. CASE Steps(role)[made + 1] = "wifi"
    BY <1>3, <2>1, StepsFacts
       DEF Setup, TypeOK, timers, client, NetInv, NetworkUp, TimersReady
  <2>2. CASE Steps(role)[made + 1] # "wifi"
    BY <1>3, <2>2 DEF Setup, TypeOK, timers, client, NetInv, Active, NetworkUp, TimersReady
  <2> QED BY <2>1, <2>2
<1>4. CASE Unsettle
  BY <1>4 DEF Unsettle, boot, wifi, timers, client, NetInv, Active, NetworkUp, TimersReady
<1>5. CASE Join \/ LinkLost \/ AutoReconnect
  <2>1. NetworkUp
    BY <1>5, HasWifi DEF Join, LinkLost, AutoReconnect, NetInv, Active
  <2> QED BY <1>5, <2>1, QuietStep DEF Join, LinkLost, AutoReconnect, boot
<1>6. CASE EventTask
  <2>1. NetworkUp
    BY <1>6 DEF EventTask, TakeEvent, EventConnects, EventServes, EventCommands,
                NextInWifi, NetInv, Active
  <2>2. UNCHANGED boot
    BY <1>6, <2>1, UpHasTimers
       DEF EventTask, TakeEvent, EventConnects, EventServes, EventCommands
  <2> QED BY <2>1, <2>2, QuietStep DEF boot
<1>7. CASE Daemon
  <2>1. NetworkUp
    BY <1>7 DEF Daemon, TimerTakes, WifiTimerExpires, MqttTimerExpires, NetInv, Active,
                Timers
  <2> QED BY <1>7, <2>1, QuietStep
          DEF Daemon, TimerTakes, WifiTimerExpires, MqttTimerExpires, boot
<1>8. CASE MqttTask
  <2>1. NetworkUp
    BY <1>8 DEF MqttTask, MqttConnects, onMqttConnect, MqttDisconnects, onMqttDisconnect,
                NetInv, Active
  <2> QED BY <1>8, <2>1, QuietStep
          DEF MqttTask, MqttConnects, onMqttConnect, MqttDisconnects, onMqttDisconnect, boot
<1>9. CASE onMqttMessage \/ HttpRequest \/ BusMessage
  <2>1. CASE Reset /\ UNCHANGED missing
    BY <2>1 DEF Reset, NetInv, Active, TimersReady
  <2>2. /\ {"control_q"} \in SUBSET (Things \ {"timers"})
        /\ {"models"} \in SUBSET (Things \ {"timers"})
        /\ {"io"} \in SUBSET (Things \ {"timers"})
        /\ {"models", "control_q"} \in SUBSET (Things \ {"timers"})
    BY DEF Things
  <2> QED BY <1>9, <2>1, <2>2, CrashStep DEF onMqttMessage, HttpRequest, BusMessage
<1> QED BY <1>1, <1>2, <1>3, <1>4, <1>5, <1>6, <1>7, <1>8, <1>9 DEF Next

(* The network's handlers never use a timer that is not there yet, however *)
(* early an event comes after a reset.                                     *)
THEOREM TimersReadyAlways == Spec => []TimersReady
<1>1. Init => NetInv
  BY DEF Init, NetInv, Active, TimersReady, Nothing
<1>2. NetInv => TimersReady
  BY DEF NetInv
<1> QED BY <1>1, <1>2, NetStep, TypeCorrect, PTL DEF Spec
-----------------------------------------------------------------------------
(* What onMqttConnect has yet to do in a session, it has done the rest.    *)
HeardInv ==
  mqtt = "connected" =>
    \/ mqttJob = Connected
    \/ mqttJob = Tail(Connected) /\ announced = hassConfig
    \/ mqttJob = <<>> /\ announced = hassConfig /\ heard = Subscribed

LEMMA HeardReset == ASSUME Reset PROVE HeardInv'
BY DEF Reset, HeardInv

LEMMA HeardUse == ASSUME HeardInv, NEW things, Use(things) PROVE HeardInv'
BY HeardReset DEF Use, Crash, vars, client, HeardInv

LEMMA HeardStep == HeardInv /\ [Next]_vars => HeardInv'
<1> SUFFICES ASSUME HeardInv, [Next]_vars PROVE HeardInv'
  OBVIOUS
<1>1. CASE UNCHANGED vars
  BY <1>1 DEF vars, client, HeardInv
<1>2. CASE Reboot \/ Setup \/ Unsettle \/ Join \/ AutoReconnect
  BY <1>2 DEF Reboot, Setup, Unsettle, Join, AutoReconnect, client, HeardInv
<1>3. CASE LinkLost
  BY <1>3 DEF LinkLost, HeardInv
<1>4. CASE EventTask
  BY <1>4, HeardReset DEF EventTask, TakeEvent, EventConnects, EventServes, EventCommands,
     Crash, connectToMqtt, client, HeardInv
<1>5. CASE Daemon
  BY <1>5 DEF Daemon, TimerTakes, WifiTimerExpires, MqttTimerExpires, connectToMqtt,
     client, HeardInv
<1>6. CASE MqttConnects \/ MqttDisconnects
  BY <1>6 DEF MqttConnects, MqttDisconnects, HeardInv
<1>7. CASE onMqttConnect
  <2>1. CASE mqtt # "connected"
    BY <1>7, <2>1 DEF onMqttConnect, HeardInv
  <2>2. CASE mqttJob = Connected /\ mqtt = "connected"
    BY <1>7, <2>2, JobFacts DEF onMqttConnect, HeardInv
  <2>3. CASE mqttJob = Tail(Connected) /\ announced = hassConfig /\ mqtt = "connected"
    BY <1>7, <2>3, JobFacts DEF onMqttConnect, HeardInv
  <2> QED BY <1>7, <2>1, <2>2, <2>3 DEF onMqttConnect, HeardInv
<1>8. CASE onMqttDisconnect
  BY <1>8, JobFacts DEF onMqttDisconnect, HeardInv
<1>9. CASE onMqttMessage \/ HttpRequest \/ BusMessage
  BY <1>9, HeardReset, HeardUse DEF onMqttMessage, HttpRequest, BusMessage
<1> QED BY <1>1, <1>2, <1>3, <1>4, <1>5, <1>6, <1>7, <1>8, <1>9 DEF Next, MqttTask

(* In every session, once onMqttConnect is done, the board hears each      *)
(* command that it has announced, whatever came before.                    *)
THEOREM CommandsHeardAlways == Spec => []CommandsHeard
<1>1. Init => HeardInv
  BY DEF Init, HeardInv
<1>2. HeardInv => CommandsHeard
  BY JobFacts DEF HeardInv, CommandsHeard, hassConfig, Subscribed
<1> QED BY <1>1, <1>2, HeardStep, PTL DEF Spec
-----------------------------------------------------------------------------
(* The queue of the timer daemon, with commands c and timers a.            *)
Quiet(c, t, first) == \A i \in first .. Len(c) : c[i].timer # t
Runs(c, a, t) ==
  \/ a[t] /\ Quiet(c, t, 1)
  \/ \E i \in 1 .. Len(c) : c[i] = Start(t) /\ Quiet(c, t, i + 1)

LEMMA WillRunIs ==
  commands \in Seq(TimerCommand) => \A t : WillRun(t) <=> Runs(commands, active, t)
<1> SUFFICES ASSUME commands \in Seq(TimerCommand), NEW t
             PROVE  WillRun(t) <=> Runs(commands, active, t)
  OBVIOUS
<1>1. DOMAIN commands = 1 .. Len(commands)
  BY LenProperties
<1> QED BY <1>1 DEF WillRun, Runs, LeavesAlone, Quiet

LEMMA AppendIs ==
  ASSUME NEW c \in Seq(TimerCommand), NEW x \in TimerCommand
  PROVE  /\ Len(c) \in Nat /\ Len(Append(c, x)) = Len(c) + 1
         /\ \A i \in 1 .. Len(c) : Append(c, x)[i] = c[i]
         /\ Append(c, x)[Len(c) + 1] = x
BY AppendProperties, LenProperties

(* A command for the other timer, or one that starts t.                    *)
LEMMA AppendQuiet ==
  ASSUME NEW c \in Seq(TimerCommand), NEW x \in TimerCommand, NEW t,
         NEW n \in Nat \ {0}, Quiet(c, t, n), x.timer # t
  PROVE  Quiet(Append(c, x), t, n)
<1> DEFINE d == Append(c, x)
<1>1. /\ Len(c) \in Nat /\ Len(d) = Len(c) + 1
      /\ \A i \in 1 .. Len(c) : d[i] = c[i]
      /\ d[Len(c) + 1] = x
  BY AppendIs
<1> HIDE DEF d
<1>2. ASSUME NEW i \in n .. Len(d)
      PROVE  d[i].timer # t
  <2>1. CASE i = Len(c) + 1
    BY <1>1, <2>1
  <2>2. CASE i # Len(c) + 1
    <3>1. i \in n .. Len(c) /\ i \in 1 .. Len(c)
      BY <1>1, <2>2
    <3> QED BY <1>1, <3>1 DEF Quiet
  <2> QED BY <2>1, <2>2
<1> QED BY <1>2 DEF Quiet, d

LEMMA StartRuns ==
  ASSUME NEW c \in Seq(TimerCommand), NEW a, NEW t \in Timers
  PROVE  Runs(Append(c, Start(t)), a, t)
<1> DEFINE d == Append(c, Start(t))
<1>1. Start(t) \in TimerCommand
  BY DEF Start, TimerCommand
<1>2. Len(c) \in Nat /\ Len(d) = Len(c) + 1 /\ d[Len(c) + 1] = Start(t)
  BY <1>1, AppendIs
<1> HIDE DEF d
<1>3. Len(c) + 1 \in 1 .. Len(d) /\ Len(c) + 1 + 1 .. Len(d) = {}
  BY <1>2
<1> QED BY <1>2, <1>3 DEF Runs, Quiet, d

LEMMA AppendRuns ==
  ASSUME NEW c \in Seq(TimerCommand), NEW x \in TimerCommand, NEW a, NEW t \in Timers,
         Runs(c, a, t), x.timer # t
  PROVE  Runs(Append(c, x), a, t)
<1> DEFINE d == Append(c, x)
<1>1. /\ Len(c) \in Nat /\ Len(d) = Len(c) + 1
      /\ \A i \in 1 .. Len(c) : d[i] = c[i]
  BY AppendIs
<1>2. \A n \in Nat \ {0} : Quiet(c, t, n) => Quiet(d, t, n)
  BY AppendQuiet
<1> HIDE DEF d
<1>3. CASE a[t] /\ Quiet(c, t, 1)
  BY <1>2, <1>3 DEF Runs, d
<1>4. CASE \E i \in 1 .. Len(c) : c[i] = Start(t) /\ Quiet(c, t, i + 1)
  <2>1. PICK i \in 1 .. Len(c) : c[i] = Start(t) /\ Quiet(c, t, i + 1)
    BY <1>4
  <2>2. i \in 1 .. Len(d) /\ i + 1 \in Nat \ {0} /\ d[i] = Start(t)
    BY <1>1, <2>1
  <2>3. Quiet(d, t, i + 1)
    BY <1>2, <2>1, <2>2
  <2> QED BY <2>2, <2>3 DEF Runs, d
<1> QED BY <1>3, <1>4 DEF Runs

(* The daemon takes a command.                                             *)
LEMMA TakeRuns ==
  ASSUME NEW c \in Seq(TimerCommand), c # <<>>, NEW a \in [Timers -> BOOLEAN],
         NEW t \in Timers, Runs(c, a, t)
  PROVE  Runs(Tail(c), [a EXCEPT ![Head(c).timer] = (Head(c).do = "start")], t)
<1> DEFINE d == Tail(c)
           h == Head(c)
           b == [a EXCEPT ![h.timer] = (h.do = "start")]
<1>1. /\ Len(c) \in Nat /\ 1 \in 1 .. Len(c) /\ h = c[1] /\ h.timer \in Timers
      /\ Len(d) = Len(c) - 1 /\ Len(d) \in Nat
      /\ \A i \in 1 .. Len(d) : d[i] = c[i + 1]
  <2>1. Len(c) \in Nat /\ Len(c) # 0
    BY LenProperties, EmptySeq
  <2>2. h \in TimerCommand
    BY HeadTailProperties
  <2> QED BY <2>1, <2>2, HeadTailProperties, LenProperties DEF TimerCommand
<1> HIDE DEF d, h
<1>2. \A n \in Nat \ {0} : Quiet(c, t, n + 1) => Quiet(d, t, n)
  <2> SUFFICES ASSUME NEW n \in Nat \ {0}, Quiet(c, t, n + 1), NEW i \in n .. Len(d)
               PROVE  d[i].timer # t
    BY DEF Quiet
  <2>1. i \in 1 .. Len(d) /\ i + 1 \in n + 1 .. Len(c)
    BY <1>1
  <2> QED BY <1>1, <2>1 DEF Quiet
<1>3. b[t] = IF h.timer = t THEN h.do = "start" ELSE a[t]
  BY <1>1
<1> HIDE DEF b
<1>4. CASE a[t] /\ Quiet(c, t, 1)
  <2>1. h.timer # t
    BY <1>1, <1>4 DEF Quiet
  <2>2. Quiet(c, t, 1 + 1)
    BY <1>4 DEF Quiet
  <2>3. Quiet(d, t, 1) /\ b[t]
    BY <1>2, <1>3, <1>4, <2>1, <2>2
  <2> QED BY <2>3 DEF Runs, b, d, h
<1>5. ASSUME NEW i \in 1 .. Len(c), c[i] = Start(t), Quiet(c, t, i + 1)
      PROVE  Runs(d, b, t)
  <2>1. CASE i = 1
    <3>1. h.timer = t /\ h.do = "start"
      BY <1>1, <1>5, <2>1 DEF Start
    <3>2. Quiet(d, t, 1)
      BY <1>2, <1>5, <2>1
    <3> QED BY <1>3, <3>1, <3>2 DEF Runs
  <2>2. CASE i # 1
    <3>1. i - 1 \in 1 .. Len(d) /\ (i - 1) + 1 = i /\ i \in Nat \ {0}
      BY <1>1, <2>2
    <3>2. d[i - 1] = Start(t) /\ Quiet(d, t, i)
      BY <1>1, <1>2, <1>5, <3>1
    <3> QED BY <3>1, <3>2 DEF Runs
  <2> QED BY <2>1, <2>2
<1> QED BY <1>4, <1>5 DEF Runs, b, d, h
-----------------------------------------------------------------------------
(* The commands that callbacks have yet to give find room in the queue, if *)
(* it is long enough for what may be pending when a callback begins.       *)
Fits == MaxLag + 3 <= TimerQueueLength

LosesWifi == {Lost, Tail(Lost), Tail(Tail(Lost))}
LosesMqtt == {<<"ask">>, <<"start_mqtt">>}
WifiCommands ==
  IF wifiJob \in {Lost, Tail(Lost)} THEN 2
  ELSE IF wifiJob = Tail(Tail(Lost)) THEN 1 ELSE 0
MqttCommands == IF mqttJob \in LosesMqtt THEN 1 ELSE 0
RoomInv == Len(commands) + WifiCommands + MqttCommands <= MaxLag + 3

(* While WiFiEvent handles a loss, it counts as lost.                      *)
LostInv == wifiJob \in LosesWifi => ~isConnected

(* Who will try again: the event that has yet to be handled, WiFiEvent, or *)
(* a timer.                                                                *)
WifiInv ==
  NetworkUp /\ station = "down" =>
    \/ events # <<>> /\ events[Len(events)] = "lost"
    \/ wifiJob \in LosesWifi
    \/ Runs(commands, active, "wifi")
MqttInv ==
  isConnected /\ mqtt = "disconnected" =>
    \/ wifiJob = GotIp
    \/ mqttJob \in LosesMqtt
    \/ Runs(commands, active, "mqtt")
RetryInv == RoomInv /\ LostInv /\ WifiInv /\ MqttInv

LEMMA Jobs ==
  /\ GotIp # <<>> /\ Head(GotIp) = "connectToMqtt"
  /\ Tail(GotIp) # <<>> /\ Head(Tail(GotIp)) = "begin" /\ Tail(Tail(GotIp)) = <<>>
  /\ Lost # <<>> /\ Head(Lost) = "end"
  /\ Tail(Lost) # <<>> /\ Head(Tail(Lost)) = "stop_mqtt"
  /\ Tail(Tail(Lost)) # <<>> /\ Head(Tail(Tail(Lost))) = "start_wifi"
  /\ Tail(Tail(Tail(Lost))) = <<>>
  /\ Connected # <<>> /\ Head(Connected) = "announce"
  /\ Tail(Connected) # <<>> /\ Head(Tail(Connected)) = "subscribe"
  /\ Tail(Tail(Connected)) = <<>>
  /\ <<"ask">> # <<>> /\ Head(<<"ask">>) = "ask"
  /\ <<"start_mqtt">> # <<>> /\ Head(<<"start_mqtt">>) = "start_mqtt"
BY DEF GotIp, Lost, Connected

LEMMA RetryReset == ASSUME TypeOK, Reset PROVE RetryInv'
<1>1. /\ commands' = <<>> /\ wifiJob' = <<>> /\ mqttJob' = <<>> /\ made' = 0
      /\ isConnected' = FALSE
  BY DEF Reset
<1>2. Len(<<>>) = 0
  OBVIOUS
<1>3. <<>> \notin LosesWifi /\ <<>> \notin LosesMqtt /\ <<>> # Lost /\ <<>> # Tail(Lost)
      /\ <<>> # Tail(Tail(Lost))
  BY Jobs DEF LosesWifi, LosesMqtt
<1>4. RoomInv'
  BY <1>1, <1>2, <1>3, TimerAssumption DEF RoomInv, WifiCommands, MqttCommands
<1>5. ~NetworkUp'
  BY <1>1 DEF NetworkUp
<1> QED BY <1>1, <1>3, <1>4, <1>5 DEF RetryInv, LostInv, WifiInv, MqttInv

LEMMA RetryUse == ASSUME TypeOK, RetryInv, NEW things, Use(things) PROVE RetryInv'
<1>1. CASE UNCHANGED vars
  BY <1>1 DEF vars, boot, wifi, timers, client, RetryInv, RoomInv, WifiCommands,
     MqttCommands, LostInv, WifiInv, MqttInv, NetworkUp
<1>2. CASE Crash(things)
  BY <1>2, RetryReset DEF Crash
<1> QED BY <1>1, <1>2 DEF Use

(* The network, with setup.                                                *)
LEMMA RetryNetwork ==
  ASSUME TypeOK, RetryInv,
         Reboot \/ Setup \/ Unsettle \/ Join \/ LinkLost \/ AutoReconnect
  PROVE  RetryInv'
<1>1. UNCHANGED <<wifiJob, mqttJob, isConnected, commands, active>>
  BY DEF Reboot, Setup, Unsettle, Join, LinkLost, AutoReconnect, wifi, timers, client
<1>2. RoomInv' /\ LostInv'
  BY <1>1 DEF RetryInv, RoomInv, WifiCommands, MqttCommands, LostInv
<1>3. MqttInv'
  <2>1. mqtt' = "disconnected" => mqtt = "disconnected"
    BY DEF Reboot, Setup, Unsettle, Join, LinkLost, AutoReconnect, client
  <2> QED BY <1>1, <2>1 DEF RetryInv, MqttInv
<1>4. WifiInv'
  <2>1. CASE Reboot \/ Unsettle
    BY <1>1, <2>1 DEF Reboot, Unsettle, boot, wifi, RetryInv, WifiInv, NetworkUp
  <2>2. CASE AutoReconnect
    BY <2>2 DEF AutoReconnect, WifiInv
  <2>3. CASE Setup
    <3>1. /\ made' = made + 1 /\ role' = role /\ events' = events
          /\ station' = IF Steps(role)[made + 1] = "wifi" THEN connectToWifi ELSE station
      BY <2>3 DEF Setup
    <3>2. made \in Nat /\ made + 1 \in 1 .. Len(Steps(role)) /\ role \in Roles
      BY <2>3, StepsFacts DEF Setup, TypeOK
    <3>3. CASE Steps(role)[made + 1] = "wifi"
      <4>1. station' # "down"
        BY <3>1, <3>3 DEF connectToWifi
      <4> QED BY <4>1 DEF WifiInv
    <3>4. CASE Steps(role)[made + 1] # "wifi"
      <4>1. ~(role = "MASTER" /\ made + 1 = 4)
        BY <3>2, <3>4, StepsFacts
      <4>2. NetworkUp' => NetworkUp
        BY <3>1, <3>2, <4>1 DEF NetworkUp
      <4>3. station' = station
        BY <3>1, <3>4
      <4> QED BY <1>1, <3>1, <4>2, <4>3 DEF RetryInv, WifiInv
    <3> QED BY <3>3, <3>4
  <2>4. ASSUME Raise("lost")
        PROVE  events' # <<>> /\ events'[Len(events')] = "lost"
    <3>1. events \in Seq(Events) /\ "lost" \in Events /\ events' = Append(events, "lost")
      BY <2>4 DEF TypeOK, Events, Raise
    <3>2. Append(events, "lost") # <<>> /\ Len(events) \in Nat
          /\ Len(Append(events, "lost")) = Len(events) + 1
          /\ Append(events, "lost")[Len(events) + 1] = "lost"
      BY <3>1, AppendProperties, LenProperties
    <3> QED BY <3>1, <3>2
  <2>5. CASE Join
    BY <2>4, <2>5 DEF Join, WifiInv
  <2>6. CASE LinkLost
    BY <2>4, <2>6 DEF LinkLost, WifiInv
  <2> QED BY <2>1, <2>2, <2>3, <2>5, <2>6
<1> QED BY <1>2, <1>3, <1>4 DEF RetryInv

LEMMA RetryEvents == ASSUME Fits, TypeOK, RetryInv, EventTask PROVE RetryInv'
<1>1. /\ commands \in Seq(TimerCommand) /\ Len(commands) \in Nat
      /\ events \in Seq(Events) /\ Len(events) \in Nat
  BY LenProperties DEF TypeOK
<1>2. CASE TakeEvent
  <2>1. /\ wifiJob = <<>> /\ events # <<>> /\ Len(commands) <= MaxLag
        /\ events' = Tail(events)
        /\ isConnected' = (Head(events) = "got_ip")
        /\ wifiJob' = IF Head(events) = "got_ip" THEN GotIp ELSE Lost
        /\ UNCHANGED <<role, made, station, commands, active, mqtt, mqttJob>>
    BY <1>2 DEF TakeEvent, boot, timers, client
  <2>2. /\ Len(events) # 0 /\ Head(events) = events[1]
        /\ Len(Tail(events)) = Len(events) - 1
        /\ \A i \in 1 .. Len(Tail(events)) : Tail(events)[i] = events[i + 1]
    BY <1>1, <2>1, HeadTailProperties, EmptySeq
  <2>3. RoomInv'
    <3>1. WifiCommands' \in 0 .. 2 /\ MqttCommands' \in 0 .. 1
      BY DEF WifiCommands, MqttCommands
    <3> QED BY <1>1, <2>1, <3>1, TimerAssumption DEF RoomInv
  <2>4. GotIp \notin LosesWifi
    BY Jobs DEF LosesWifi
  <2>5. LostInv'
    BY <2>1, <2>4 DEF LostInv
  <2>6. MqttInv'
    BY <2>1 DEF MqttInv
  <2>7. WifiInv'
    <3> SUFFICES ASSUME NetworkUp, station = "down"
                 PROVE  \/ events' # <<>> /\ events'[Len(events')] = "lost"
                        \/ wifiJob' \in LosesWifi
                        \/ Runs(commands, active, "wifi")
      BY <2>1 DEF WifiInv, NetworkUp
    <3>1. wifiJob \notin LosesWifi
      BY <2>1, Jobs DEF LosesWifi
    <3>2. events[Len(events)] = "lost" \/ Runs(commands, active, "wifi")
      BY <3>1 DEF RetryInv, WifiInv
    <3>3. CASE events[Len(events)] = "lost" /\ Len(events) = 1
      BY <2>1, <2>2, <3>3 DEF LosesWifi
    <3>4. CASE events[Len(events)] = "lost" /\ Len(events) # 1
      <4>1. /\ Len(Tail(events)) \in 1 .. Len(Tail(events)) /\ Len(Tail(events)) # 0
            /\ Len(Tail(events)) + 1 = Len(events)
        BY <1>1, <2>2, <3>4
      <4>2. Tail(events)[Len(Tail(events))] = "lost"
        BY <2>2, <3>4, <4>1
      <4>3. Tail(events) # <<>>
        <5>1. Len(<<>>) = 0
          OBVIOUS
        <5> QED BY <4>1, <5>1
      <4> QED BY <2>1, <4>2, <4>3
    <3> QED BY <3>2, <3>3, <3>4
  <2> QED BY <2>3, <2>5, <2>6, <2>7 DEF RetryInv
<1>3. CASE EventConnects
  <2>1. /\ wifiJob # <<>> /\ Head(wifiJob) = "connectToMqtt" /\ wifiJob' = Tail(wifiJob)
        /\ mqtt' = connectToMqtt
        /\ UNCHANGED <<role, made, station, events, isConnected, commands, active, mqttJob>>
    BY <1>3 DEF EventConnects, NextInWifi, WifiDone, boot, timers
  <2>2. wifiJob = GotIp
    BY <2>1, Jobs DEF TypeOK, WifiJobs
  <2>3. wifiJob \notin LosesWifi /\ wifiJob' \notin LosesWifi
    BY <2>1, <2>2, Jobs DEF LosesWifi
  <2>4. WifiCommands = 0 /\ WifiCommands' = 0
    BY <2>3 DEF WifiCommands, LosesWifi
  <2>5. mqtt' # "disconnected"
    BY <2>1 DEF connectToMqtt
  <2> QED BY <2>1, <2>3, <2>4, <2>5
          DEF RetryInv, RoomInv, MqttCommands, LostInv, WifiInv, MqttInv, NetworkUp
<1>4. CASE EventServes
  <2>1. /\ wifiJob # <<>> /\ Head(wifiJob) \in {"begin", "end"} /\ wifiJob' = Tail(wifiJob)
        /\ UNCHANGED <<role, made, station, events, isConnected, commands, active, mqtt,
                      mqttJob>>
    BY <1>4 DEF EventServes, NextInWifi, WifiDone, boot, timers, client
  <2>2. wifiJob \in {Tail(GotIp), Lost}
    BY <2>1, Jobs DEF TypeOK, WifiJobs
  <2>3. CASE wifiJob = Lost
    <3>1. wifiJob \in LosesWifi /\ wifiJob' \in LosesWifi /\ ~isConnected
      BY <2>1, <2>3 DEF LosesWifi, RetryInv, LostInv
    <3>2. WifiCommands = 2 /\ WifiCommands' = 2
      BY <2>1, <2>3 DEF WifiCommands
    <3> QED BY <2>1, <3>1, <3>2
            DEF RetryInv, RoomInv, MqttCommands, LostInv, WifiInv, MqttInv, NetworkUp
  <2>4. CASE wifiJob = Tail(GotIp)
    <3>1. /\ wifiJob \notin LosesWifi /\ wifiJob' \notin LosesWifi /\ wifiJob # GotIp
      BY <2>1, <2>4, Jobs DEF LosesWifi
    <3>2. WifiCommands = 0 /\ WifiCommands' = 0
      BY <3>1 DEF WifiCommands, LosesWifi
    <3> QED BY <2>1, <3>1, <3>2
            DEF RetryInv, RoomInv, MqttCommands, LostInv, WifiInv, MqttInv, NetworkUp
  <2> QED BY <2>2, <2>3, <2>4
<1>5. CASE EventCommands /\ ~Has("timers")
  BY <1>5, RetryReset DEF EventCommands, Crash
<1>6. CASE EventCommands /\ Has("timers")
  <2>1. /\ wifiJob # <<>> /\ Head(wifiJob) \in {"stop_mqtt", "start_wifi"}
        /\ wifiJob' = Tail(wifiJob)
        /\ Command(IF Head(wifiJob) = "stop_mqtt" THEN Stop("mqtt") ELSE Start("wifi"))
        /\ UNCHANGED <<role, made, station, events, isConnected, active, mqtt, mqttJob>>
    BY <1>6 DEF EventCommands, NextInWifi, WifiDone, boot, client
  <2>2. wifiJob \in {Tail(Lost), Tail(Tail(Lost))}
    BY <2>1, Jobs DEF TypeOK, WifiJobs
  <2>3. ~isConnected /\ wifiJob \in LosesWifi
    BY <2>2 DEF RetryInv, LostInv, LosesWifi
  <2>4. MqttCommands \in 0 .. 1 /\ MqttCommands' = MqttCommands
    BY <2>1 DEF MqttCommands
  <2>5. Stop("mqtt") \in TimerCommand /\ Start("wifi") \in TimerCommand /\ "wifi" \in Timers
    BY DEF Stop, Start, TimerCommand, Timers
  <2>6. CASE wifiJob = Tail(Lost)
    <3>1. WifiCommands = 2 /\ Len(commands) + 2 + MqttCommands <= MaxLag + 3
      BY <2>6 DEF WifiCommands, RetryInv, RoomInv
    <3>2. Len(commands) < TimerQueueLength
      BY <1>1, <2>4, <3>1, TimerAssumption DEF Fits
    <3>3. commands' = Append(commands, Stop("mqtt")) /\ Head(wifiJob) = "stop_mqtt"
      BY <2>1, <2>6, <3>2, Jobs DEF Command
    <3>4. Len(commands') = Len(commands) + 1
      BY <1>1, <2>5, <3>3, AppendIs
    <3>5. wifiJob' = Tail(Tail(Lost)) /\ wifiJob' \in LosesWifi /\ wifiJob' # Lost
          /\ wifiJob' # Tail(Lost)
      BY <2>1, <2>6, Jobs DEF LosesWifi
    <3>6. WifiCommands' = 1
      BY <3>5 DEF WifiCommands
    <3>7. RoomInv'
      BY <1>1, <2>4, <3>1, <3>4, <3>6, TimerAssumption DEF RoomInv
    <3> QED BY <2>1, <2>3, <3>5, <3>7 DEF RetryInv, LostInv, WifiInv, MqttInv
  <2>7. CASE wifiJob = Tail(Tail(Lost))
    <3>0. wifiJob # Lost /\ wifiJob # Tail(Lost)
      BY <2>7, Jobs
    <3>1. WifiCommands = 1 /\ Len(commands) + 1 + MqttCommands <= MaxLag + 3
      BY <2>7, <3>0 DEF WifiCommands, RetryInv, RoomInv
    <3>2. Len(commands) < TimerQueueLength
      BY <1>1, <2>4, <3>1, TimerAssumption DEF Fits
    <3>3. commands' = Append(commands, Start("wifi"))
      BY <2>1, <2>7, <3>2, Jobs DEF Command
    <3>4. Len(commands') = Len(commands) + 1
      BY <1>1, <2>5, <3>3, AppendIs
    <3>5. wifiJob' = <<>> /\ wifiJob' \notin LosesWifi
      BY <2>1, <2>7, Jobs DEF LosesWifi
    <3>6. WifiCommands' = 0
      BY <3>5 DEF WifiCommands, LosesWifi
    <3>7. RoomInv'
      BY <1>1, <2>4, <3>1, <3>4, <3>6, TimerAssumption DEF RoomInv
    <3>8. Runs(commands', active', "wifi")
      BY <1>1, <2>5, <3>3, StartRuns
    <3> QED BY <2>1, <2>3, <3>5, <3>7, <3>8 DEF RetryInv, LostInv, WifiInv, MqttInv
  <2> QED BY <2>2, <2>6, <2>7
<1> QED BY <1>2, <1>3, <1>4, <1>5, <1>6 DEF EventTask

(* The timer daemon: a timer that expires starts an attempt.               *)
LEMMA RetryDaemon == ASSUME TypeOK, RetryInv, Daemon PROVE RetryInv'
<1>1. /\ commands \in Seq(TimerCommand) /\ Len(commands) \in Nat
      /\ active \in [Timers -> BOOLEAN] /\ "wifi" \in Timers /\ "mqtt" \in Timers
      /\ "wifi" # "mqtt"
  BY LenProperties DEF TypeOK, Timers
<1>2. /\ UNCHANGED <<role, made, events, isConnected, wifiJob, mqttJob>>
      /\ WifiCommands' = WifiCommands /\ MqttCommands' = MqttCommands
  BY DEF Daemon, TimerTakes, WifiTimerExpires, MqttTimerExpires, boot, wifi, client,
     WifiCommands, MqttCommands
<1>3. LostInv'
  BY <1>2 DEF RetryInv, LostInv
<1>4. WifiCommands \in 0 .. 2 /\ MqttCommands \in 0 .. 1
  BY DEF WifiCommands, MqttCommands
<1>5. CASE TimerTakes
  <2>1. /\ commands # <<>> /\ commands' = Tail(commands)
        /\ active' = [active EXCEPT ![Head(commands).timer] =
                                                      (Head(commands).do = "start")]
        /\ UNCHANGED <<station, mqtt>>
    BY <1>5 DEF TimerTakes, wifi, client
  <2>2. Len(commands') = Len(commands) - 1
    BY <1>1, <2>1, HeadTailProperties
  <2>3. RoomInv'
    BY <1>1, <1>2, <1>4, <2>2, TimerAssumption DEF RetryInv, RoomInv
  <2>4. \A t \in Timers : Runs(commands, active, t) => Runs(commands', active', t)
    BY <1>1, <2>1, TakeRuns
  <2>5. WifiInv'
    BY <1>1, <1>2, <2>1, <2>4 DEF RetryInv, WifiInv, NetworkUp
  <2>6. MqttInv'
    BY <1>1, <1>2, <2>1, <2>4 DEF RetryInv, MqttInv
  <2> QED BY <1>3, <2>3, <2>5, <2>6 DEF RetryInv
<1>6. CASE WifiTimerExpires
  <2>1. /\ active' = [active EXCEPT !["wifi"] = FALSE]
        /\ station' = connectToWifi /\ UNCHANGED <<commands, mqtt>>
    BY <1>6 DEF WifiTimerExpires, client
  <2>2. active'["mqtt"] = active["mqtt"] /\ station' # "down"
    BY <1>1, <2>1 DEF connectToWifi
  <2>3. Runs(commands, active, "mqtt") => Runs(commands', active', "mqtt")
    BY <2>1, <2>2 DEF Runs
  <2>4. MqttInv'
    BY <1>2, <2>1, <2>3 DEF RetryInv, MqttInv
  <2> QED BY <1>2, <1>3, <2>1, <2>2, <2>4 DEF RetryInv, RoomInv, WifiInv
<1>7. CASE MqttTimerExpires
  <2>1. /\ active' = [active EXCEPT !["mqtt"] = FALSE]
        /\ mqtt' = connectToMqtt /\ UNCHANGED <<commands, station>>
    BY <1>7 DEF MqttTimerExpires, wifi
  <2>2. active'["wifi"] = active["wifi"] /\ mqtt' # "disconnected"
    BY <1>1, <2>1 DEF connectToMqtt
  <2>3. Runs(commands, active, "wifi") => Runs(commands', active', "wifi")
    BY <2>1, <2>2 DEF Runs
  <2>4. WifiInv'
    BY <1>2, <2>1, <2>3 DEF RetryInv, WifiInv, NetworkUp
  <2> QED BY <1>2, <1>3, <2>1, <2>2, <2>4 DEF RetryInv, RoomInv, MqttInv
<1> QED BY <1>5, <1>6, <1>7 DEF Daemon

(* The callbacks of the client: onMqttDisconnect leaves the retry to the   *)
(* WiFi's events when there is no WiFi.                                    *)
LEMMA RetryMqtt == ASSUME Fits, TypeOK, RetryInv, MqttTask PROVE RetryInv'
<1>1. commands \in Seq(TimerCommand) /\ Len(commands) \in Nat
  BY LenProperties DEF TypeOK
<1>2. /\ UNCHANGED <<role, made, station, events, isConnected, wifiJob, active>>
      /\ WifiCommands' = WifiCommands
  BY DEF MqttTask, MqttConnects, onMqttConnect, MqttDisconnects, onMqttDisconnect,
     boot, wifi, timers, WifiCommands
<1>3. LostInv'
  BY <1>2 DEF RetryInv, LostInv
<1>4. WifiCommands \in 0 .. 2
  BY DEF WifiCommands
<1>5. CASE MqttConnects \/ onMqttConnect
  <2>1. commands' = commands
    BY <1>5 DEF MqttConnects, onMqttConnect, timers
  <2>2. mqttJob \notin LosesMqtt /\ mqttJob' \notin LosesMqtt
    <3>1. mqttJob \in {<<>>, Connected, Tail(Connected)}
      BY <1>5, Jobs DEF MqttConnects, onMqttConnect, TcpIdle, TypeOK, MqttJobs
    <3>2. mqttJob' \in {<<>>, Connected, Tail(Connected)}
      BY <1>5, <3>1, Jobs DEF MqttConnects, onMqttConnect
    <3>3. \A j \in {<<>>, Connected, Tail(Connected)} : j \notin LosesMqtt
      BY Jobs DEF LosesMqtt
    <3> QED BY <3>1, <3>2, <3>3
  <2>3. MqttCommands = 0 /\ MqttCommands' = 0
    BY <2>2 DEF MqttCommands
  <2>4. mqtt' = "disconnected" => mqtt = "disconnected"
    BY <1>5 DEF MqttConnects, onMqttConnect
  <2> QED BY <1>2, <1>3, <2>1, <2>2, <2>3, <2>4
          DEF RetryInv, RoomInv, WifiInv, MqttInv, NetworkUp
<1>6. CASE MqttDisconnects
  <2>1. Len(commands) <= MaxLag /\ commands' = commands /\ mqttJob' = <<"ask">>
    BY <1>6 DEF MqttDisconnects, timers
  <2>2. MqttCommands' = 1 /\ mqttJob' \in LosesMqtt
    BY <2>1 DEF MqttCommands, LosesMqtt
  <2>3. RoomInv'
    BY <1>1, <1>2, <1>4, <2>1, <2>2, TimerAssumption DEF RoomInv
  <2> QED BY <1>2, <1>3, <2>1, <2>2, <2>3 DEF RetryInv, WifiInv, MqttInv, NetworkUp
<1>7. CASE onMqttDisconnect
  <2>1. mqtt' = mqtt /\ mqttJob # <<>>
    BY <1>7 DEF onMqttDisconnect
  <2>2. <<>> \notin LosesMqtt
    BY Jobs DEF LosesMqtt
  <2>3. CASE Head(mqttJob) = "ask"
    <3>1. /\ mqttJob' = IF isConnected THEN <<"start_mqtt">> ELSE <<>>
          /\ commands' = commands /\ mqttJob \in LosesMqtt
      BY <1>7, <2>1, <2>3, Jobs DEF onMqttDisconnect, TypeOK, MqttJobs, LosesMqtt
    <3>2. MqttCommands = 1 /\ MqttCommands' \in 0 .. 1
      BY <3>1 DEF MqttCommands
    <3>3. RoomInv'
      BY <1>1, <1>2, <1>4, <3>1, <3>2, TimerAssumption DEF RetryInv, RoomInv
    <3>4. MqttInv'
      BY <1>2, <3>1 DEF MqttInv, LosesMqtt
    <3> QED BY <1>2, <1>3, <3>1, <3>3, <3>4 DEF RetryInv, WifiInv, NetworkUp
  <2>4. CASE Head(mqttJob) # "ask"
    <3>1. mqttJob' = <<>> /\ Command(Start("mqtt")) /\ mqttJob \in LosesMqtt
      BY <1>7, <2>1, <2>4, Jobs DEF onMqttDisconnect, TypeOK, MqttJobs, LosesMqtt
    <3>2. MqttCommands = 1 /\ MqttCommands' = 0
      BY <2>2, <3>1 DEF MqttCommands
    <3>3. Len(commands) < TimerQueueLength
      BY <1>1, <1>4, <3>2, TimerAssumption DEF Fits, RetryInv, RoomInv
    <3>4. /\ Start("mqtt") \in TimerCommand /\ Start("mqtt").timer = "mqtt"
          /\ "wifi" \in Timers /\ "mqtt" \in Timers /\ "wifi" # "mqtt"
      BY DEF Start, TimerCommand, Timers
    <3>5. commands' = Append(commands, Start("mqtt"))
      BY <3>1, <3>3 DEF Command
    <3>6. Len(commands') = Len(commands) + 1
      BY <1>1, <3>4, <3>5, AppendIs
    <3>7. RoomInv'
      BY <1>1, <1>2, <1>4, <3>2, <3>6, TimerAssumption DEF RetryInv, RoomInv
    <3>8. Runs(commands', active', "mqtt")
      BY <1>1, <3>4, <3>5, StartRuns
    <3>9. Runs(commands, active, "wifi") => Runs(commands', active', "wifi")
      BY <1>1, <1>2, <3>4, <3>5, AppendRuns
    <3>10. WifiInv'
      BY <1>2, <3>9 DEF RetryInv, WifiInv, NetworkUp
    <3> QED BY <1>3, <3>7, <3>8, <3>10 DEF RetryInv, MqttInv
  <2> QED BY <2>3, <2>4
<1> QED BY <1>5, <1>6, <1>7 DEF MqttTask

LEMMA RetryStep == Fits /\ TypeOK /\ RetryInv /\ [Next]_vars => RetryInv'
<1> SUFFICES ASSUME Fits, TypeOK, RetryInv, [Next]_vars PROVE RetryInv'
  OBVIOUS
<1>1. CASE UNCHANGED vars
  BY <1>1, RetryUse DEF Use, Missing, vars, boot, wifi, timers, client, RetryInv,
     RoomInv, WifiCommands, MqttCommands, LostInv, WifiInv, MqttInv, NetworkUp
<1>2. CASE onMqttMessage \/ HttpRequest \/ BusMessage
  BY <1>2, RetryReset, RetryUse DEF onMqttMessage, HttpRequest, BusMessage
<1> QED BY <1>1, <1>2, RetryNetwork, RetryEvents, RetryDaemon, RetryMqtt DEF Next

LEMMA RetryInit == Init => RetryInv
<1> SUFFICES ASSUME Init PROVE RetryInv
  OBVIOUS
<1>1. /\ commands = <<>> /\ wifiJob = <<>> /\ mqttJob = <<>> /\ made = 0
      /\ isConnected = FALSE
  BY DEF Init
<1>2. Len(<<>>) = 0
  OBVIOUS
<1>3. <<>> \notin LosesWifi /\ <<>> \notin LosesMqtt /\ <<>> # Lost /\ <<>> # Tail(Lost)
      /\ <<>> # Tail(Tail(Lost))
  BY Jobs DEF LosesWifi, LosesMqtt
<1>4. RoomInv
  BY <1>1, <1>2, <1>3, TimerAssumption DEF RoomInv, WifiCommands, MqttCommands
<1> QED BY <1>1, <1>3, <1>4 DEF RetryInv, LostInv, WifiInv, MqttInv, NetworkUp

LEMMA RetryEnough == TypeOK /\ RetryInv => RetryPending
<1> SUFFICES ASSUME TypeOK, RetryInv PROVE RetryPending
  OBVIOUS
<1>1. \A t : WillRun(t) <=> Runs(commands, active, t)
  BY WillRunIs DEF TypeOK
<1>2. <<>> \notin LosesWifi /\ <<>> \notin LosesMqtt /\ <<>> # GotIp
  BY Jobs DEF LosesWifi, LosesMqtt
<1>3. Has("wifi") => NetworkUp
  BY HasWifi
<1> QED BY <1>1, <1>2, <1>3 DEF RetryInv, WifiInv, MqttInv, RetryPending

(* No dead end, for queues of the timer daemon of any length that holds    *)
(* what may be pending when a callback begins and the three commands of    *)
(* the two callbacks: whatever the order of events, callbacks and timers,  *)
(* a board without WiFi or without MQTT will try again.                    *)
THEOREM RetryPendingAlways == ASSUME Fits PROVE Spec => []RetryPending
<1>1. RetryInv /\ TypeOK /\ [Next]_vars => RetryInv'
  BY Fits, RetryStep
<1> QED BY <1>1, RetryInit, RetryEnough, TypeCorrect, PTL DEF Spec
=============================================================================
