----------------------------- MODULE Connection -----------------------------
(***************************************************************************)
(* Start-up and the network (setup and WiFiEvent of src/main.cpp,          *)
(* master_loop of src/master.cpp, lib/mqtt/mqtt.cpp).                      *)
(*                                                                         *)
(*   setup          creates one thing after the other                      *)
(*   event task     runs WiFiEvent for the events of the WiFi              *)
(*   async_tcp      runs onMqttConnect, onMqttDisconnect, and the commands *)
(*   timer daemon   carries out xTimerStart and xTimerStop from its queue, *)
(*                  and runs connectToWifi and connectToMqtt               *)
(*   event_loop     runs QueueRecvCallback for the messages of the buses   *)
(*                                                                         *)
(* All of them run as soon as setup has started them, whatever else it has *)
(* yet to create.  Using what is not there is a null pointer: the board    *)
(* crashes and starts again.                                               *)
(*                                                                         *)
(* A handler is the sequence of operations it has yet to do, each of which *)
(* is one access to what another task changes too.                         *)
(***************************************************************************)
EXTENDS Naturals, Sequences

CONSTANTS
  TimerQueueLength,  \* 10
  MaxLag,            \* bound: timer commands pending when a callback begins
  MaxEvents          \* bound: WiFi events not yet handled

ASSUME TimerAssumption ==
  TimerQueueLength \in Nat \ {0} /\ MaxLag \in Nat /\ MaxEvents \in Nat \ {0}

Roles == {"MASTER", "SLAVE"}

(* What setup and master_loop make, in their order.  "tasks" are those of  *)
(* IOAbstraction, whose constructor starts them; "io" is its result.       *)
LoopSteps == <<"tasks", "io", "models", "control_q", "senders">>
NetworkSteps == <<"timers", "events", "callbacks", "wifi", "handlers">>

(* Mutant: the timers are created after the first connectToWifi.           *)
StepsTimersLate(r) ==
  IF r = "MASTER"
  THEN <<"events", "callbacks", "wifi", "timers", "handlers">> \o LoopSteps
  ELSE LoopSteps

Steps(r) == IF r = "MASTER" THEN NetworkSteps \o LoopSteps ELSE LoopSteps

Things == {"timers", "io", "models", "control_q"}
Nothing == "nothing"

Timers == {"wifi", "mqtt"}
TimerCommand == [do : {"start", "stop"}, timer : Timers]
Start(t) == [do |-> "start", timer |-> t]
Stop(t) == [do |-> "stop", timer |-> t]

(* hassConfig: the command topics of the entities Home Assistant is told.  *)
Lights == {"door", "tailgate", "inside_kitchen", "outside_kitchen"}
Controller == {<<"controller", c>> : c \in {"restart", "start", "stop"}}
Fridge == {<<"fridge", c>> : c \in {"command", "percentage_command"}}
hassConfig ==
  Controller \cup Fridge \cup {<<l, c>> : l \in Lights, c \in {"switch", "brightness"}}

(* What onMqttConnect subscribes to.                                       *)
Subscribed ==
  Controller \cup Fridge \cup {<<l, c>> : l \in Lights, c \in {"switch", "brightness"}}

VARIABLES
  role,         \* role of the board, kept in flash
  made,         \* number of steps of setup that are done
  missing,      \* what was used before it was made: the board has crashed
  station,      \* what the WiFi does: "down", "joining" or "up"
  stable,       \* attempts to connect succeed and connections last
  events,       \* WiFi events that the event task has yet to handle
  isConnected,  \* WiFi.isConnected(), set before WiFiEvent runs
  wifiJob,      \* what WiFiEvent has yet to do
  listening,    \* the web server runs
  commands,     \* the queue of the timer daemon
  active,       \* active[t] : timer t runs
  mqtt,         \* state of the MQTT client; "broken" while the client has not
                \*   noticed that its connection is gone
  mqttJob,      \* what a callback of the MQTT client has yet to do
  announced,    \* topics in retained discovery messages at the broker
  heard         \* topics the present session is subscribed to

boot == <<role, made, missing>>
wifi == <<station, events, isConnected, wifiJob, listening>>
timers == <<commands, active>>
client == <<mqtt, mqttJob, announced, heard>>
vars == <<boot, stable, wifi, timers, client>>

Events == {"got_ip", "lost"}
GotIp == <<"connectToMqtt", "begin">>
Lost == <<"end", "stop_mqtt", "start_wifi">>
WifiJobs == {<<>>, GotIp, Tail(GotIp), Lost, Tail(Lost), Tail(Tail(Lost))}
Connected == <<"announce", "subscribe">>
MqttJobs == {<<>>, Connected, Tail(Connected), <<"ask">>, <<"start_mqtt">>}

TypeOK ==
  /\ role \in Roles
  /\ made \in 0 .. Len(Steps(role))
  /\ missing \in Things \cup {Nothing}
  /\ station \in {"down", "joining", "up"}
  /\ stable \in BOOLEAN /\ isConnected \in BOOLEAN /\ listening \in BOOLEAN
  /\ events \in Seq(Events) /\ Len(events) <= MaxEvents
  /\ wifiJob \in WifiJobs /\ mqttJob \in MqttJobs
  /\ commands \in Seq(TimerCommand) /\ Len(commands) <= TimerQueueLength
  /\ active \in [Timers -> BOOLEAN]
  /\ mqtt \in {"disconnected", "connecting", "connected", "broken"}
  /\ announced \subseteq hassConfig
  /\ heard \subseteq Subscribed

Init ==
  /\ role \in Roles
  /\ made = 0 /\ missing = Nothing
  /\ station = "down" /\ stable \in BOOLEAN
  /\ events = <<>> /\ isConnected = FALSE /\ wifiJob = <<>> /\ listening = FALSE
  /\ commands = <<>> /\ active = [t \in Timers |-> FALSE]
  /\ mqtt = "disconnected" /\ mqttJob = <<>>
  /\ announced = {} /\ heard = {}

(* A crash or an abort() loses everything but the role.  The broker keeps  *)
(* what is retained.                                                       *)
Reset ==
  /\ made' = 0
  /\ station' = "down"
  /\ events' = <<>> /\ isConnected' = FALSE /\ wifiJob' = <<>> /\ listening' = FALSE
  /\ commands' = <<>> /\ active' = [t \in Timers |-> FALSE]
  /\ mqtt' = "disconnected" /\ mqttJob' = <<>> /\ heard' = {}
  /\ UNCHANGED <<role, stable, announced>>

Reboot ==
  /\ missing # Nothing
  /\ missing' = Nothing
  /\ UNCHANGED <<role, made, stable, wifi, timers, client>>
-----------------------------------------------------------------------------
Running == missing = Nothing
Has(thing) == \E i \in 1 .. made : Steps(role)[i] = thing

(* A task uses something: it crashes, or does what follows.                *)
Missing(things) == {x \in things : ~Has(x)}
Crash(things) == missing' \in Missing(things) /\ Reset

connectToWifi == IF station = "down" THEN "joining" ELSE station

(* connect() of the client does nothing unless it is disconnected.         *)
connectToMqtt == IF mqtt = "disconnected" THEN "connecting" ELSE mqtt

(* setup and master_loop make the next thing; connectToWifi is one of them.*)
Setup ==
  /\ Running
  /\ made < Len(Steps(role))
  /\ made' = made + 1
  /\ station' = IF Steps(role)[made + 1] = "wifi" THEN connectToWifi ELSE station
  /\ UNCHANGED <<role, missing, stable, events, isConnected, wifiJob, listening,
                 timers, client>>
-----------------------------------------------------------------------------
(* The WiFi.  Joining fails, and a connection ends, in an unstable network *)
(* only; both raise the event "lost".                                      *)
Raise(e) == Len(events) < MaxEvents /\ events' = Append(events, e)

Unsettle ==
  /\ stable' = ~stable
  /\ UNCHANGED <<boot, wifi, timers, client>>

Join ==
  /\ Running
  /\ station = "joining"
  /\ \/ station' = "up" /\ Raise("got_ip")
     \/ ~stable /\ station' = "down" /\ Raise("lost")
  /\ UNCHANGED <<boot, stable, isConnected, wifiJob, listening, timers, client>>

(* The connection to the broker goes with the WiFi, or outlives it.        *)
LinkLost ==
  /\ Running
  /\ ~stable /\ station = "up"
  /\ station' = "down"
  /\ Raise("lost")
  /\ mqtt' \in {mqtt, IF mqtt = "connected" THEN "broken" ELSE mqtt}
  /\ UNCHANGED <<boot, stable, isConnected, wifiJob, listening, timers,
                 mqttJob, announced, heard>>

(* The WiFi library tries to join again by itself.                         *)
AutoReconnect ==
  /\ Running
  /\ station = "down" /\ Has("wifi")
  /\ station' = "joining"
  /\ UNCHANGED <<boot, stable, events, isConnected, wifiJob, listening, timers,
                 client>>
-----------------------------------------------------------------------------
(* WiFiEvent, an operation at a time.                                      *)
(* Mutant: an event is handled on top of the one before it.                *)
TakeEventAtOnce ==
  /\ Running
  /\ events # <<>>
  /\ Len(commands) <= MaxLag
  /\ events' = Tail(events)
  /\ isConnected' = (Head(events) = "got_ip")
  /\ wifiJob' = (IF Head(events) = "got_ip" THEN GotIp ELSE Lost) \o wifiJob
  /\ UNCHANGED <<boot, stable, station, listening, timers, client>>

TakeEvent ==
  /\ Running
  /\ wifiJob = <<>> /\ events # <<>>
  /\ Len(commands) <= MaxLag
  /\ events' = Tail(events)
  /\ isConnected' = (Head(events) = "got_ip")
  /\ wifiJob' = IF Head(events) = "got_ip" THEN GotIp ELSE Lost
  /\ UNCHANGED <<boot, stable, station, listening, timers, client>>

NextInWifi(op) == Running /\ wifiJob # <<>> /\ Head(wifiJob) = op
WifiDone == wifiJob' = Tail(wifiJob)

(* xTimerStart and xTimerStop with a timeout of 0: a command that does not *)
(* fit in the queue is ignored, and so is the failure.                     *)
Command(c) ==
  commands' = IF Len(commands) < TimerQueueLength THEN Append(commands, c)
                                                  ELSE commands

EventConnects ==
  /\ NextInWifi("connectToMqtt")
  /\ WifiDone
  /\ mqtt' = connectToMqtt
  /\ UNCHANGED <<boot, stable, station, events, isConnected, listening, timers,
                 mqttJob, announced, heard>>

EventServes ==
  /\ \/ NextInWifi("begin") /\ listening' = TRUE
     \/ NextInWifi("end") /\ listening' = FALSE
  /\ WifiDone
  /\ UNCHANGED <<boot, stable, station, events, isConnected, timers, client>>

(* Mutant: the WiFi timer is not started.                                  *)
EventCommandsNoRetry ==
  /\ NextInWifi("stop_mqtt") \/ NextInWifi("start_wifi")
  /\ Has("timers")
  /\ IF Head(wifiJob) = "stop_mqtt" THEN Command(Stop("mqtt"))
                                    ELSE UNCHANGED commands
  /\ WifiDone
  /\ UNCHANGED <<boot, stable, station, events, isConnected, listening, active,
                 client>>

EventCommands ==
  /\ NextInWifi("stop_mqtt") \/ NextInWifi("start_wifi")
  /\ IF Has("timers")
     THEN /\ Command(IF Head(wifiJob) = "stop_mqtt" THEN Stop("mqtt")
                                                    ELSE Start("wifi"))
          /\ WifiDone
          /\ UNCHANGED <<boot, stable, station, events, isConnected, listening,
                         active, client>>
     ELSE Crash({"timers"})
-----------------------------------------------------------------------------
(* The timer daemon.  Timers run once and need not be on time.             *)
TimerTakes ==
  /\ Running
  /\ commands # <<>>
  /\ commands' = Tail(commands)
  /\ active' = [active EXCEPT ![Head(commands).timer] = (Head(commands).do = "start")]
  /\ UNCHANGED <<boot, stable, wifi, client>>

WifiTimerExpires ==
  /\ Running
  /\ active["wifi"]
  /\ active' = [active EXCEPT !["wifi"] = FALSE]
  /\ station' = connectToWifi
  /\ UNCHANGED <<boot, stable, events, isConnected, wifiJob, listening, commands,
                 client>>

MqttTimerExpires ==
  /\ Running
  /\ active["mqtt"]
  /\ active' = [active EXCEPT !["mqtt"] = FALSE]
  /\ mqtt' = connectToMqtt
  /\ UNCHANGED <<boot, stable, wifi, commands, mqttJob, announced, heard>>
-----------------------------------------------------------------------------
(* The MQTT client, in async_tcp.  Each attempt to connect ends in one of  *)
(* the two callbacks.                                                      *)
TcpIdle == Running /\ mqttJob = <<>>

(* Mutant: only the first session is subscribed.                           *)
MqttConnectsAsBefore ==
  /\ TcpIdle
  /\ mqtt = "connecting" /\ station = "up"
  /\ mqtt' = "connected"
  /\ mqttJob' = IF announced = {} THEN Connected ELSE <<>>
  /\ UNCHANGED <<boot, stable, wifi, timers, announced, heard>>

MqttConnects ==
  /\ TcpIdle
  /\ mqtt = "connecting" /\ station = "up"
  /\ mqtt' = "connected"
  /\ mqttJob' = Connected
  /\ UNCHANGED <<boot, stable, wifi, timers, announced, heard>>

(* Without a connection, publish and subscribe do nothing.                 *)
onMqttConnect ==
  /\ Running
  /\ mqttJob # <<>> /\ Head(mqttJob) \in {"announce", "subscribe"}
  /\ mqttJob' = Tail(mqttJob)
  /\ IF mqtt # "connected" THEN UNCHANGED <<announced, heard>>
     ELSE IF Head(mqttJob) = "announce"
          THEN announced' = hassConfig /\ UNCHANGED heard
          ELSE heard' = Subscribed /\ UNCHANGED announced
  /\ UNCHANGED <<boot, stable, wifi, timers, mqtt>>

(* A failed attempt, or the end of a session: the client is disconnected   *)
(* before it calls onMqttDisconnect.                                       *)
MqttDisconnects ==
  /\ TcpIdle
  /\ Len(commands) <= MaxLag
  /\ \/ mqtt = "connecting" /\ (~stable \/ station # "up")
     \/ mqtt = "connected" /\ ~stable
     \/ mqtt = "broken"
  /\ mqtt' = "disconnected"
  /\ heard' = {}
  /\ mqttJob' = <<"ask">>
  /\ UNCHANGED <<boot, stable, wifi, timers, announced>>

(* Mutant: the timer is not started.                                       *)
onMqttDisconnectGivesUp ==
  /\ Running
  /\ mqttJob # <<>> /\ Head(mqttJob) \in {"ask", "start_mqtt"}
  /\ mqttJob' = <<>>
  /\ UNCHANGED <<boot, stable, wifi, timers, mqtt, announced, heard>>

(* onMqttDisconnect asks for the WiFi, and then starts its timer.          *)
onMqttDisconnect ==
  /\ Running
  /\ mqttJob # <<>>
  /\ \/ /\ Head(mqttJob) = "ask"
        /\ mqttJob' = IF isConnected THEN <<"start_mqtt">> ELSE <<>>
        /\ UNCHANGED commands
     \/ /\ Head(mqttJob) = "start_mqtt"
        /\ mqttJob' = <<>>
        /\ Command(Start("mqtt"))
  /\ UNCHANGED <<boot, stable, wifi, active, mqtt, announced, heard>>
-----------------------------------------------------------------------------
(* What the handlers of a command and of a message on a bus use.           *)
Use(things) ==
  IF Missing(things) = {} THEN UNCHANGED vars ELSE Crash(things)

(* onMqttMessage: a light or the fridge, start or stop, or a restart.      *)
onMqttMessage ==
  /\ TcpIdle
  /\ mqtt = "connected"
  /\ \E t \in heard :
       CASE t = <<"controller", "restart">> -> Reset /\ UNCHANGED missing
         [] t \in Controller \ {<<"controller", "restart">>} -> Use({"control_q"})
         [] OTHER -> Use({"models"})

(* HTTP /start and /stop, or /debug.                                       *)
HttpRequest ==
  /\ TcpIdle
  /\ station = "up" /\ listening /\ Has("handlers")
  /\ \/ Use({"control_q"})
     \/ Use({"models"})

(* QueueRecvCallback: to forward, to update a model, or, for the magic     *)
(* message of the display, also to start the senders.                      *)
BusMessage ==
  /\ Running
  /\ Has("tasks")
  /\ IF role = "SLAVE" THEN Use({"io"})
                       ELSE Use({"models"}) \/ Use({"models", "control_q"})
-----------------------------------------------------------------------------
EventTask == TakeEvent \/ EventConnects \/ EventServes \/ EventCommands
Daemon == TimerTakes \/ WifiTimerExpires \/ MqttTimerExpires
MqttTask == MqttConnects \/ onMqttConnect \/ MqttDisconnects \/ onMqttDisconnect

Next ==
  \/ Reboot \/ Setup
  \/ Unsettle \/ Join \/ LinkLost \/ AutoReconnect
  \/ EventTask \/ Daemon \/ MqttTask
  \/ onMqttMessage \/ HttpRequest \/ BusMessage

Spec == Init /\ [][Next]_vars

(* Each task goes on while it has something to do, a timer expires, and an *)
(* attempt to connect, or a session that is broken, comes to its end.  The *)
(* bound MaxLag makes the event task wait for the daemon, which catches up *)
(* again and again: strong fairness.                                       *)
Fairness ==
  /\ WF_vars(Reboot) /\ WF_vars(Setup) /\ WF_vars(Join)
  /\ SF_vars(EventTask) /\ WF_vars(TimerTakes)
  /\ WF_vars(WifiTimerExpires) /\ WF_vars(MqttTimerExpires)
  /\ WF_vars(MqttTask)

FairSpec == Spec /\ Fairness
-----------------------------------------------------------------------------
(* Whether timer t will run when the daemon has done what is queued.       *)
LeavesAlone(t, first) ==
  \A i \in first .. Len(commands) : commands[i].timer # t
WillRun(t) ==
  \/ active[t] /\ LeavesAlone(t, 1)
  \/ \E i \in DOMAIN commands : commands[i] = Start(t) /\ LeavesAlone(t, i + 1)

(* No dead end: whenever the board is without WiFi or without MQTT, an     *)
(* attempt is under way, a handler has yet to run, or a timer will try     *)
(* again.  No order of events, callbacks and timer commands loses all.     *)
RetryPending ==
  Running =>
    /\ Has("wifi") /\ station = "down" /\ events = <<>> /\ wifiJob = <<>>
         => WillRun("wifi")
    /\ isConnected /\ mqtt = "disconnected" /\ events = <<>> /\ wifiJob = <<>>
         /\ mqttJob = <<>>
         => WillRun("mqtt")

(* In every session, and not only in the first one, the board hears each   *)
(* command that Home Assistant was told of.                                *)
CommandsHeard ==
  Running /\ mqtt = "connected" /\ mqttJob = <<>>
    => announced = hassConfig /\ announced \subseteq heard

(* The callbacks of the network find their timers, as early as they come.  *)
TimersReady == missing # "timers"

(* Once the network stays stable and the board is not reset any more, the  *)
(* board is in reach for good and hears every command.                     *)
SetUp == Running /\ made = Len(Steps(role))
InReach == mqtt = "connected" /\ heard = hassConfig /\ listening
ComesBack == <>[](stable /\ SetUp /\ role = "MASTER") => <>[]InReach

(* Every message that arrives is handled ("This callback is called for     *)
(* every incoming TWAI and UART message"): what handles it is there.       *)
NothingMissing == missing = Nothing

(* "Ensure we don't reconnect to MQTT while reconnecting to Wi-Fi": once   *)
(* the loss of the WiFi has been handled, the MQTT timer does not run.     *)
NoMqttWithoutWifi ==
  Running /\ ~isConnected /\ wifiJob = <<>> /\ commands = <<>> => ~active["mqtt"]
=============================================================================
