------------------------------ MODULE Publisher ------------------------------
(***************************************************************************)
(* How the state of lights and fridge gets to Home Assistant               *)
(* (HandlePropUpdate of lib/model_defs, go of lib/util, the bit operators  *)
(* of lib/model/model.h).                                                  *)
(*                                                                         *)
(* The event loop applies a value that the car sends, and HTTP /debug sets *)
(* one.  For each topic that it changes, HandlePropUpdate starts a go()    *)
(* task that publishes the new state, retained, and ends; the value itself *)
(* is stored after that.  The tasks run in any order.  What the MQTT       *)
(* client accepts leaves in order; without a connection it accepts nothing.*)
(*                                                                         *)
(* A behaviour follows one topic, any of those the code publishes: the     *)
(* publications of another share nothing with its own but memory, which    *)
(* may be short at any time.  A value is the sequence of its bytes.        *)
(***************************************************************************)
EXTENDS Naturals, Sequences

CONSTANTS
  Boot,          \* Boot[p] : the value of p in the table of InitModels
  Bus,           \* Bus[p] : the values of p the car sends
  Debug,         \* Debug[p] : the values of p /debug sets
  Debuggers,     \* go() tasks of /debug
  MaxTasks,      \* bound: go() tasks that have yet to publish
  OutboxLength   \* bound: publications the client has yet to send

Props == {"528", "527", "532"}
Byte == 0 .. 255
Size(p) == CASE p = "528" -> 4 [] p = "527" -> 6 [] p = "532" -> 5
Value(p) == [1 .. Size(p) -> Byte]

ASSUME ValueAssumption ==
  \A p \in Props : \A v \in Bus[p] \cup Debug[p] \cup {Boot[p]} : v \in Value(p)
ASSUME BoundAssumption == MaxTasks \in Nat /\ OutboxLength \in Nat

(* Who changes the model of the car.                                       *)
Loop == "event_loop"
Writers == {Loop} \cup Debuggers
None == <<>>

ASSUME DebuggersAssumption == Loop \notin Debuggers

(* LightDescriptor and lmp, in the order in which the map is read.         *)
Lights == {"outside_kitchen", "inside_kitchen", "door", "tailgate"}
state_bit(l) == CASE l = "outside_kitchen" -> 0 [] l = "inside_kitchen" -> 5
                  [] l = "door" -> 8 [] l = "tailgate" -> 1
brightness_prop(l) == IF l \in {"inside_kitchen", "tailgate"} THEN "527" ELSE "528"
brightness_byte(l) == CASE l = "outside_kitchen" -> 1 [] l = "inside_kitchen" -> 1
                        [] l = "door" -> 2 [] l = "tailgate" -> 5

Status(l) == <<l, "status">>
Brightness(l) == <<l, "brightness">>
FridgeState == <<"fridge", "state">>
FridgePower == <<"fridge", "percentage_state">>
Topics == {Status(l) : l \in Lights} \cup {Brightness(l) : l \in Lights}
            \cup {FridgeState, FridgePower}
-----------------------------------------------------------------------------
(* getByte and its like.  Bit 0 is the most significant one of byte 0.     *)
getByte(n, v) == v[n + 1]

(* Mutant: bit 0 is the least significant one.                             *)
getBitReversed(n, v) == (v[(n \div 8) + 1] \div 2 ^ (n % 8)) % 2

getBit(n, v) == (v[(n \div 8) + 1] \div 2 ^ (7 - (n % 8))) % 2

getBits(n, count, v) ==
  LET result[i \in 0 .. count] ==
        IF i = 0 THEN 0 ELSE 2 * result[i - 1] + getBit(n + i - 1, v)
  IN result[count]

(* Mutant: the upper bit is not masked.                                    *)
getWholeByte(n, v) == getByte(n, v)

getBrightnessByte(n, v) == getByte(n, v) % 128

(* What HandlePropUpdate publishes for topic t, and from which property.   *)
Source(t) ==
  CASE t \in {FridgeState, FridgePower} -> "532"
    [] t[2] = "status" -> "528"
    [] OTHER -> brightness_prop(t[1])
Content(t, v) ==
  CASE t = FridgeState -> getBit(7, v)
    [] t = FridgePower -> getBits(2, 3, v)
    [] t[2] = "status" -> getBit(state_bit(t[1]), v)
    [] OTHER -> getBrightnessByte(brightness_byte(t[1]), v)

Contents(t) == IF t[2] = "brightness" THEN 0 .. 127
               ELSE IF t = FridgePower THEN 0 .. 7 ELSE 0 .. 1
Unknown == 255
-----------------------------------------------------------------------------
VARIABLES
  topic,     \* the topic that is followed
  value,     \* the value of its property in the car's model
  announced, \* announced[u] : what u has notified and has yet to store
  tasks,     \* contents that go() tasks have yet to publish, oldest first
  online,    \* the MQTT client is connected
  outbox,    \* contents the client has accepted and the broker not received
  broker,    \* the retained content
  newest,    \* history: the last task has the content of the last change
  excuse     \* history: why the broker may keep something else

mqtt == <<online, outbox, broker>>
history == <<newest, excuse>>
vars == <<topic, value, announced, tasks, mqtt, history>>

TypeOK ==
  /\ topic \in Topics
  /\ value \in Value(Source(topic))
  /\ announced \in [Writers -> Value(Source(topic)) \cup {None}]
  /\ tasks \in Seq(Contents(topic)) /\ Len(tasks) <= MaxTasks
  /\ outbox \in Seq(Contents(topic)) /\ Len(outbox) <= OutboxLength
  /\ online \in BOOLEAN /\ (outbox # <<>> => online)
  /\ broker \in Contents(topic) \cup {Unknown}
  /\ newest \in BOOLEAN /\ (newest => tasks # <<>>)
  /\ excuse \in {"none", "overtaken", "dropped", "raced", "reset"}

Init ==
  /\ topic \in Topics
  /\ value = Boot[Source(topic)]
  /\ announced = [u \in Writers |-> None]
  /\ tasks = <<>>
  /\ online = FALSE /\ outbox = <<>> /\ broker = Unknown
  /\ newest = FALSE /\ excuse = "reset"

(* A reset brings the value of the table back without publishing it; the   *)
(* broker keeps what it has.                                               *)
Reboot ==
  /\ value' = Boot[Source(topic)]
  /\ announced' = [u \in Writers |-> None]
  /\ tasks' = <<>>
  /\ online' = FALSE /\ outbox' = <<>>
  /\ newest' = FALSE /\ excuse' = "reset"
  /\ UNCHANGED <<topic, broker>>
-----------------------------------------------------------------------------
(* go: what xTaskCreate returns is not looked at, so without memory the    *)
(* publication is lost.                                                    *)
go(content, otherwise) ==
  \/ /\ Len(tasks) < MaxTasks
     /\ tasks' = Append(tasks, content)
     /\ newest' = TRUE /\ excuse' = otherwise
  \/ /\ newest' = FALSE /\ excuse' = "dropped"
     /\ UNCHANGED tasks

Alone(u) == \A w \in Writers \ {u} : announced[w] = None

(* HandlePropUpdate compares the new value with the present one.           *)
HandlePropUpdate(u, v) ==
  /\ announced[u] = None
  /\ announced' = [announced EXCEPT ![u] = v]
  /\ IF Content(topic, v) # Content(topic, value)
     THEN go(Content(topic, v), IF Alone(u) THEN "none" ELSE "raced")
     ELSE /\ excuse' = IF Alone(u) THEN excuse ELSE "raced"
          /\ UNCHANGED <<tasks, newest>>
  /\ UNCHANGED <<topic, value, mqtt>>

(* UpdateState calls it with the lock of the model, which it keeps until   *)
(* the value is stored; Update, of /debug, without, and then takes it.     *)
UpdateState(v) == HandlePropUpdate(Loop, v)
Update(d, v) == HandlePropUpdate(d, v)

Store(u) ==
  /\ announced[u] # None
  /\ u # Loop => announced[Loop] = None
  /\ value' = announced[u]
  /\ announced' = [announced EXCEPT ![u] = None]
  /\ UNCHANGED <<topic, tasks, mqtt, history>>

Without(i) == SubSeq(tasks, 1, i - 1) \o SubSeq(tasks, i + 1, Len(tasks))
IsNewest(i) == newest /\ i = Len(tasks)

(* Mutant: the task waits for a connection.                                *)
PublishWaits(i) ==
  /\ online /\ Len(outbox) < OutboxLength
  /\ tasks' = Without(i)
  /\ outbox' = Append(outbox, tasks[i])
  /\ newest' = (newest /\ i # Len(tasks))
  /\ UNCHANGED <<topic, value, announced, online, broker, excuse>>

(* A go() task publishes and ends, in no order.  publish() drops the       *)
(* message when there is no connection or no memory; its result is ignored.*)
Publish(i) ==
  /\ tasks' = Without(i)
  /\ newest' = (newest /\ ~IsNewest(i))
  /\ \/ /\ online /\ Len(outbox) < OutboxLength
        /\ outbox' = Append(outbox, tasks[i])
        /\ excuse' = IF newest THEN excuse ELSE "overtaken"
     \/ /\ excuse' = IF IsNewest(i) THEN "dropped" ELSE excuse
        /\ UNCHANGED outbox
  /\ UNCHANGED <<topic, value, announced, online, broker>>
-----------------------------------------------------------------------------
Connect ==
  /\ ~online
  /\ online' = TRUE
  /\ UNCHANGED <<topic, value, announced, tasks, outbox, broker, history>>

(* The connection ends, and the session with it: what has not been         *)
(* delivered is dropped.                                                   *)
Disconnect ==
  /\ online
  /\ online' = FALSE
  /\ outbox' = <<>>
  /\ excuse' = IF outbox = <<>> \/ newest THEN excuse ELSE "dropped"
  /\ UNCHANGED <<topic, value, announced, tasks, broker, newest>>

Deliver ==
  /\ online /\ outbox # <<>>
  /\ outbox' = Tail(outbox)
  /\ broker' = Head(outbox)
  /\ UNCHANGED <<topic, value, announced, tasks, online, history>>

Next ==
  \/ \E v \in Bus[Source(topic)] : UpdateState(v)
  \/ \E d \in Debuggers : \E v \in Debug[Source(topic)] : Update(d, v)
  \/ \E u \in Writers : Store(u)
  \/ \E i \in DOMAIN tasks : Publish(i)
  \/ Connect \/ Disconnect \/ Deliver
  \/ Reboot

Spec == Init /\ [][Next]_vars

(* The tasks of idle priority get their turn, the oldest among them too,   *)
(* and a connection that stays carries what it was given.                  *)
Oldest == tasks # <<>> /\ Publish(1)
FairSpec == Spec /\ WF_vars(Oldest) /\ WF_vars(Deliver)
-----------------------------------------------------------------------------
(* The bits of a value from first to last, which lie in one byte, as the   *)
(* number they stand for; bit 0 is the first bit on the bus.               *)
Slice(v, first, last) ==
  (v[(first \div 8) + 1] % 2 ^ (8 - (first % 8))) \div 2 ^ (7 - (last % 8))

(* What Home Assistant should show, by the layout of the CAN messages.     *)
Shown ==
  CASE topic = Status("outside_kitchen") -> Slice(value, 0, 0)
    [] topic = Status("tailgate") -> Slice(value, 1, 1)
    [] topic = Status("inside_kitchen") -> Slice(value, 5, 5)
    [] topic = Status("door") -> Slice(value, 8, 8)
    [] topic = Brightness("outside_kitchen") -> Slice(value, 9, 15)
    [] topic = Brightness("door") -> Slice(value, 17, 23)
    [] topic = Brightness("inside_kitchen") -> Slice(value, 9, 15)
    [] topic = Brightness("tailgate") -> Slice(value, 41, 47)
    [] topic = FridgePower -> Slice(value, 2, 4)
    [] topic = FridgeState -> Slice(value, 7, 7)

(* Once nothing is under way, the broker shows the present state, bit by   *)
(* bit.  The excuses are the only ways to another outcome: the publication *)
(* of the last change was overtaken by an older one or dropped, /debug and *)
(* another writer met between notifying and storing, or a reset has        *)
(* changed the state; and each of them ends with the next change.          *)
BrokerCurrent ==
  /\ tasks = <<>> /\ outbox = <<>> /\ \A u \in Writers : announced[u] = None
  /\ excuse = "none"
  => broker = Shown

(* Publications come to an end once nobody writes any more: all are        *)
(* delivered or dropped, whatever becomes of the connection.               *)
Quiet == <>[][FALSE]_<<value, announced>>
Settles == Quiet => <>[](tasks = <<>> /\ outbox = <<>>)
=============================================================================
