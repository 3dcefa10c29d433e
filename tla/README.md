# Specifications of the CAN bridge

These modules model the firmware in `src/canmiddle_sw`: a man-in-the-middle on
the CAN bus of a camper. Two ESP32 boards sit between the car and its display.
The MASTER is on the car's bus, the SLAVE on the display's, and a UART joins
them. In *passthrough* a board copies messages from one side to the other. The
master can also keep *models*: it records what the car and the display send,
dumps that state to the opposite side over and over, and changes it on behalf
of the user, who talks to it over MQTT (Home Assistant) and HTTP.

Paths below are relative to `src/canmiddle_sw`.

## 1. Inventory

### Tasks

| task | priority | what it does |
|---|---|---|
| `event_loop` | 10 | takes elements off `rx_queue` and runs `QueueRecvCallback` |
| `twai_receive_task`, `uart_receive_task` | 9 | make an element per message, put it on `rx_queue` |
| `twai_tx_task`, `uart_tx_task` | 8 | send and free what is on the outgoing queues |
| `send_state` x 4 | 7 | dump one model each, steered by `control_q` |
| `async_tcp` (master) | | all HTTP handlers and all MQTT callbacks, one at a time |
| `go()` tasks | idle | a function each: publications to MQTT, `/debug` |
| timer daemon, WiFi events (master) | | reconnect timers, `WiFiEvent` |

The chip has two cores and the tasks have no affinity, so any two of them run
at the same time whatever their priorities. The modules therefore interleave all
tasks and use priorities nowhere, except for the clock of `Models` (section 3).

### Components

| component | state | operations | hard behaviour | what makes it correct |
|---|---|---|---|---|
| **Roles and boot**, `src/main.cpp` `setup` | role in flash, `passthrough` | `setup`, reset by `abort()` | everything but the role is lost at a reset; tasks run before what they use exists | a slave always forwards and dumps nothing; nothing is used before it is there |
| **Dump control**, `src/master.cpp`, `Model::SendState` | `control_q` (one place), locals of four senders | `toggle_send_state`, `send_state` | two queue calls without a lock, two callers, four readers that peek | no command is lost, a STOP takes effect, the wake-up handshake is sent once and completely |
| **Models**, `lib/model`, `lib/model_defs` | values of the properties, a mutex and a deadline per model | `UpdateState`, `Update`, `UpdateMasked`, `DisableUpdatesFor`, `HandlePropUpdate`, `SetLight`, `SetFridgeState`, `SetFridgePower`, `DebugSet` | three kinds of tasks change a model; a callback under one lock takes the other; the display repeats old values | no deadlock, no unlocked write, what the user sets is not undone, every change is notified (section 5 says where the code fails) |
| **Message pipeline**, `lib/esp_abstraction`, `QueueRecvCallback` | three queues of ten pointers | receive, queue, dispatch, send, free | elements change owner, queues overflow, `malloc` fails, `passthrough` is switched under way | each element has one owner, order is kept, nothing passes a board that keeps models, everything is freed |
| **Snoop buffer and property logger**, `lib/model/snoop_buffer.h`, `props_logger.h` | buffer, position, end of the recording | `Activate`, `Snoop`, `/start_snoop`, `/get_snoop`, `/get_props` | exactly full buffer; handlers that touch `position` without the lock; clock that wraps | recorded frames are whole and inside the buffer |
| **UART framing**, `lib/util/util.cpp` | bytes on the line | `send_over_uart`, `recv_over_uart` | no frame marker, a timeout of 100 ms | after an error the receiver finds the next frame again |
| **Network connection**, `src/main.cpp`, `lib/mqtt/mqtt.cpp` | WiFi and MQTT connections, two one-shot timers | `WiFiEvent`, `onMqttConnect`, `onMqttDisconnect`, `connectToWifi`, `connectToMqtt` | events of two connections race with two timers; everything runs as soon as it is registered | it always comes back and hears every command; MQTT is not retried without WiFi |
| **State publication**, `HandlePropUpdate`, `go`, `publish` | retained values at the broker | a `go()` task per change | tasks overtake one another; messages are dropped while disconnected | the last published value is the present one |
| **Web server handlers**, `src/main.cpp` | none of its own | `/`, `/filter`, `/get_props`, `/debug`, `/passthrough`, `/start`, `/stop`, `/get_snoop`, `/start_snoop` | run in `async_tcp` against all other tasks | those of the components they call |
| **Locks and tasks**, `LockAbstraction`, `go` | a mutex that is not recursive | `Lock`, `Unlock`, `go` | taking it twice stops the task for good | one lock order |

How they interact: the receive tasks feed the event loop through `rx_queue`; the
event loop calls the models, the dump control and the outgoing queues; the models
call back into `HandlePropUpdate`, which starts `go()` tasks and, for the press of
a light button, changes the display's model. `async_tcp` calls the dump control,
the models and the variable `passthrough`. The senders read the models and feed
the outgoing queues.

Not firmware, and not modelled: the circuit board (`can_middle/`), the notebooks
and scripts that decode recordings (`py/`, `scripts/`), `car-android/`,
`victron-esphome/`, the generated `message.pb.*` and the third-party
`WebAuthentication.cpp`.

## 2. Modules

| module | what it is |
|---|---|
| `CommandRegister` | abstract: what `control_q` is used for, a register that holds the latest command |
| `SendControl` | dump control: `toggle_send_state`, its callers, `send_state`, `SendState` |
| `SendControlProofs`, `ModelsProofs`, `IOPipelineProofs`, `SnoopBufferProofs`, `ConnectionProofs`, `PublisherProofs`, `BridgeProofs` | theorems about the module they are named after |
| `ModelsHeldProofs` | on top of `ModelsProofs`: theorems about the windows and the notifications of `Models` |
| `Models` | the models of car and display and everything that changes them |
| `LossyLink` | abstract: one direction of forwarded traffic, a set of numbered messages of which the oldest leaves first |
| `IOPipeline` | the queues and tasks between UART and CAN |
| `SnoopBuffer` | the buffers of the recorder and of the property logger, and their HTTP handlers |
| `Connection` | boot, `WiFiEvent`, the callbacks of the MQTT client, the reconnect timers |
| `Publisher` | how the state of lights and fridge gets to the broker: bits, `go()` tasks, `publish` |
| `UartLink` | one direction of the UART, byte by byte: `send_over_uart`, `recv_over_uart` |
| `Bridge` | composes `UartLink` with the queues of the boards at its two ends; implements `LossyLink` |
| `MCSendControl`, `MCModels`, `MCIOPipeline`, `MCSnoopBuffer`, `MCPublisher`, `MCBridge` | constants for the model checker |

Definitions whose comment says *Mutant* are faulty variants of the one below them.
No action uses them; they show that the properties can fail.

### SendControl

`controlQ` is the queue; `toggling[c]` is the command caller `c` holds between the
two queue calls of `toggle_send_state` (`ToggleReceive`, `ToggleSend`). The callers
are the event loop (`MagicMessage`: property 0x1b000046 from the display) and
`async_tcp` (`UserCommand`: HTTP `/start`, `/stop`, MQTT `can/start`, `can/stop`).
A second send that finds the queue full is the `abort()` of the code: `status`
becomes `"toggle_failed"` and `Reboot` follows. While a toggle is between its two
calls its caller does nothing else, so `TcpFree` holds back the other handlers.

`at[s]`, `cmd[s]`, `iteration[s]` and `idx[s]` are the locals of `send_state` and the
position of `SendState` in the property table. One action per access to shared
state: the first, blocking peek; the peek of a stopped sender; the begin of a dump;
each entry; the end of a dump with its peek that does not block. The dump itself is
reduced to the one-off number of each entry, which decides about sending it and
about ending the dump early. Delays are left out: a sender may stay anywhere for
any time. What is sent is the business of `IOPipeline`.

`last`, `taken` and `finished` are history variables, for properties only.

### Models

A task is the sequence of operations it has yet to do, and each operation is one
access to shared state: `lock`, `unlock`, `disable` (set the deadline), `patch`
(the body of `UpdateMasked`), `apply` (`UpdateState` under its lock: window,
comparison, notification), `notify` (`HandlePropUpdate` called by `Update`),
`write` and `sleep`. The functions of the code are operators that return such
sequences (`SetLight`, `DebugSet`, ...), so that calls nest as they do in the code:
the button press that `HandlePropUpdate` recognises puts its operations in front of
the write that has been announced, and they run with the first lock held.

A value is a function from the fields the code looks at to numbers; `rest` stands
for the bytes that only travel along. `told[p]` is the value `HandlePropUpdate` was
called with last, unless it returned early because old and new value were equal;
`missed` holds the properties of which it was told a change in the wrong order, or not at
all because the old value it was given was the new one by mistake.
An unlocked read may return any mixture of fields from before and after a write
that happens at the same time (`Reads`). `UserDebug` starts the two tasks of one `/debug`
request; the next one can begin before those are done.

`left[m]` counts down to the end of the window in which messages are ignored, as the code
has it; a second `DisableUpdatesFor` replaces it. `promised[m]` is the longest of the windows that were
asked for. `want[f]` is what the user or a button has set field `f` of the display's model to. It is kept
until `promised`, and not `left`, is over; a field is `lapsed` if `left` was over first.

`SendState` only reads the models and is not in this module. `LightsOff` is called
from nowhere and is left out.

### IOPipeline

`rxQ` and `txQ` are the queues, `hand[t]` the element a task holds in its local
variable. An element is named by its maker and a number, and stands for the memory
and for the message in it; `allocated` is the heap. `uart_receive_task` allocates
before it waits for a message (`waiting`). Putting on a queue and freeing what does
not fit are one action of the task that holds the element, and so are the receive
and the allocation: the heap and a local variable are the only state between them.
`Transmit` may fail, `recv_over_uart` may fail, and `Reboot` can happen any time,
which covers a `malloc` that finds no memory. The copies to the snoop buffer and the
statistics are left out.

### SnoopBuffer

One module for both buffers. `alwaysActive` makes it the one of the logger, which
records for ever; otherwise it is the recorder, active until `endMs`. A byte is
the message it belongs to and its place in the frame, so that a frame put over the
rest of another shows. `Snoop` holds the lock, and is split where the unlocked
`snoop_buffer.position = 0` of `/start_snoop` can come in between: `SnoopEncode`
reads `position` and encodes, `SnoopLength` writes the length byte and loads `position`
again (`position += ...` follows a store through a byte pointer, so it cannot
reuse the first value), `SnoopStore` stores the sum. The room that is left is computed
modulo `SizeRange` and the time modulo `ClockRange`, as `size_t` and `uint32_t` do. What happens after a
frame was written behind the buffer is undefined: nothing but a reset follows. A response
of `/get_snoop` or `/get_props` refers to the buffer until it is sent (`ResponseSent`).
`Activate` finds the recording inactive, or does nothing, as in the code.

The logger looks at its filter under a lock of its own (`CheckFilter`), and then calls
`Snoop`; `passed[t]` is what task `t` has got through the filter. `/filter` (`Filter`) may come in
between. `late` and `torn` are history variables. A property that is filtered from the
start (0x53a) is none of `Messages`.

Left out: what a failed encoding leaves behind `position`, which no frame and no response
covers; `TimeRemainingMs`, which only reads.

### Connection

`made` counts the steps of `setup` and `master_loop` that are done (`Steps`), and `Has` says
whether something exists by then. The constructor of `IOAbstraction` starts its tasks
(`"tasks"`), and its result is stored after that (`"io"`). A handler that uses
something that is not there (`Use`, `Crash`) sets `missing` and resets the board; `Reboot`
starts it anew.

`WiFiEvent` and the callbacks of the MQTT client are sequences of operations,
`wifiJob` and `mqttJob`, one per access to something another task changes too:
`onMqttDisconnect` asks `WiFi.isConnected()` (`"ask"`) and then starts its timer
(`"start_mqtt"`). `xTimerStart` and `xTimerStop` put a command on the queue of the timer
daemon (`Command`), which ignores what does not fit; the daemon carries commands out
(`TimerTakes`) and runs the functions of the timers when they expire, sooner or later.

Of the libraries the module assumes what the code relies on: joining ends in the
event `GOT_IP` or `DISCONNECTED`; `isConnected()` changes before `WiFiEvent` runs; the WiFi
may join again by itself; `WiFi.begin` and `connect()` do nothing while an attempt or a
connection is there; each attempt of the MQTT client, and each session, ends in
`onMqttDisconnect`; subscriptions end with the session and retained messages stay.
`stable` says whether attempts succeed and connections last; it changes at any time.

A command of MQTT or HTTP, or a message on a bus, is reduced to what it uses.

### Publisher

A behaviour follows one of the ten topics (`topic`, chosen in `Init`), since the
publications of two topics share nothing but memory, and that may run out at any time.
`value` holds the bytes of the property the topic is read from. The event loop (`UpdateState`) and
the `go()` tasks of `/debug` (`Update`) change it in two steps: `HandlePropUpdate` compares the new
value with the present one and, if the content of the topic changes, calls `go`, which adds a
publishing task or, without memory, loses the publication; then the value is stored (`Store`). `announced[u]`
is what `u` has notified and not yet stored. The event loop holds the lock of the model from one to the
other, `/debug` takes it only for the second. `Publish(i)` lets any task go first. `outbox` is what
the MQTT client has accepted: it leaves in order (`Deliver`) or is lost with the connection
(`Disconnect`). `getBit`, `getBits` and `getBrightnessByte` are computed as in the code;
`Shown` states which bits of a CAN message a topic stands for independently of them, as a slice of
a number with bit 0 first, and `BrokerCurrent` compares the two for each value.

`newest` and `excuse` are history variables: whether the last task has the content of the
last change, and why the broker may keep something else: the last publication was overtaken or
dropped, two writers met between notifying and storing (`"raced"`), or the board was reset.

### UartLink and Bridge

A byte is the message it belongs to and its place in the frame (0 is the length byte), or
`Noise`. `tx` are bytes that wait for the second `uart_write_bytes`, `line` what is written and not
read, `rx` the number of bytes `recv_over_uart` waits for. `Read` gives the lengths a byte
can be taken for: its own if it is a length byte, any if it is not, where a length of 0 or
above `sizeof(CanMessage)` sends the receiver back to the next byte. Bytes that are not one whole
message fail to decode or give a message that nobody sent (`Garbage`).

`Bridge` adds the boards: what is in the queues of each is a sequence (`near`, `far`) that keeps
its order and may lose any of its messages, which is what `IOPipeline` shows of a board.
Faults are actions of their own: `Disturb` loses, changes or adds a byte, `Stall` lets the timeout
of 100 ms pass between the two writes of the sender, `ResetNear` and `ResetFar` reset a board.

## 3. What is checked

Every run uses the constants of its `.cfg` as they stand. "Passes" means that the
model checker explores all reachable states.

| run | outcome | shows |
|---|---|---|
| `send_control` | passes | two senders with one and two one-off entries, both callers, both roles: `CommandKept` (no toggle and no peek loses a command), `OneOffOnce` (the handshake is not repeated), `StopBound` (at most one dump ends after a STOP), `SlaveSilent`, `StopHalts` and `HandshakeCompletes` (liveness), `ImplementsRegister` (refinement of `CommandRegister`) |
| `toggle_race` | violated | `ToggleNeverFails`: finding 1 |
| `models_user` | passes | the light and fridge commands of the user, messages of both buses, presses of a button: `LockOrder`, `UserValueHeld`, `SelectorHeld`, `NotifiedUnlessMissed` (a change goes unnoticed in two named ways only; here the new value that is equal to the mask), `CallsFinish` |
| `models_debug` | passes | `/debug` requests that overlap and press the button with no lock held, next to the event loop, which presses it with the car's, the display's messages and the light commands of the user: `LockOrder`, `LockedWrites`, `UndoneOnlyIfLapsed` (what the user or a button has set is undone early only after a later, shorter window), `NotifiedUnlessMissed` (here the calls that overtake each other) |
| `io_pipeline` | passes | traffic in both directions through queues that overflow, a sender whose messages come in between, `passthrough` switched on at any time: `OwnedOnce`, `Isolation`, `ForwardsInOrder` (refinement of `LossyLink`, once per direction), `Drains` (every message is sent, used or dropped, and freed) |
| `snoop_buffer` | passes | the recorder or the log, two tasks that record, the HTTP handlers, a clock that does not wrap: `position` stays in the buffer (`TypeOK`), `RecordingWhole` (the log and each recording are sequences of complete frames, unless `/start_snoop` has set `position` within a frame), `FilterBound` (a filtered property is logged once more per task at most), `ServedUnchanged` |
| `snoop_full` | violated | `ResetsOnFull`: finding 2 |
| `connection` | passes | boot, WiFi, MQTT, timers and messages in any order, with resets: `RetryPending` (whenever the board is without WiFi or MQTT, something will try again), `CommandsHeard` (each session hears every announced command), `TimersReady`, `ComesBack` (liveness: a stable network brings the board back) |
| `boot_race` | violated | `NothingMissing`: finding 3 |
| `mqtt_no_wifi` | violated | `NoMqttWithoutWifi`: finding 4 |
| `publisher` | passes | all ten topics, values of the car and of `/debug` that change one of them, two or all, tasks in any order, memory that runs out, a connection that comes and goes, resets: `BrokerCurrent` (the broker ends with the present state, but for four named reasons), `Settles` (liveness: publications come to an end) |
| `bridge` | passes | four messages of three lengths, two faults anywhere: `EndToEnd` (refinement of `LossyLink`: what was sent comes out in order and at most once whatever happens), `GarbageNeedsFault` (nothing else comes out unless a fault came before), `StaysInStep` (undisturbed, the UART gives every message to the far board and nothing else), `Resyncs` (liveness: a receiver that is out of step is in step again after a pause) |

Six more configurations show the cases that the properties above except, or that the bounds cut
off. They are violated when they are checked with their module, and are described in section 5:
`MCModelsForced.cfg` and `MCModelsRace.cfg` (`ChangesNotified`), `MCModelsWindow.cfg`
(`WindowHonoured`), `MCModelsButton.cfg` (`SelectorPropagates`), `MCSnoopBufferRace.cfg`
(`ContentWhole`) and `MCSnoopBufferClock.cfg` (`RunsForDuration`).

### Bounds

* `IterationCap = 3` stands for 100. The counter reaches the cap and passes it by
  one, and the one-off numbers 1 and 2 lie below it as the numbers of the real
  tables lie below 100. Two senders of three entries: a sender's steps read only
  `control_q` and its own locals, so a third adds no behaviour of a new kind; the
  proofs cover any number.
* The history counters `taken` and `finished` stop at 2, one more than the
  properties allow.
* `Models` has the properties, lights and values of its run and no other bound: the
  state space is finite because calls are finite. There are two kinds of lights: the brightness
  is in a property of its own (`models_user`), or beside the selector (`models_debug`). The windows
  4, 3 and 2 stand for 600, 500 and 300 ms: what matters is their order, and that one
  unit is left after the 300 ms wait of `SetLight`. In `models_debug` they are 2, 1 and 0, which has
  the same order: other tasks may still come in between the two selectors of `SetLight`, which
  does not sleep there. The three `go()` tasks there are alike, and a symmetry; a second request
  can begin once the task of the first that only opens the display's window is done, so
  that two tasks change the car's model, and press the button, at the same time.
* `MaxMessages` bounds the messages each task makes between two reboots: with two, an
  element can be queued while another is in hand, and a message can be dropped before or
  after one that passes. `QueueLength = 2` stands for 10: a queue can be empty, have a head
  and a tail, and overflow when the messages of two tasks meet. One sender stands for
  four, two on each outgoing queue: their elements only take places in it. The theorems cover all four.
* `SnoopBuffer`: frames of 2 and 3 bytes. A buffer of 5 or 7 bytes is filled exactly, up
  to one byte, or overrun by the length byte alone, depending on the order of the
  messages. `SizeRange = 64` stands for 2^32: what counts is that it exceeds the buffer by more
  than a frame. `Horizon` ends the clock after 4 or 5 ms: two recordings in a row; it lies
  below `ClockRange` except in `MCSnoopBufferClock.cfg`, where the clock wraps after 4 ms instead
  of 49.7 days.
* `Connection`: two WiFi events that are not yet handled (`MaxEvents`), so that a loss can follow
  a connection, or the reverse, before either is handled. `MaxLag = 1`: a handler begins
  when at most one timer command is pending, since the events of a network are seconds
  apart and the daemon needs microseconds. Each handler gives up to two commands, and the two
  handlers overlap: up to four are pending, so `TimerQueueLength = 4` stands for 10.
* `Publisher`: three tasks and two accepted publications: one task can be overtaken by two, and
  a fourth finds no memory, as any other may; the outbox can be empty, grow and be full. One task of
  `/debug` can meet the event loop at every point between notifying and storing; the proof covers any number.
* `Bridge`: encodings of 1, 2 and 4 bytes, where 4 is the longest the receiver accepts. A wrong
  length can be shorter or longer than what is left of a message, or span two. Two faults: the
  second may come before the receiver has got over the first. The run allows deadlock, since it
  ends when the messages are used up.
* Runs without fairness properties use `Spec`, so that they also cover tasks that
  stop anywhere.

### Fairness

* `SendControl`: weak fairness of `ToggleSend` for each caller, of each sender and of
  the reset after an `abort()`. `toggle_send_state` does not wait between its
  calls, a sender delays in every entry and so never starves the others, and the
  reset is done by the hardware. `StopHalts` and `HandshakeCompletes` are conditional
  on a command that stays: nothing assumes that the user is patient. The condition
  of `HandshakeCompletes` also excludes endless resets.
* `Models`: strong fairness of each task, since it competes for mutexes that are
  given to waiting tasks in turn; strong fairness of the clock, which stands still
  only while the event loop or `async_tcp` has work to do. The work between two
  delays takes microseconds. A `go()` task may stay anywhere for any time, except
  that it does not hold a mutex while time passes: the mutexes of FreeRTOS inherit
  the priority of the task that waits.
* `IOPipeline`: weak fairness of each task that has an element in hand or finds one
  in its queue. Arrivals are not fair.
* `Connection`: weak fairness of `Setup`, of the reset, of joining, of the timer daemon and its
  timers, and of `async_tcp`; strong fairness of the event task, because `MaxLag` makes it wait
  for the daemon again and again. `ComesBack` is conditional on a network that stays
  stable, and on a board that stays up: commands that crash or restart it may come for ever.
* `Publisher`: weak fairness of the oldest task, and of delivery while connected. Nothing makes
  the connection come back, and `Settles` does not need it.
* `Bridge`: weak fairness of the sender, of the receiver with its timeout, and of the queue behind
  it. Faults are not fair.

## 4. What is proved

`SendControlProofs` proves, for every set of senders, every property table and every
cap, from `CapAssumption` (the cap is a positive number) and `TableAssumption` (the
one-off numbers are below the cap):

| theorem | states | inductive invariant |
|---|---|---|
| `TypeCorrect` | `Spec => []TypeOK` | `TypeOK` |
| `CommandKeptAlways` | `Spec => []CommandKept` | `QueueInv`: the queue is empty or holds the last command, and it is empty only before the first command or during a toggle |
| `RegisterImplemented` | `Spec => ImplementsRegister` | `QueueInv`; `ToggleSend` is a write, a peek that finds a command is a read, everything else stutters |
| `SlaveSilentAlways` | `Spec => []SlaveSilent` | `SlaveInv`: a slave is in passthrough, its queue is empty and nobody toggles |
| `StopBoundAlways` | `Spec => []StopBound` | `StopInv`: a sender that ended a dump under the present STOP has read it and rests |
| `OneOffOnceAlways` | `Spec => []OneOffOnce` | `OneOffInv`: an entry whose number is above the counter was not sent, and one whose number is the counter was sent only if the dump of this iteration is at its end |

`CommandKept`, `StopBound` and `OneOffOnce` are not inductive. `CommandKept` says
nothing about a queue during a toggle, where the last command may still be on it;
`StopBound` does not say that a sender that has ended its dump stays where it is;
`OneOffOnce` does not tie the entries to the counter. The invariants above add
just that. `OneOffOnceAlways` needs `TableAssumption`: the counter alternates
between the cap and the cap plus one for ever, so an entry numbered 100 would be
sent again and again.

`SnoopBufferProofs` proves, for any recorders, messages, sizes and durations, from
`SizeAssumption`, `ClockAssumption` and the other assumptions of `SnoopBuffer` on its constants:

| theorem | states | inductive invariant |
|---|---|---|
| `TypeCorrect` | `Spec => []TypeOK` | `TypeOK` and `FrameInv`: while a frame is written it fits behind its start, and `position` is there, or at 0 because of `/start_snoop` |
| `FilterBoundAlways` | `Spec => []FilterBound` | `FilterBound` and `TypeOK` |
| `ServedUnchangedAlways` | `NoWrap` implies `Spec => []ServedUnchanged` | `EndInv` (the end of a recording is its begin plus its duration, and 0 before the first) and `ServedInv`: while a response is sent and no recording has been started, none is running, no frame is under way, and the buffer is as it was served |
| `RecordingWholeAlways` | `Spec => []RecordingWhole` | `RecordInv`: unless the buffer is torn, it is made of whole frames up to `position`, or up to the start of the frame under way, whose bytes are in place behind it |

`TypeOK` alone is not inductive: it says where `position` is, and not where the frame under
way will put it. `NoWrap` (the clock ends before an end time can wrap) is a hypothesis of
`ServedUnchangedAlways`: a recording that ended runs again after the wrap (finding 9), and then writes
under the response. The behaviours end at the first
frame that would be written behind the buffer, which is finding 2.

`ServedUnchanged` says that the buffer stays, and `ServedInv` why: nobody writes, because the recording
has ended and no frame is under way. `RecordingWhole` needs to know where frames may end before
the one under way is complete. `WholeFrom` is a recursive function; the proof shows that it
satisfies its equation before it uses it. That the frames lead from one to the next down to
`position` would be an induction; instead the proof takes the frame nearest to `position` from which
they do not.

`ConnectionProofs` proves, for any length of the timer queue and any number of events:

| theorem | states | inductive invariant |
|---|---|---|
| `TypeCorrect` | `Spec => []TypeOK` | `TypeOK` |
| `TimersReadyAlways` | `Spec => []TimersReady` | `NetInv`: whatever the network causes comes after `connectToWifi`, the step of `setup` that makes the timers before it starts the WiFi |
| `CommandsHeardAlways` | `Spec => []CommandsHeard` | `HeardInv`: in a session, what `onMqttConnect` has not yet to do, it has done |
| `RetryPendingAlways` | `Fits` implies `Spec => []RetryPending` | `RetryInv`: the commands that callbacks have yet to give find room in the queue of the timers; while `WiFiEvent` handles a loss, the WiFi counts as lost; and without WiFi, or without MQTT, an event, a handler or a timer is there that will try again |

`NetInv` is needed because an event, a timer command, an expiry or a callback says nothing by
itself about the progress of `setup`; the theorem says that finding 3 cannot happen with
the timers.

`RetryPending` speaks of the moments when no event or callback is pending; `RetryInv` says what
keeps the attempt alive in between, and follows each timer command through the queue, where only
a later command can cancel it. `Fits` (`MaxLag + 3 <= TimerQueueLength`) is what it takes for no
command to be lost: with the 10 places of the code's queue, up to seven commands may be
pending when a callback begins.

`PublisherProofs` proves, for any values the car sends, any number of tasks and any length of
the outbox, from `ValueAssumption` (values have the length of their property) and
`BoundAssumption`:

| theorem | states | inductive invariant |
|---|---|---|
| `TypeCorrect` | `Spec => []TypeOK` | `TypeOK` |
| `BrokerCurrentAlways` | `Spec => []BrokerCurrent` | `PubInv`: without an excuse, the present content is the last that anyone on the way to the broker holds: the newest task, else the end of the outbox, else the broker. The present content is that of the value that is announced, until it is stored; without an excuse at most one is |

Its lemma `ContentShown` is about the bit operators: for each of the ten topics and every
value of its property, what `getBit`, `getBits` or `getBrightnessByte` takes is the slice that the
layout of the message gives the topic. The loop of `getBits` is unrolled for its one use (three
bits). `BrokerCurrent` speaks only of the quiet state; `PubInv` says where the content is
until then.

`IOPipelineProofs` proves, for queues of any length, any of the four senders and any number of messages,
from `QueueAssumption`, `BoundAssumption` and `SenderAssumption`:

| theorem | states | inductive invariant |
|---|---|---|
| `TypeCorrect` | `Spec => []TypeOK` | `IInv` |
| `ElementsOwnedOnce` | `Spec => []OwnedOnce` | `IInv` |
| `BusesIsolated` | `Spec => []Isolation` | `IInv` |
| `ImplementsLossyLink` | `Spec => ForwardsInOrder` | `IInv` and `InOrder` for each direction |

`IInv` has four parts: `TypeOK`; `Ownership` (each allocated element is in one place of one queue or in
one hand, and nothing else is there); `Fresh` (no allocated element has a number its maker has yet to
give, so that a new element is new); `Forwarded` (what is on its way out may go there, and a maker
holds what it made itself). `OwnedOnce` alone is not inductive: without `Fresh` a new element could
be one that is still about. `InOrder` reads the tasks and queues a message
passes as five stages, the last one first, and says that numbers grow along them and within each.
From it, the element that leaves is the least of those on the way, which is what `LossyLink`
asks of `Leave`.

`ModelsProofs` proves, for any properties, values, lights and tasks of `/debug`, from the
assumptions of `Models` on its constants (in `WindowAssumption`, the windows have the order of the
code's 300, 500 and 600 ms):

| theorem | states | inductive invariant |
|---|---|---|
| `TypeCorrect` | `Spec => []TypeOK` | `IInv` |
| `LocksInOrder` | `Spec => []LockOrder` | `IInv` |
| `WritesAreLocked` | `Spec => []LockedWrites` | `IInv` |

`IInv` says that a task holds exactly the locks that what is left of its work gives back (`Holds`), and that
each operation ahead finds the locks it needs and none that it must not find (`Good`). Since a
task is the work it has yet to do, this is a property of the sequences the operators return:
lemmas for the functions of the code show that each can be put in front of work that
is in order, as long as it does not take a lock twice, which is how calls and callbacks nest.

`ModelsHeldProofs` proves on top of it:

| theorem | states | inductive invariant, beside `IInv` |
|---|---|---|
| `UndoneByLapseOnly` | `Spec => []UndoneOnlyIfLapsed` | `HeldInv`: a value is wanted only while a window of the display's model was promised; `async_tcp` and the event loop set one in an open window, or open one first; a message of the display that is about to be written found the window closed, so what was wanted then has lapsed |
| `UserValueStays` | `NoDebugging` implies `Spec => []UserValueHeld` | `HeldInv` and `FullInv`: no task of `/debug` has work, the window that is left is the one that was promised, and nothing has lapsed |
| `SelectorStays` | `NoDebugging` and `"526" \in Props` imply `Spec => []SelectorHeld` | these and `SelectInv`: the selector is set, or is set before `async_tcp` sleeps |
| `NotifiedAlways` | `Spec => []NotifiedUnlessMissed` | `NotifyInv`: what each task has yet to do is `Prepared` (the call of `HandlePropUpdate` in `Update` is followed by its write, and that of `UpdateState` has nothing behind it that calls or writes), and of a property that is not missed one task at most has a write due, which is of the value told last; if none has, the model holds the value told last |

`UndoneByLapseOnly` and `NotifiedAlways` have no hypothesis: they hold with `/debug`, with the fridge and with
any values, and say that the ways to lose a user's value and to miss a change which findings 5, 6
and 7 show are the only ones. `NoDebugging` (`/debug` sets nothing) is the hypothesis of the two others,
since finding 7 refutes them otherwise: a window of `/debug` cuts short the one of the user. The run
that checks them, `models_user`, satisfies it; `"526"` is the property that holds the selector `SelectorHeld` speaks
of. `UserValueHeld` is not inductive: it says nothing of a message that has passed the window
and is yet to be written, or of a window that is yet to be opened. `NotifiedUnlessMissed` says
nothing of the writes under way, and all depends on what the last of them will write.

`BridgeProofs` proves, for any messages, any lengths and any number of faults, from
`LengthAssumption` and `BoundAssumption`:

| theorem | states | inductive invariant |
|---|---|---|
| `TypeCorrect` | `Spec => []TypeOK` | `IInv` |
| `ImplementsLossyLink` | `Spec => EndToEnd` | `IInv` |
| `NoGarbageUndisturbed` | `Spec => []GarbageNeedsFault` | `IInv` and `Undisturbed`: until the first fault the far board holds messages only, and the bytes between the boards are whole frames that the receiver reads in step |
| `ReceiverStaysInStep` | `Spec => StaysInStep` | `IInv` |

`EndToEnd` is about the messages that were sent. After a fault, bytes that are none of them may decode,
and leave the far board between them; `LossyLink` does not see those (`Genuine`). That this
takes a fault is what `NoGarbageUndisturbed` adds.

`IInv` orders everything between the boards: the messages in the far board, on the line, at the
sender and in the near board have growing numbers, all above that of the message shown last, and
the bytes of a message are on the line in their order, each at most once. So a receiver that is
out of step cannot get a message twice, or a later one first. The main lemma is that whatever
is lost of a queue, the rest keeps its order. For `StaysInStep` the proof takes the bytes between
the boards apart, frame by frame, as a receiver in step reads them.

No proof uses an induction theorem over an operator, which the provers cannot instantiate. Where a
statement is about all positions of a sequence, the proofs take the least counterexample (`WFMin`)
or a set of positions instead.

Only model-checked:

* the liveness properties (`StopHalts`, `HandshakeCompletes`, `CallsFinish`, `Drains`,
  `ComesBack`, `Settles`, `Resyncs`), because the proof system handles neither `ENABLED` nor
  fairness;
* where a theorem has a hypothesis, what happens without it: the configurations of section 5
  show it;
* what the runs that expect a violation refute.

## 5. Findings

1. `toggle_race` (`src/master.cpp:60`). The display sends its magic message while a
   user presses start or stop. Both callers empty the queue before either fills it;
   the second send fails and the board aborts.
2. `snoop_full` (`lib/model/snoop_buffer.h:62`). The room behind the length byte is
   `buf_size - (position + 1)`, unsigned. When the frames fill the buffer exactly, it is
   2^32 - 1: the buffer is not reset and the next frame is written behind it.
3. `boot_race` (`src/master.cpp:98`). The constructor of `IOAbstraction` starts the receive
   tasks and `event_loop`; `io`, the models and `control_q` come after that. A message on a bus
   that is busy at power-up is handled with null pointers, and the board resets. On the
   master a command over the network can come too early as well, though the network takes
   longer to come up.
4. `mqtt_no_wifi` (`lib/mqtt/mqtt.cpp:171`). `onMqttDisconnect` finds the WiFi connected; the WiFi
   is lost and `WiFiEvent` stops the MQTT timer; then `onMqttDisconnect` starts it. The
   attempt it leads to fails and is not repeated (`RetryPending` and `ComesBack` hold), so nothing
   worse follows.

Shown by configurations that are not runs:

5. `MCModelsForced.cfg` (`lib/model/model.h:121`). `UpdateMasked` passes the mask as the old
   value to force a notification. If the new value equals the mask, `HandlePropUpdate`
   returns early: turning the fridge on while the rest of property 0x531 is 0 goes
   unnoticed.
6. `MCModelsRace.cfg` (`lib/model/model.h:135`). `Update` notifies before it takes the lock.
   A change of another task in between leaves the notified value different from the
   stored one.
7. `MCModelsWindow.cfg` (`lib/model/model.h:97`). A second call of `DisableUpdatesFor` replaces
   a longer window by a shorter one: a `/debug` request within 600 ms of a user's
   command lets the display undo it early.
8. `MCSnoopBufferRace.cfg` (`src/main.cpp:234`). `/start_snoop` resets `position`
   a second time, without the lock. A task that is recording its second frame then leaves
   `position` inside the first. `RecordingWhole` says that this is the only way.
9. `MCSnoopBufferClock.cfg` (`lib/model/snoop_buffer.h:47`). The end of a recording is compared
   as an absolute time of 32 bits: around the wrap of `millis()` a recording ends at once, or one
   of long ago runs again.
10. `MCModelsButton.cfg` (`lib/model_defs/model_defs.cpp:221`). A button that is pressed while
   `SetLight` waits for the selector it has set to propagate clears it: the car may
   never see the command, although `SetLight` says that the selector has to propagate.

Behaviour the code has and no document of it denies, but worth knowing: `BrokerCurrent` holds only
with its four excuses. Home Assistant shows an old state until the next change of a light when
two publications overtake each other, when one is dropped (no connection, no memory), when `/debug` and
a message of the car change it at the same time, and after a reset of the board.

`snoop_buffer` checks `RecordingWhole` in spite of 2: the model stops where a frame is written
behind the buffer, and up to there everything in it is whole. `UndoneOnlyIfLapsed` and
`NotifiedUnlessMissed` state that 5, 6 and 7 are the only ways of their kind.

## 6. Plan

Every invariant and every refinement that a passing run checks is proved, and so is the action
property `StaysInStep`. What is left is `Bridge` in both directions at once, with the models of the
master in between, so that the display's answers to a user's command are part of one behaviour.

Not modelled: the generated encoding (`message.pb.*`), the third-party `WebAuthentication.cpp`, the
statistics, and what is not firmware. `LightsOff` is called from nowhere.
