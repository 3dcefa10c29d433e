----------------------------- MODULE SendControl -----------------------------
(***************************************************************************)
(* Starting and stopping the periodic state dumps (src/master.cpp, and     *)
(* Model::SendState of lib/model/model.h).                                 *)
(*                                                                         *)
(* Four send_state tasks, one per model, dump the properties of their      *)
(* model over and over.  They are steered by control_q, a FreeRTOS queue   *)
(* of length one.  toggle_send_state replaces its content in two separate  *)
(* queue calls and is called from two tasks:                               *)
(*   - the event loop, when the display sends the magic message;           *)
(*   - async_tcp, which runs the HTTP handlers and the MQTT callbacks.     *)
(*                                                                         *)
(* An entry of a property table is reduced to what steers the dump: its    *)
(* one-off iteration number (0 for an ordinary entry).  Delays are left    *)
(* out: a send_state task may stay anywhere for any time.                  *)
(***************************************************************************)
EXTENDS Naturals, Sequences

CONSTANTS
  Senders,      \* the send_state tasks
  Table,        \* Table[s] : the sequence of one-off numbers of s's properties
  IterationCap  \* 100 in send_state

ASSUME CapAssumption == IterationCap \in Nat \ {0}

(* The counter stays at the cap for good, so no one-off may wait for it.    *)
ASSUME TableAssumption ==
  Table \in [Senders -> Seq(0 .. IterationCap - 1)]

Roles == {"MASTER", "SLAVE"}
Commands == {"START", "STOP"}
None == "none"
Loop == "event_loop"
Tcp == "async_tcp"
Callers == {Loop, Tcp}

VARIABLES
  role,         \* role of the board, kept in flash
  passthrough,  \* forward messages instead of keeping models
  controlQ,     \* control_q
  toggling,     \* toggling[c] : the command c has yet to put on control_q
  status,       \* "up", or why abort() was called
  at,           \* at[s] : where sender s is in send_state
  cmd,          \* cmd[s] : local variable cmd
  iteration,    \* iteration[s] : local variable iteration
  idx,          \* idx[s] : position of SendState in the property table
  last,         \* history: the command put on control_q last
  taken,        \* history: taken[s][i] : how often entry i was sent since
                \*   the iteration of s was last set to 1 (counts to 2)
  finished      \* history: finished[s] : dumps of s that ended while a STOP
                \*   was on control_q, since that STOP (counts to 2)

control == <<controlQ, toggling, last>>
locals == <<at, cmd, iteration, idx, taken>>
vars == <<role, passthrough, controlQ, toggling, status, at, cmd, iteration,
          idx, last, taken, finished>>

Entries(s) == 1 .. Len(Table[s])
Zeros(s) == [i \in Entries(s) |-> 0]
UpTo2(n) == IF n < 2 THEN n + 1 ELSE 2

TypeOK ==
  /\ role \in Roles
  /\ passthrough \in BOOLEAN
  /\ controlQ \in {<<>>} \cup {<<c>> : c \in Commands}
  /\ toggling \in [Callers -> Commands \cup {None}]
  /\ status \in {"up", "toggle_failed", "restart"}
  /\ at \in [Senders -> {"wait", "loop", "dump"}]
  /\ cmd \in [Senders -> Commands \cup {None}]
  /\ iteration \in [Senders -> 1 .. IterationCap + 1]
  /\ idx \in [Senders -> Nat]
  /\ last \in Commands \cup {None}
  /\ \A s \in Senders : idx[s] \in 1 .. Len(Table[s]) + 1
  /\ DOMAIN taken = Senders
  /\ \A s \in Senders : taken[s] \in [Entries(s) -> 0 .. 2]
  /\ finished \in [Senders -> 0 .. 2]
-----------------------------------------------------------------------------
(* The state setup() and master_loop leave behind.  A slave always forwards. *)
Init ==
  /\ role \in Roles
  /\ passthrough = (role = "SLAVE")
  /\ controlQ = <<>>
  /\ toggling = [c \in Callers |-> None]
  /\ status = "up"
  /\ at = [s \in Senders |-> "wait"]
  /\ cmd = [s \in Senders |-> None]
  /\ iteration = [s \in Senders |-> 1]
  /\ idx = [s \in Senders |-> 1]
  /\ last = None
  /\ taken = [s \in Senders |-> Zeros(s)]
  /\ finished = [s \in Senders |-> 0]

(* abort() resets the chip; the role comes back from flash.                *)
Reboot ==
  /\ status # "up"
  /\ passthrough' = (role = "SLAVE")
  /\ controlQ' = <<>>
  /\ toggling' = [c \in Callers |-> None]
  /\ status' = "up"
  /\ at' = [s \in Senders |-> "wait"]
  /\ cmd' = [s \in Senders |-> None]
  /\ iteration' = [s \in Senders |-> 1]
  /\ idx' = [s \in Senders |-> 1]
  /\ last' = None
  /\ taken' = [s \in Senders |-> Zeros(s)]
  /\ finished' = [s \in Senders |-> 0]
  /\ UNCHANGED role
-----------------------------------------------------------------------------
(* toggle_send_state, first call: take the current command off, if any.    *)
ToggleReceive(c, command) ==
  /\ toggling[c] = None
  /\ toggling' = [toggling EXCEPT ![c] = command]
  /\ controlQ' = <<>>
  /\ UNCHANGED <<role, passthrough, status, last, locals, finished>>

(* toggle_send_state, second call: put the new command on, or abort().     *)
ToggleSend(c) ==
  /\ status = "up"
  /\ toggling[c] # None
  /\ IF controlQ = <<>>
     THEN /\ controlQ' = <<toggling[c]>>
          /\ last' = toggling[c]
          /\ toggling' = [toggling EXCEPT ![c] = None]
          /\ finished' = [s \in Senders |-> 0]
          /\ UNCHANGED status
     ELSE /\ status' = "toggle_failed"
          /\ UNCHANGED <<control, finished>>
  /\ UNCHANGED <<role, passthrough, locals>>

(* Mutant: the magic message starts the dumps in passthrough too.          *)
MagicMessageAlways == status = "up" /\ ToggleReceive(Loop, "START")

(* QueueRecvCallback, magic message from the display.  In passthrough it   *)
(* is forwarded and starts nothing.                                        *)
MagicMessage ==
  /\ status = "up"
  /\ IF passthrough
     THEN toggling[Loop] = None /\ UNCHANGED vars
     ELSE ToggleReceive(Loop, "START")

(* async_tcp runs one handler at a time, and only on the master.           *)
TcpFree == status = "up" /\ role = "MASTER" /\ toggling[Tcp] = None

(* HTTP /start and /stop, MQTT car/controller/can/start and .../stop.      *)
UserCommand(command) ==
  /\ TcpFree
  /\ ToggleReceive(Tcp, command)

(* HTTP /passthrough.                                                      *)
UserPassthrough ==
  /\ TcpFree
  /\ passthrough' = TRUE
  /\ UNCHANGED <<role, control, status, locals, finished>>

(* MQTT car/controller/restart.                                            *)
UserRestart ==
  /\ TcpFree
  /\ status' = "restart"
  /\ UNCHANGED <<role, passthrough, control, locals, finished>>
-----------------------------------------------------------------------------
(* send_state blocks in its first xQueuePeek until there is a command.     *)
FirstPeek(s) ==
  /\ at[s] = "wait"
  /\ controlQ # <<>>
  /\ cmd' = [cmd EXCEPT ![s] = Head(controlQ)]
  /\ at' = [at EXCEPT ![s] = "loop"]
  /\ UNCHANGED <<iteration, idx, taken, finished>>

(* Mutant: a stopped sender does not go back to iteration 1.               *)
StoppedPeekNoReset(s) ==
  /\ at[s] = "loop"
  /\ cmd[s] = "STOP"
  /\ controlQ # <<>>
  /\ cmd' = [cmd EXCEPT ![s] = Head(controlQ)]
  /\ taken' = [taken EXCEPT ![s] = Zeros(s)]
  /\ UNCHANGED <<at, iteration, idx, finished>>

(* Stopped: peek again, start over from iteration 1.                       *)
StoppedPeek(s) ==
  /\ at[s] = "loop"
  /\ cmd[s] = "STOP"
  /\ controlQ # <<>>
  /\ cmd' = [cmd EXCEPT ![s] = Head(controlQ)]
  /\ iteration' = [iteration EXCEPT ![s] = 1]
  /\ taken' = [taken EXCEPT ![s] = Zeros(s)]
  /\ UNCHANGED <<at, idx, finished>>

BeginDump(s) ==
  /\ at[s] = "loop"
  /\ cmd[s] # "STOP"
  /\ at' = [at EXCEPT ![s] = "dump"]
  /\ idx' = [idx EXCEPT ![s] = 1]
  /\ UNCHANGED <<cmd, iteration, taken, finished>>

OneOff(s) == Table[s][idx[s]]

(* SendState skips the one-off entries of the other iterations.            *)
SkipEntry(s) ==
  /\ at[s] = "dump"
  /\ idx[s] \in Entries(s)
  /\ OneOff(s) > 0 /\ OneOff(s) # iteration[s]
  /\ idx' = [idx EXCEPT ![s] = @ + 1]
  /\ UNCHANGED <<at, cmd, iteration, taken, finished>>

(* SendState delays, sends the entry, and ends the dump after a one-off.   *)
SendEntry(s) ==
  /\ at[s] = "dump"
  /\ idx[s] \in Entries(s)
  /\ OneOff(s) \in {0, iteration[s]}
  /\ taken' = [taken EXCEPT ![s][idx[s]] = UpTo2(@)]
  /\ idx' = [idx EXCEPT ![s] = IF OneOff(s) > 0 THEN Len(Table[s]) + 1
                                                ELSE @ + 1]
  /\ UNCHANGED <<at, cmd, iteration, finished>>

(* Mutants: the counter is never capped, or wraps around.                  *)
NextIterationUncapped(n) == n + 1
NextIterationWraps(n) == IF n > IterationCap THEN 1 ELSE n + 1

(* iteration = (iteration > 100) ? 100 : iteration + 1                     *)
NextIteration(n) == IF n > IterationCap THEN IterationCap ELSE n + 1

(* Mutant: no peek at the end of a dump.                                   *)
EndDumpNoPeek(s) ==
  /\ at[s] = "dump"
  /\ idx[s] \notin Entries(s)
  /\ iteration' = [iteration EXCEPT ![s] = NextIteration(@)]
  /\ at' = [at EXCEPT ![s] = "loop"]
  /\ finished' = [finished EXCEPT ![s] = IF controlQ = <<"STOP">>
                                         THEN UpTo2(@) ELSE @]
  /\ UNCHANGED <<cmd, idx, taken>>

(* Mutant: no command on the queue is taken for a STOP.                    *)
EndDumpDefaultsToStop(s) ==
  /\ at[s] = "dump"
  /\ idx[s] \notin Entries(s)
  /\ iteration' = [iteration EXCEPT ![s] = NextIteration(@)]
  /\ cmd' = [cmd EXCEPT ![s] = IF controlQ = <<>> THEN "STOP" ELSE Head(controlQ)]
  /\ at' = [at EXCEPT ![s] = "loop"]
  /\ finished' = [finished EXCEPT ![s] = IF controlQ = <<"STOP">>
                                         THEN UpTo2(@) ELSE @]
  /\ UNCHANGED <<idx, taken>>

(* The end of a dump: count it, and peek without blocking.                 *)
EndDump(s) ==
  /\ at[s] = "dump"
  /\ idx[s] \notin Entries(s)
  /\ iteration' = [iteration EXCEPT ![s] = NextIteration(@)]
  /\ cmd' = [cmd EXCEPT ![s] = IF controlQ = <<>> THEN @ ELSE Head(controlQ)]
  /\ at' = [at EXCEPT ![s] = "loop"]
  /\ finished' = [finished EXCEPT ![s] = IF controlQ = <<"STOP">>
                                         THEN UpTo2(@) ELSE @]
  /\ UNCHANGED <<idx, taken>>

(* Mutant: the end of a dump takes the command off the queue.              *)
SendStateConsumes(s) ==
  /\ status = "up"
  /\ \/ /\ FirstPeek(s) \/ StoppedPeek(s)
           \/ BeginDump(s) \/ SkipEntry(s) \/ SendEntry(s)
        /\ UNCHANGED controlQ
     \/ EndDump(s) /\ controlQ' = <<>>
  /\ UNCHANGED <<role, passthrough, status, toggling, last>>

SendState(s) ==
  /\ status = "up"
  /\ \/ FirstPeek(s) \/ StoppedPeek(s)
     \/ BeginDump(s) \/ SkipEntry(s) \/ SendEntry(s) \/ EndDump(s)
  /\ UNCHANGED <<role, passthrough, status, control>>
-----------------------------------------------------------------------------
Next ==
  \/ MagicMessage
  \/ \E command \in Commands : UserCommand(command)
  \/ UserPassthrough
  \/ UserRestart
  \/ \E c \in Callers : ToggleSend(c)
  \/ \E s \in Senders : SendState(s)
  \/ Reboot

Spec == Init /\ [][Next]_vars

(* Every task that can run gets to run: the tasks of the bridge are few,   *)
(* block or delay in every round, and FreeRTOS schedules all of them.  The *)
(* reset that abort() and esp_restart() ask for takes place.               *)
Fairness ==
  /\ WF_vars(Reboot)
  /\ \A c \in Callers : WF_vars(ToggleSend(c))
  /\ \A s \in Senders : WF_vars(SendState(s))

FairSpec == Spec /\ Fairness
-----------------------------------------------------------------------------
(* control_q keeps the command of the last complete toggle: peeking does   *)
(* not take it from the other senders, and only a toggle that is under way *)
(* leaves the queue empty.                                                 *)
CommandKept ==
  /\ last # None
  /\ \A c \in Callers : toggling[c] = None
  => controlQ = <<last>>

(* A one-off property, the handshake of an ECU that wakes up, is not sent  *)
(* twice before the sender has been stopped.                               *)
OneOffOnce ==
  \A s \in Senders : \A i \in Entries(s) :
    Table[s][i] > 0 => taken[s][i] <= 1

(* After a STOP a sender ends at most one dump, the one it is in or about  *)
(* to begin ("state stopping will only happen after sending is done").     *)
StopBound ==
  controlQ = <<"STOP">> => \A s \in Senders : finished[s] <= 1

(* A slave never dumps a model: it has none of its own state to show.      *)
SlaveSilent ==
  role = "SLAVE" => \A s \in Senders : at[s] = "wait"

(* toggle_send_state asserts that the slot it has emptied is still empty.  *)
ToggleNeverFails == status # "toggle_failed"

(* A STOP that stays on control_q brings every sender to rest.             *)
StopHalts ==
  <>[](controlQ = <<"STOP">>)
    => <>[](\A s \in Senders : at[s] = "loop" /\ cmd[s] = "STOP")

(* With a START that stays, every sender works through all its one-off     *)
(* entries and sends each of them.                                         *)
HandshakeCompletes ==
  <>[](controlQ = <<"START">>)
    => <>[](\A s \in Senders : \A i \in Entries(s) :
              Table[s][i] > 0 => taken[s][i] = 1)

(* The queue and its two-call update implement a register.                 *)
Register == INSTANCE CommandRegister WITH reg <- last
ImplementsRegister == Register!Spec
=============================================================================
