-------------------------- MODULE SendControlProofs --------------------------
(***************************************************************************)
(* Proofs about SendControl, for any set of senders, any property tables   *)
(* and any cap.  Each invariant is stated as one inductive invariant, with *)
(* one step of the proof per action that can disturb it.                   *)
(***************************************************************************)
EXTENDS SendControl, TLAPS

(* What the proofs use of the property tables.                             *)
LEMMA TableFacts ==
  ASSUME NEW s \in Senders
  PROVE  /\ Table[s] \in Seq(Nat)
         /\ Len(Table[s]) \in Nat
         /\ \A i \in Entries(s) : /\ i \in Nat
                                  /\ Table[s][i] \in Nat
                                  /\ Table[s][i] < IterationCap
<1>1. Table[s] \in Seq(0 .. IterationCap - 1)
  BY TableAssumption
<1>2. Len(Table[s]) \in Nat
  BY <1>1, CapAssumption
<1>3. \A i \in Entries(s) : Table[s][i] \in 0 .. IterationCap - 1
  BY <1>1, <1>2, CapAssumption DEF Entries
<1> QED
  BY <1>1, <1>2, <1>3, CapAssumption DEF Entries

(* The history of a sender that has just been set back has its type.       *)
LEMMA ZerosType ==
  ASSUME NEW s \in Senders
  PROVE  Zeros(s) \in [Entries(s) -> 0 .. 2]
  BY DEF Zeros

-----------------------------------------------------------------------------
(* The types hold after setup().                                           *)
LEMMA TypeInit == Init => TypeOK
<1> SUFFICES ASSUME Init PROVE TypeOK
  OBVIOUS
<1>1. \A s \in Senders : taken[s] \in [Entries(s) -> 0 .. 2]
  BY ZerosType DEF Init
<1> QED
  BY <1>1, TableFacts, CapAssumption
  DEF Init, TypeOK, Roles, Callers, Commands, None, Loop, Tcp

(* One round of a sender keeps the types of its local variables.           *)
LEMMA TypeSendState ==
  ASSUME TypeOK, NEW s \in Senders, SendState(s)
  PROVE  TypeOK'
<1> USE CapAssumption
<1>0. /\ Len(Table[s]) \in Nat
      /\ Zeros(s) \in [Entries(s) -> 0 .. 2]
  BY TableFacts, ZerosType
<1>1. controlQ # <<>> => Head(controlQ) \in Commands
  BY DEF TypeOK
<1>2. CASE FirstPeek(s)
  BY <1>1, <1>2 DEF SendState, FirstPeek, TypeOK, control
<1>3. CASE StoppedPeek(s)
  BY <1>0, <1>1, <1>3 DEF SendState, StoppedPeek, TypeOK, control
<1>4. CASE BeginDump(s)
  BY <1>0, <1>4 DEF SendState, BeginDump, TypeOK, control
<1>5. CASE SkipEntry(s)
  BY <1>0, <1>5 DEF SendState, SkipEntry, TypeOK, control, Entries
<1>6. CASE SendEntry(s)
  <2> DEFINE i == idx[s]
             n == UpTo2(taken[s][i])
             k == IF OneOff(s) > 0 THEN Len(Table[s]) + 1 ELSE i + 1
  <2>1. /\ DOMAIN taken' = Senders
        /\ \A t \in Senders : taken'[t] \in [Entries(t) -> 0 .. 2]
    <3>1. n \in 0 .. 2
      BY <1>6 DEF SendEntry, TypeOK, UpTo2
    <3>2. taken' = [taken EXCEPT ![s] = [taken[s] EXCEPT ![i] = n]]
      BY <1>6 DEF SendEntry, TypeOK
    <3>3. [taken[s] EXCEPT ![i] = n] \in [Entries(s) -> 0 .. 2]
      BY <1>6, <3>1 DEF SendEntry, TypeOK
    <3> HIDE DEF n, i
    <3> QED
      BY <3>2, <3>3 DEF TypeOK
  <2>2. /\ idx' \in [Senders -> Nat]
        /\ \A t \in Senders : idx'[t] \in 1 .. Len(Table[t]) + 1
    <3>1. k \in 1 .. Len(Table[s]) + 1
      BY <1>0, <1>6 DEF SendEntry, TypeOK, Entries
    <3>2. idx' = [idx EXCEPT ![s] = k]
      BY <1>6 DEF SendEntry
    <3> HIDE DEF k, i
    <3> QED
      BY <1>0, <3>1, <3>2 DEF TypeOK
  <2> QED
    BY <1>6, <2>1, <2>2 DEF SendState, SendEntry, TypeOK, control
<1>7. CASE EndDump(s)
  BY <1>0, <1>1, <1>7
  DEF SendState, EndDump, TypeOK, control, UpTo2, NextIteration
<1> QED
  BY <1>2, <1>3, <1>4, <1>5, <1>6, <1>7 DEF SendState

(* Every action keeps the types: callers of toggle_send_state, senders,    *)
(* and a reboot.                                                           *)
LEMMA TypeStep == TypeOK /\ [Next]_vars => TypeOK'
<1> SUFFICES ASSUME TypeOK, [Next]_vars PROVE TypeOK'
  OBVIOUS
<1> USE DEF control, locals
<1>1. ASSUME NEW c \in Callers, NEW command \in Commands,
             ToggleReceive(c, command)
      PROVE  TypeOK'
  BY <1>1 DEF TypeOK, ToggleReceive
<1>2. CASE MagicMessage
  <2>1. Loop \in Callers /\ "START" \in Commands
    BY DEF Callers, Commands
  <2>2. CASE UNCHANGED vars
    BY <2>2 DEF TypeOK, vars
  <2> QED
    BY <1>1, <1>2, <2>1, <2>2 DEF MagicMessage
<1>3. ASSUME NEW command \in Commands, UserCommand(command)
      PROVE  TypeOK'
  BY <1>1, <1>3 DEF UserCommand, Callers
<1>4. CASE UserPassthrough
  BY <1>4 DEF TypeOK, UserPassthrough
<1>5. CASE UserRestart
  BY <1>5 DEF TypeOK, UserRestart
<1>6. ASSUME NEW c \in Callers, ToggleSend(c)
      PROVE  TypeOK'
  <2> SUFFICES ASSUME status = "up", toggling[c] \in Commands,
                      controlQ = <<>>,
                      controlQ' = <<toggling[c]>>,
                      last' = toggling[c],
                      toggling' = [toggling EXCEPT ![c] = None],
                      finished' = [s \in Senders |-> 0]
               PROVE  TypeOK'
    BY <1>6 DEF TypeOK, ToggleSend
  <2> QED
    BY <1>6 DEF TypeOK, ToggleSend
<1>7. ASSUME NEW s \in Senders, SendState(s)
      PROVE  TypeOK'
  BY <1>7, TypeSendState
<1>8. CASE Reboot
  <2>1. \A s \in Senders : taken'[s] \in [Entries(s) -> 0 .. 2]
    BY <1>8, ZerosType DEF Reboot
  <2> QED
    BY <1>8, <2>1, TableFacts, CapAssumption DEF Reboot, TypeOK
<1>9. CASE UNCHANGED vars
  BY <1>9 DEF TypeOK, vars
<1> QED
  BY <1>2, <1>3, <1>4, <1>5, <1>6, <1>7, <1>8, <1>9 DEF Next

(* Every variable of SendControl keeps its type; in particular the         *)
(* iteration counter never passes the cap by more than one.                *)
THEOREM TypeCorrect == Spec => []TypeOK
<1> QED
  BY TypeInit, TypeStep, PTL DEF Spec

-----------------------------------------------------------------------------
(* CommandKept is not inductive: a writer that is under way may find the   *)
(* queue as another one left it.  The queue is empty or has the last       *)
(* command, and it is empty only before the first or during a toggle.      *)
QueueInv ==
  /\ controlQ = <<>> \/ controlQ = <<last>>
  /\ controlQ = <<>> => last = None \/ \E c \in Callers : toggling[c] # None

(* Every action keeps QueueInv: a toggle that empties the queue is under   *)
(* way until it has filled it, and senders only peek.                      *)
LEMMA QueueStep ==
  ASSUME TypeOK, QueueInv, [Next]_vars
  PROVE  QueueInv'
<1> USE DEF control
<1>1. ASSUME NEW c \in Callers, NEW command \in Commands,
             ToggleReceive(c, command)
      PROVE  QueueInv'
  BY <1>1 DEF QueueInv, TypeOK, ToggleReceive, Commands, None
<1>2. CASE MagicMessage
  <2>1. Loop \in Callers /\ "START" \in Commands
    BY DEF Callers, Commands
  <2>2. CASE UNCHANGED vars
    BY <2>2 DEF QueueInv, vars
  <2> QED
    BY <1>1, <1>2, <2>1, <2>2 DEF MagicMessage
<1>3. ASSUME NEW command \in Commands, UserCommand(command)
      PROVE  QueueInv'
  BY <1>1, <1>3 DEF UserCommand, Callers
<1>4. ASSUME NEW c \in Callers, ToggleSend(c)
      PROVE  QueueInv'
  BY <1>4 DEF QueueInv, ToggleSend
<1>5. CASE Reboot
  BY <1>5 DEF QueueInv, Reboot
<1>6. CASE UNCHANGED control
  BY <1>6 DEF QueueInv
<1> QED
  BY <1>1, <1>2, <1>3, <1>4, <1>5, <1>6
  DEF Next, vars, UserPassthrough, UserRestart, SendState

(* QueueInv holds in every state of the dump control.                      *)
LEMMA QueueAlways == Spec => []QueueInv
<1>1. Init => QueueInv
  BY DEF Init, QueueInv
<1> QED
  BY <1>1, TypeCorrect, QueueStep, PTL DEF Spec

(* Outside a toggle the queue holds the last command: toggle_send_state    *)
(* loses none, and peeking takes none away.                                *)
THEOREM CommandKeptAlways == Spec => []CommandKept
<1>1. QueueInv => CommandKept
  BY DEF QueueInv, CommandKept
<1> QED
  BY <1>1, QueueAlways, PTL

(* The queue that is updated in two calls and read by peeking implements   *)
(* the register of CommandRegister.                                        *)
THEOREM RegisterImplemented == Spec => ImplementsRegister
<1>1. Init => Register!Init
  BY DEF Init, Register!Init
<1>2. ASSUME TypeOK, QueueInv, [Next]_vars
      PROVE  [Register!Next]_(Register!vars)
  <2> USE <1>2 DEF control, locals, Register!vars
  <2>1. ASSUME NEW c \in Callers, ToggleSend(c)
        PROVE  [Register!Next]_(Register!vars)
    <3>1. CASE UNCHANGED last
      BY <2>1, <3>1 DEF ToggleSend
    <3>2. CASE last' = toggling[c]
      <4>1. toggling[c] \in Commands
        BY <2>1 DEF ToggleSend, TypeOK
      <4>2. Register!Write(toggling[c])
        BY <2>1, <3>2 DEF ToggleSend, Register!Write
      <4> QED
        BY <4>1, <4>2 DEF Register!Next
    <3> QED
      BY <2>1, <3>1, <3>2 DEF ToggleSend
  <2>2. ASSUME NEW s \in Senders, SendState(s)
        PROVE  [Register!Next]_(Register!vars)
    <3>1. CASE cmd' = [cmd EXCEPT ![s] = Head(controlQ)] /\ controlQ # <<>>
      <4>1. Head(controlQ) = last /\ last # None
        BY <3>1 DEF QueueInv, TypeOK, Commands, None
      <4>2. Register!Read(s)
        BY <2>2, <3>1, <4>1 DEF SendState, Register!Read
      <4> QED
        BY <4>2 DEF Register!Next
    <3>2. CASE UNCHANGED cmd
      BY <2>2, <3>2 DEF SendState
    <3>3. CASE EndDump(s)
      <4>1. CASE controlQ = <<>>
        BY <3>2, <3>3, <4>1 DEF EndDump, TypeOK
      <4>2. CASE controlQ # <<>>
        BY <3>1, <3>3, <4>2 DEF EndDump
      <4> QED
        BY <4>1, <4>2
    <3> QED
      BY <2>2, <3>1, <3>2, <3>3
      DEF SendState, FirstPeek, StoppedPeek, BeginDump, SkipEntry, SendEntry
  <2>3. CASE Reboot
    BY <2>3 DEF Reboot, Register!Next, Register!Reboot
  <2>4. CASE UNCHANGED <<last, cmd>>
    BY <2>4
  <2> QED
    BY <2>1, <2>2, <2>3, <2>4
    DEF Next, vars, MagicMessage, UserCommand, ToggleReceive,
        UserPassthrough, UserRestart
<1> QED
  BY <1>1, <1>2, TypeCorrect, QueueAlways, PTL
  DEF Spec, ImplementsRegister, Register!Spec

-----------------------------------------------------------------------------
(* On a slave nothing can write to control_q: it stays in passthrough, and *)
(* it has no async_tcp.  So its senders never get past their first peek.   *)
SlaveInv ==
  role = "SLAVE" =>
    /\ passthrough
    /\ controlQ = <<>>
    /\ \A c \in Callers : toggling[c] = None
    /\ \A s \in Senders : at[s] = "wait"

(* Every action keeps SlaveInv: the magic message is forwarded, and the    *)
(* callers in async_tcp do not exist.                                      *)
LEMMA SlaveStep ==
  ASSUME TypeOK, SlaveInv, [Next]_vars
  PROVE  SlaveInv'
<1> SUFFICES ASSUME role = "SLAVE", UNCHANGED role
             PROVE  SlaveInv'
  BY DEF SlaveInv, Next, vars, MagicMessage, UserCommand, ToggleReceive,
         UserPassthrough, UserRestart, ToggleSend, SendState, Reboot
<1>1. CASE MagicMessage
  BY <1>1 DEF SlaveInv, MagicMessage, vars
<1>2. ASSUME NEW c \in Callers, ToggleSend(c)
      PROVE  SlaveInv'
  BY <1>2 DEF SlaveInv, ToggleSend
<1>3. ASSUME NEW s \in Senders, SendState(s)
      PROVE  SlaveInv'
  BY <1>3
  DEF SlaveInv, SendState, FirstPeek, StoppedPeek, BeginDump, SkipEntry,
      SendEntry, EndDump, control
<1>4. CASE Reboot
  BY <1>4 DEF SlaveInv, Reboot
<1>5. CASE UNCHANGED vars
  BY <1>5 DEF SlaveInv, vars
<1> QED
  BY <1>1, <1>2, <1>3, <1>4, <1>5
  DEF Next, UserCommand, UserPassthrough, UserRestart, TcpFree

(* A slave never dumps a model, whatever arrives on its bus.               *)
THEOREM SlaveSilentAlways == Spec => []SlaveSilent
<1>1. Init => SlaveInv
  BY DEF Init, SlaveInv
<1>2. SlaveInv => SlaveSilent
  BY DEF SlaveInv, SlaveSilent
<1> QED
  BY <1>1, <1>2, TypeCorrect, SlaveStep, PTL DEF Spec

-----------------------------------------------------------------------------
(* A dump that ended under the STOP that is on the queue has read it, so   *)
(* the sender rests until the command changes.                             *)
StopInv ==
  controlQ = <<"STOP">> =>
    \A s \in Senders :
      /\ finished[s] <= 1
      /\ finished[s] = 1 => at[s] = "loop" /\ cmd[s] = "STOP"

(* A round of send_state keeps StopInv: the peek that ends a dump reads    *)
(* the STOP, and then the sender only peeks.                               *)
LEMMA StopSendState ==
  ASSUME TypeOK, StopInv, NEW s \in Senders, SendState(s)
  PROVE  StopInv'
<1> SUFFICES ASSUME controlQ = <<"STOP">>, UNCHANGED controlQ,
                    NEW t \in Senders
             PROVE  /\ finished'[t] <= 1
                    /\ finished'[t] = 1 => at'[t] = "loop" /\ cmd'[t] = "STOP"
  BY DEF StopInv, SendState, control
<1>1. Head(controlQ) = "STOP"
  OBVIOUS
<1>2. /\ finished[t] \in 0 .. 2 /\ finished[t] <= 1
      /\ finished[t] = 1 => at[t] = "loop" /\ cmd[t] = "STOP"
  BY DEF StopInv, TypeOK
<1>3. CASE t # s
  BY <1>2, <1>3
  DEF SendState, FirstPeek, StoppedPeek, BeginDump, SkipEntry, SendEntry,
      EndDump, TypeOK
<1>4. CASE t = s /\ EndDump(s)
  BY <1>1, <1>2, <1>4 DEF EndDump, TypeOK, UpTo2
<1>5. CASE t = s /\ ~EndDump(s)
  BY <1>1, <1>2, <1>5
  DEF SendState, FirstPeek, StoppedPeek, BeginDump, SkipEntry, SendEntry,
      TypeOK
<1> QED
  BY <1>3, <1>4, <1>5

(* Every action keeps StopInv: a new command sets the history back.        *)
LEMMA StopStep ==
  ASSUME TypeOK, StopInv, [Next]_vars
  PROVE  StopInv'
<1>1. ASSUME NEW c \in Callers, ToggleSend(c)
      PROVE  StopInv'
  BY <1>1 DEF StopInv, ToggleSend, control, locals
<1>2. ASSUME NEW s \in Senders, SendState(s)
      PROVE  StopInv'
  BY <1>2, StopSendState
<1>3. CASE controlQ' = <<>>
  BY <1>3 DEF StopInv
<1>4. CASE UNCHANGED <<controlQ, locals, finished>>
  BY <1>4 DEF StopInv, locals
<1> QED
  BY <1>1, <1>2, <1>3, <1>4
  DEF Next, vars, MagicMessage, UserCommand, ToggleReceive, UserPassthrough,
      UserRestart, Reboot, control, locals

(* After a STOP no sender ends more than one dump.                         *)
THEOREM StopBoundAlways == Spec => []StopBound
<1>1. Init => StopInv
  <2>1. Init => controlQ = <<>>
    BY DEF Init
  <2> QED
    BY <2>1 DEF StopInv
<1>2. StopInv => StopBound
  BY DEF StopInv, StopBound
<1> QED
  BY <1>1, <1>2, TypeCorrect, StopStep, PTL DEF Spec

-----------------------------------------------------------------------------
(* What entry i of sender s owes to the iteration: it is not sent before   *)
(* its iteration, and sending it ends the dump that belongs to it.         *)
OneOffInv ==
  \A s \in Senders : \A i \in Entries(s) :
    Table[s][i] > 0 =>
      /\ taken[s][i] <= 1
      /\ Table[s][i] > iteration[s] => taken[s][i] = 0
      /\ Table[s][i] = iteration[s] =>
           taken[s][i] = 0 \/ (at[s] = "dump" /\ idx[s] = Len(Table[s]) + 1)
      /\ at[s] = "wait" => iteration[s] = 1

(* A round of send_state keeps OneOffInv: an entry is sent in the          *)
(* iteration it is numbered for, which that dump ends.                     *)
LEMMA OneOffSendState ==
  ASSUME TypeOK, OneOffInv, NEW s \in Senders, SendState(s)
  PROVE  OneOffInv'
<1> SUFFICES ASSUME NEW t \in Senders, NEW i \in Entries(t),
                    Table[t][i] > 0
             PROVE  /\ taken'[t][i] <= 1
                    /\ Table[t][i] > iteration'[t] => taken'[t][i] = 0
                    /\ Table[t][i] = iteration'[t] =>
                         \/ taken'[t][i] = 0
                         \/ at'[t] = "dump" /\ idx'[t] = Len(Table[t]) + 1
                    /\ at'[t] = "wait" => iteration'[t] = 1
  BY DEF OneOffInv, Entries
<1> DEFINE one == Table[t][i]
           n == iteration[t]
<1>0. /\ one \in Nat /\ one < IterationCap /\ i \in Nat
      /\ Len(Table[t]) \in Nat /\ n \in Nat /\ IterationCap \in Nat
      /\ n \in 1 .. IterationCap + 1
      /\ taken[t][i] \in 0 .. 2 /\ idx[t] \in Nat
  BY TableFacts, CapAssumption DEF TypeOK
<1>1. /\ taken[t][i] <= 1
      /\ one > n => taken[t][i] = 0
      /\ one = n => taken[t][i] = 0 \/ (at[t] = "dump" /\ idx[t] = Len(Table[t]) + 1)
      /\ at[t] = "wait" => n = 1
  BY DEF OneOffInv
<1>2. CASE t # s
  BY <1>1, <1>2
  DEF SendState, FirstPeek, StoppedPeek, BeginDump, SkipEntry, SendEntry,
      EndDump, TypeOK
<1>3. CASE t = s /\ FirstPeek(s)
  BY <1>1, <1>3 DEF FirstPeek, TypeOK
<1>4. CASE t = s /\ StoppedPeek(s)
  BY <1>0, <1>1, <1>4 DEF StoppedPeek, TypeOK, Zeros
<1>5. CASE t = s /\ BeginDump(s)
  BY <1>1, <1>5 DEF BeginDump, TypeOK
<1>6. CASE t = s /\ SkipEntry(s)
  BY <1>0, <1>1, <1>6 DEF SkipEntry, TypeOK, Entries
<1>7. CASE t = s /\ SendEntry(s)
  <2>1. idx[s] \in Entries(s) /\ idx[s] # Len(Table[s]) + 1
    BY <1>0, <1>7 DEF SendEntry, Entries
  <2>2. UNCHANGED <<at, iteration>> /\ at[s] = "dump"
    BY <1>7 DEF SendEntry
  <2>3. CASE idx[s] # i
    <3>1. taken'[t][i] = taken[t][i]
      BY <1>7, <2>3 DEF SendEntry, TypeOK
    <3> QED
      BY <1>0, <1>1, <1>7, <2>1, <2>2, <3>1
  <2>4. CASE idx[s] = i
    <3>1. one = n
      BY <1>0, <1>7, <2>4 DEF SendEntry, OneOff
    <3>2. taken[t][i] = 0
      BY <1>1, <1>7, <2>1, <3>1
    <3>3. taken'[t][i] = 1
      BY <1>7, <2>4, <3>2 DEF SendEntry, TypeOK, UpTo2
    <3>4. idx'[t] = Len(Table[t]) + 1
      BY <1>0, <1>7, <2>4 DEF SendEntry, OneOff, TypeOK
    <3> QED
      BY <1>0, <1>7, <2>2, <3>1, <3>3, <3>4
  <2> QED
    BY <2>3, <2>4
<1>8. CASE t = s /\ EndDump(s)
  <2>1. /\ UNCHANGED taken
        /\ iteration'[t] = NextIteration(n)
        /\ at'[t] = "loop"
    BY <1>8 DEF EndDump, TypeOK
  <2>2. one > NextIteration(n) \/ one = NextIteration(n) => one > n
    BY <1>0 DEF NextIteration
  <2> QED
    BY <1>1, <2>1, <2>2
<1> QED
  BY <1>2, <1>3, <1>4, <1>5, <1>6, <1>7, <1>8 DEF SendState

(* Every action keeps OneOffInv: only send_state and a reboot touch it.    *)
LEMMA OneOffStep ==
  ASSUME TypeOK, OneOffInv, [Next]_vars
  PROVE  OneOffInv'
<1>1. ASSUME NEW s \in Senders, SendState(s)
      PROVE  OneOffInv'
  BY <1>1, OneOffSendState
<1>2. CASE Reboot
  <2>1. \A s \in Senders : /\ at'[s] = "wait" /\ iteration'[s] = 1
                            /\ \A i \in Entries(s) : taken'[s][i] = 0
    BY <1>2 DEF Reboot, Zeros
  <2> QED
    BY <2>1 DEF OneOffInv, Entries
<1>3. CASE UNCHANGED locals
  BY <1>3 DEF OneOffInv, locals
<1> QED
  BY <1>1, <1>2, <1>3
  DEF Next, vars, MagicMessage, UserCommand, ToggleReceive, UserPassthrough,
      UserRestart, ToggleSend, locals

(* A one-off property is not sent twice before the sender is stopped: the  *)
(* counter passes its number once and never returns to it, since the cap   *)
(* lies above all one-off numbers.                                         *)
THEOREM OneOffOnceAlways == Spec => []OneOffOnce
<1>1. Init => OneOffInv
  <2> SUFFICES ASSUME Init PROVE OneOffInv
    OBVIOUS
  <2>1. ASSUME NEW s \in Senders, NEW i \in Entries(s)
        PROVE  at[s] = "wait" /\ iteration[s] = 1 /\ taken[s][i] = 0
    <3>1. taken[s] = Zeros(s)
      BY DEF Init
    <3> QED
      BY <3>1 DEF Init, Zeros
  <2> QED
    BY <2>1 DEF OneOffInv
<1>2. OneOffInv => OneOffOnce
  BY DEF OneOffInv, OneOffOnce
<1> QED
  BY <1>1, <1>2, TypeCorrect, OneOffStep, PTL DEF Spec
=============================================================================
