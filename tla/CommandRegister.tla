--------------------------- MODULE CommandRegister ---------------------------
(***************************************************************************)
(* What the one-element FreeRTOS queue control_q is used for in            *)
(* src/master.cpp: a register that holds the latest command.  Writing it   *)
(* replaces the command, reading it does not consume the command, so all   *)
(* send_state tasks see the same one.  A reboot clears everything.         *)
(*                                                                         *)
(* SendControl, where a write takes two separate queue calls and readers   *)
(* may find the queue empty, is shown to implement this specification.     *)
(***************************************************************************)
CONSTANTS
  Senders,   \* the tasks that read the register
  Commands,  \* the values that are written
  None       \* the register, or a local copy, before the first write or read

VARIABLES
  reg,       \* the latest command
  cmd        \* cmd[s] : what sender s read last

vars == <<reg, cmd>>

Init ==
  /\ reg = None
  /\ cmd = [s \in Senders |-> None]

Write(c) ==
  /\ reg' = c
  /\ UNCHANGED cmd

Read(s) ==
  /\ reg # None
  /\ cmd' = [cmd EXCEPT ![s] = reg]
  /\ UNCHANGED reg

Reboot ==
  /\ reg' = None
  /\ cmd' = [s \in Senders |-> None]

Next ==
  \/ \E c \in Commands : Write(c)
  \/ \E s \in Senders : Read(s)
  \/ Reboot

Spec == Init /\ [][Next]_vars
=============================================================================
