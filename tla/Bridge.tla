------------------------------- MODULE Bridge -------------------------------
(***************************************************************************)
(* One direction of the traffic through both boards in passthrough: the    *)
(* near board receives a message and sends it over the UART (UartLink),    *)
(* the far board receives it there and sends it on.  Within a board        *)
(* messages keep their order and may be lost, as IOPipeline shows.         *)
(*                                                                         *)
(* The line loses, changes or adds bytes, the sender stalls in a message,  *)
(* and either board resets at any time, which cuts what it was sending or  *)
(* throws away what it was reading.                                        *)
(***************************************************************************)
EXTENDS UartLink

CONSTANT MaxFaults  \* bound: faults that happen

ASSUME BoundAssumption == MaxFaults \in Nat

MaxMessages == Len(Length)  \* bound: messages that arrive

VARIABLES
  received,  \* number of the message that arrived last at the near board
  near,      \* messages in the near board, oldest first
  far,       \* messages in the far board
  shown,     \* number of the message that left the far board last
  faults     \* number of faults so far

uart == <<tx, line, rx>>
vars == <<uart, received, near, far, shown, faults>>

Bytes == {Noise} \cup [of : Messages, at : 0 .. MaxLength]

TypeOK ==
  /\ tx \in Seq(Bytes) /\ line \in Seq(Bytes)
  /\ rx \in {AtLength} \cup 1 .. MaxLength
  /\ received \in 0 .. MaxMessages /\ shown \in 0 .. MaxMessages
  /\ near \in Seq(Messages) /\ far \in Seq(Messages \cup {Garbage})
  /\ faults \in 0 .. MaxFaults

Init ==
  /\ tx = <<>> /\ line = <<>> /\ rx = AtLength
  /\ received = 0 /\ near = <<>>
  /\ far = <<>> /\ shown = 0
  /\ faults = 0
-----------------------------------------------------------------------------
(* The near board: twai_receive_task and uart_tx_task.                     *)
Receive ==
  /\ received < MaxMessages
  /\ received' = received + 1
  /\ near' = Append(near, received + 1)
  /\ UNCHANGED <<uart, far, shown, faults>>

Transmit ==
  /\ near # <<>>
  /\ WriteLength(Head(near))
  /\ near' = Tail(near)
  /\ UNCHANGED <<received, far, shown, faults>>

TransmitRest == WriteMessage /\ UNCHANGED <<received, near, far, shown, faults>>

(* The far board: uart_receive_task and twai_tx_task.                      *)
Wait == ReadLength /\ UNCHANGED <<received, near, far, shown, faults>>

(* Mutant: xQueueSendToFront.                                              *)
AcceptInFront ==
  /\ \E result \in {<<>>, <<Garbage>>} \cup {<<m>> : m \in Messages} :
       ReadMessage(result) /\ far' = result \o far
  /\ UNCHANGED <<received, near, shown, faults>>

Accept ==
  /\ \E result \in {<<>>, <<Garbage>>} \cup {<<m>> : m \in Messages} :
       ReadMessage(result) /\ far' = far \o result
  /\ UNCHANGED <<received, near, shown, faults>>

(* Mutant: portMAX_DELAY in place of 100 ms.                               *)
GiveUpNever ==
  /\ SenderIdle
  /\ rx = 0
  /\ ReadTimesOut
  /\ UNCHANGED <<received, near, far, shown, faults>>

(* Mutant: no time for the rest of a message.                              *)
GiveUpAtOnce ==
  /\ ReadTimesOut
  /\ UNCHANGED <<received, near, far, shown, faults>>

(* A sender that has written the length writes the rest within 100 ms.     *)
GiveUp ==
  /\ SenderIdle
  /\ ReadTimesOut
  /\ UNCHANGED <<received, near, far, shown, faults>>

Leave ==
  /\ far # <<>>
  /\ far' = Tail(far)
  /\ shown' = IF Head(far) = Garbage THEN shown ELSE Head(far)
  /\ UNCHANGED <<uart, received, near, faults>>

(* A full queue, or a failure to send.                                     *)
Without(q, i) == SubSeq(q, 1, i - 1) \o SubSeq(q, i + 1, Len(q))
Drop ==
  /\ \/ \E i \in DOMAIN near : near' = Without(near, i) /\ UNCHANGED far
     \/ \E i \in DOMAIN far : far' = Without(far, i) /\ UNCHANGED near
  /\ UNCHANGED <<uart, received, shown, faults>>
-----------------------------------------------------------------------------
Fault == faults < MaxFaults /\ faults' = faults + 1

(* A byte is lost, changed or added on the line.                           *)
Disturb ==
  /\ Fault
  /\ \/ \E i \in DOMAIN line : line' \in {Without(line, i), [line EXCEPT ![i] = Noise]}
     \/ line' = Append(line, Noise)
  /\ UNCHANGED <<tx, rx, received, near, far, shown>>

(* The sender lets more than 100 ms pass between its two writes.           *)
Stall ==
  /\ Fault
  /\ ~SenderIdle
  /\ ReadTimesOut
  /\ UNCHANGED <<received, near, far, shown>>

ResetNear ==
  /\ Fault
  /\ tx' = <<>> /\ near' = <<>>
  /\ UNCHANGED <<line, rx, received, far, shown>>

(* What is in the receive buffer of the driver is lost too.                *)
ResetFar ==
  /\ Fault
  /\ line' = <<>> /\ rx' = AtLength /\ far' = <<>>
  /\ UNCHANGED <<tx, received, near, shown>>
-----------------------------------------------------------------------------
Next ==
  \/ Receive \/ Transmit \/ TransmitRest
  \/ Wait \/ Accept \/ GiveUp \/ Leave
  \/ Drop
  \/ Disturb \/ Stall \/ ResetNear \/ ResetFar

Spec == Init /\ [][Next]_vars

(* The tasks of both boards go on, and the timeout of the receiver ends.   *)
FairSpec == /\ Spec
            /\ WF_vars(Transmit \/ TransmitRest)
            /\ WF_vars(Wait \/ Accept \/ GiveUp)
            /\ WF_vars(Leave)
-----------------------------------------------------------------------------
(* As long as nothing disturbs it, a receiver that is in step stays so:    *)
(* the UART gives every message to the far board, once, in order, and      *)
(* nothing that was not sent.                                              *)
StaysInStep ==
  [][Aligned /\ faults' = faults =>
       /\ Aligned'
       /\ \/ OnWire' = OnWire /\ far' \in {far} \cup {Without(far, i) : i \in DOMAIN far}
          \/ Transmit /\ OnWire' = OnWire \cup {Head(near)} /\ far' = far
          \/ \E m \in OnWire : /\ \A k \in OnWire : m <= k
                              /\ OnWire' = OnWire \ {m} /\ far' = Append(far, m)]_vars

(* What decodes by chance and that nobody has sent leaves the far board    *)
(* only where there has been a fault: the framing alone makes none.        *)
GarbageNeedsFault == faults = 0 => \A i \in DOMAIN far : far[i] # Garbage

(* After a fault the receiver gets in step again when the traffic pauses   *)
(* for long enough: bytes are then missing for a wrong length, and the     *)
(* timeout drops what there is.  (Messages are bounded, and so a pause     *)
(* comes.)                                                                 *)
Resyncs == ~Aligned ~> Aligned

(* Whatever happens on the way, messages of the near side come out on the  *)
(* far side in their order and at most once: the bridge is a lossy link.   *)
(* It speaks of the messages that were sent; garbage, which nobody sent,   *)
(* may leave between them.                                                 *)
Genuine(q) == {q[i] : i \in DOMAIN q} \ {Garbage}
Link == INSTANCE LossyLink WITH
  arrived <- received, pending <- Genuine(far) \cup OnWire \cup Genuine(near),
  left <- shown
EndToEnd == Link!Spec
=============================================================================
