------------------------------ MODULE UartLink ------------------------------
(***************************************************************************)
(* One direction of the UART between the boards (send_over_uart and        *)
(* recv_over_uart of lib/util/util.cpp).  A message is sent as a length    *)
(* byte and its encoding, in two writes.  The receiver reads a length, and *)
(* then waits 100 ms at most for as many bytes.  Nothing marks the begin   *)
(* of a message: what is read as a length decides where the next one is    *)
(* looked for.                                                             *)
(*                                                                         *)
(* A byte is the message it belongs to and its place in the frame.         *)
(***************************************************************************)
EXTENDS Integers, Sequences

CONSTANTS
  Length,     \* Length[m] : length of the encoding of message m
  MaxLength   \* sizeof(CanMessage): the longest length that is accepted

Messages == DOMAIN Length

ASSUME LengthAssumption ==
  /\ MaxLength \in Nat
  /\ Length \in Seq(1 .. MaxLength)

VARIABLES
  tx,    \* bytes that the sender has yet to write
  line,  \* bytes that are written and not yet read
  rx     \* the number of bytes the receiver waits for, AtLength before that

AtLength == -1
Noise == [of |-> 0, at |-> 0]
Garbage == 0

Frame(m) == [k \in 1 .. Length[m] + 1 |-> [of |-> m, at |-> k - 1]]

SenderIdle == tx = <<>>

(* send_over_uart: the two calls of uart_write_bytes.                      *)
WriteLength(m) ==
  /\ SenderIdle
  /\ line' = Append(line, Head(Frame(m)))
  /\ tx' = Tail(Frame(m))
  /\ UNCHANGED rx

WriteMessage ==
  /\ ~SenderIdle
  /\ line' = line \o tx
  /\ tx' = <<>>
  /\ UNCHANGED rx

(* recv_over_uart.  A byte that is no length can have any value: one above *)
(* MaxLength is refused, and a message of 0 bytes counts as none.          *)
IsLength(b) == b # Noise /\ b.at = 0

(* Mutant: the length counts its own byte.                                 *)
ReadOfFrame(b) ==
  IF IsLength(b) THEN {Length[b.of] + 1} ELSE {AtLength} \cup 1 .. MaxLength

(* Mutant: a length above MaxLength is not refused.                        *)
ReadUnchecked(b) ==
  IF IsLength(b) THEN {Length[b.of]} ELSE {AtLength} \cup 1 .. MaxLength + 1

Read(b) ==
  IF IsLength(b) THEN {Length[b.of]} ELSE {AtLength} \cup 1 .. MaxLength

ReadLength ==
  /\ rx = AtLength /\ line # <<>>
  /\ line' = Tail(line)
  /\ rx' \in Read(Head(line))
  /\ UNCHANGED tx

(* Only the bytes of one message, all and in order, decode to it.  Others  *)
(* fail to decode or give a message that nobody has sent.                  *)
Decoded(bytes) ==
  LET m == Head(bytes).of IN
    IF m # Garbage /\ bytes = Tail(Frame(m)) THEN {<<m>>} ELSE {<<>>, <<Garbage>>}

ReadMessage(result) ==
  /\ rx # AtLength /\ Len(line) >= rx
  /\ result \in Decoded(SubSeq(line, 1, rx))
  /\ line' = SubSeq(line, rx + 1, Len(line))
  /\ rx' = AtLength
  /\ UNCHANGED tx

(* 100 ms have passed: what has been read is dropped.                      *)
ReadTimesOut ==
  /\ rx # AtLength /\ Len(line) < rx
  /\ line' = <<>>
  /\ rx' = AtLength
  /\ UNCHANGED tx
-----------------------------------------------------------------------------
(* The messages of which a byte is still to be read.                       *)
Stream == line \o tx
OnWire == {Stream[k].of : k \in DOMAIN Stream} \ {Garbage}

(* The receiver reads every byte for what it is: what is still to be read  *)
(* are whole frames, but for the length byte it has read.                  *)
Last(b) == b.at = Length[b.of]
Follows(k) ==
  LET b == Stream[k] IN
    IF k = 1
    THEN IF rx = AtLength THEN b.at = 0 ELSE b.at = 1 /\ rx = Length[b.of]
    ELSE LET a == Stream[k - 1] IN
           IF Last(a) THEN b.at = 0 ELSE b = [a EXCEPT !.at = @ + 1]
Aligned ==
  /\ \A k \in DOMAIN Stream : Stream[k] # Noise
  /\ \A k \in DOMAIN Stream : Follows(k)
  /\ IF Stream = <<>> THEN rx = AtLength ELSE Last(Stream[Len(Stream)])
=============================================================================
