----------------------------- MODULE IOPipeline -----------------------------
(***************************************************************************)
(* How messages travel through a board (lib/esp_abstraction, and           *)
(* QueueRecvCallback of src/master.cpp).                                   *)
(*                                                                         *)
(*   twai_receive_task -+              +- twai_tx_queue -> twai_tx_task    *)
(*                      +-> rx_queue ->+                                   *)
(*   uart_receive_task -+  event_loop  +- uart_tx_queue -> uart_tx_task    *)
(*                                                                         *)
(* The event loop forwards a message in passthrough and otherwise feeds it *)
(* to a model; the send_state tasks put messages of their own on the       *)
(* outgoing queues.  Queue elements are allocated by the task that makes   *)
(* them and passed on by pointer; whoever is left with one frees it.       *)
(*                                                                         *)
(* An element is named by its maker and a number, so that it also stands   *)
(* for its message.  Snooping and the statistics are left out.             *)
(***************************************************************************)
EXTENDS Naturals, Sequences, FiniteSets

CONSTANTS
  QueueLength,  \* 10
  Senders,      \* the send_state tasks
  MaxMessages   \* bound: messages each task makes between two reboots

ASSUME QueueAssumption == QueueLength \in Nat \ {0}
ASSUME BoundAssumption == MaxMessages \in Nat

Roles == {"MASTER", "SLAVE"}
Wires == {"can", "uart"}
Receivers == {"twai_rx", "uart_rx"}
Loop == "event_loop"
TxTask(w) == IF w = "can" THEN "twai_tx" ELSE "uart_tx"
TxTasks == {TxTask(w) : w \in Wires}
Makers == Receivers \cup Senders
Tasks == Makers \cup {Loop} \cup TxTasks

(* Two tasks dump the models of the car to the display, two those of the   *)
(* display to the car.                                                     *)
SenderWire(s) == IF s \in {"upd_car", "upd_ext_car"} THEN "uart" ELSE "can"

ASSUME SenderAssumption ==
  Senders \subseteq {"upd_car", "upd_ext_car", "upd_disp", "upd_ext_disp"}

Element == [by : Makers, n : Nat \ {0}]
None == [by |-> "none", n |-> 0]

VARIABLES
  role,         \* role of the board, kept in flash
  passthrough,  \* forward messages instead of keeping models
  rxQ,          \* rx_queue
  txQ,          \* txQ[w] : twai_tx_queue and uart_tx_queue
  hand,         \* hand[t] : the element t works on, its local variable e
  waiting,      \* uart_rx has an element and waits for a message to put in it
  allocated,    \* the elements that are allocated
  made,         \* made[t] : number of the last message of maker t
  left          \* history: left[w] : number of the last message forwarded to w

vars == <<role, passthrough, rxQ, txQ, hand, waiting, allocated, made, left>>

TypeOK ==
  /\ role \in Roles
  /\ passthrough \in BOOLEAN /\ waiting \in BOOLEAN
  /\ rxQ \in Seq(Element) /\ Len(rxQ) <= QueueLength
  /\ txQ \in [Wires -> Seq(Element)]
  /\ \A w \in Wires : Len(txQ[w]) <= QueueLength
  /\ hand \in [Tasks -> Element \cup {None}]
  /\ allocated \subseteq Element
  /\ made \in [Makers -> 0 .. MaxMessages]
  /\ left \in [Wires -> 0 .. MaxMessages]

Init ==
  /\ role \in Roles
  /\ passthrough = (role = "SLAVE")
  /\ rxQ = <<>>
  /\ txQ = [w \in Wires |-> <<>>]
  /\ hand = [t \in Tasks |-> None]
  /\ waiting = FALSE
  /\ allocated = {}
  /\ made = [t \in Makers |-> 0]
  /\ left = [w \in Wires |-> 0]

(* malloc finds no memory, or something else calls abort().                *)
Reboot ==
  /\ passthrough' = (role = "SLAVE")
  /\ rxQ' = <<>>
  /\ txQ' = [w \in Wires |-> <<>>]
  /\ hand' = [t \in Tasks |-> None]
  /\ waiting' = FALSE
  /\ allocated' = {}
  /\ made' = [t \in Makers |-> 0]
  /\ left' = [w \in Wires |-> 0]
  /\ UNCHANGED role

(* HTTP /passthrough, on the master.                                       *)
UserPassthrough ==
  /\ role = "MASTER"
  /\ passthrough' = TRUE
  /\ UNCHANGED <<role, rxQ, txQ, hand, waiting, allocated, made, left>>
-----------------------------------------------------------------------------
(* What the tasks do with an element.                                      *)
Idle(t) == hand[t] = None
NewElement(t) == [by |-> t, n |-> made[t] + 1]

Malloc(t) ==
  /\ hand' = [hand EXCEPT ![t] = NewElement(t)]
  /\ allocated' = allocated \cup {NewElement(t)}

Free(e) == allocated' = allocated \ {e}

(* xQueueSendToBack without waiting: an element too many is freed.         *)
(* Mutant: the queue has one place more than FreeRTOS gives it.            *)
HasRoomForOneMore(q) == Len(q) <= QueueLength

HasRoom(q) == Len(q) < QueueLength
(* Mutant: xQueueSendToFront.                                              *)
PutInFront(q, e) == IF HasRoom(q) THEN <<e>> \o q ELSE q

PutOrFree(q, e) == IF HasRoom(q) THEN Append(q, e) ELSE q

SendToBackRx(t) ==
  /\ rxQ' = PutOrFree(rxQ, hand[t])
  /\ IF HasRoom(rxQ) THEN UNCHANGED allocated ELSE Free(hand[t])
  /\ hand' = [hand EXCEPT ![t] = None]

(* Mutant: what the queue does not take is not freed.                      *)
SendToBackTxLeaks(t, w) ==
  /\ txQ' = [txQ EXCEPT ![w] = PutOrFree(@, hand[t])]
  /\ hand' = [hand EXCEPT ![t] = None]
  /\ UNCHANGED allocated

(* SendOverUART, SendOverTWAI, Enqueue.                                    *)
SendToBackTx(t, w) ==
  /\ txQ' = [txQ EXCEPT ![w] = PutOrFree(@, hand[t])]
  /\ IF HasRoom(txQ[w]) THEN UNCHANGED allocated ELSE Free(hand[t])
  /\ hand' = [hand EXCEPT ![t] = None]
-----------------------------------------------------------------------------
(* twai_receive_task: a frame arrives, and is put into a new element.      *)
CanReceive ==
  /\ Idle("twai_rx")
  /\ made["twai_rx"] < MaxMessages
  /\ Malloc("twai_rx")
  /\ made' = [made EXCEPT !["twai_rx"] = @ + 1]
  /\ UNCHANGED <<role, passthrough, rxQ, txQ, waiting, left>>

CanQueue ==
  /\ ~Idle("twai_rx")
  /\ SendToBackRx("twai_rx")
  /\ UNCHANGED <<role, passthrough, txQ, waiting, made, left>>

(* uart_receive_task: the element is there before the message.             *)
UartPrepare ==
  /\ Idle("uart_rx")
  /\ Malloc("uart_rx")
  /\ waiting' = TRUE
  /\ UNCHANGED <<role, passthrough, rxQ, txQ, made, left>>

UartReceive ==
  /\ waiting
  /\ made["uart_rx"] < MaxMessages
  /\ waiting' = FALSE
  /\ made' = [made EXCEPT !["uart_rx"] = @ + 1]
  /\ UNCHANGED <<role, passthrough, rxQ, txQ, hand, allocated, left>>

(* recv_over_uart gives up on what it has read.                            *)
UartReceiveFails ==
  /\ waiting
  /\ waiting' = FALSE
  /\ Free(hand["uart_rx"])
  /\ hand' = [hand EXCEPT !["uart_rx"] = None]
  /\ UNCHANGED <<role, passthrough, rxQ, txQ, made, left>>

UartQueue ==
  /\ ~Idle("uart_rx") /\ ~waiting
  /\ SendToBackRx("uart_rx")
  /\ UNCHANGED <<role, passthrough, txQ, waiting, made, left>>
-----------------------------------------------------------------------------
(* event_loop.                                                             *)
LoopTake ==
  /\ Idle(Loop)
  /\ rxQ # <<>>
  /\ hand' = [hand EXCEPT ![Loop] = Head(rxQ)]
  /\ rxQ' = Tail(rxQ)
  /\ UNCHANGED <<role, passthrough, txQ, waiting, allocated, made, left>>

Opposite(e) == IF e.by = "twai_rx" THEN "uart" ELSE "can"

(* Mutants: get() for release(), which frees what was queued; and a board  *)
(* that forwards what it also keeps in its models.                         *)
QueueRecvCallbackKeeps ==
  /\ ~Idle(Loop)
  /\ hand' = [hand EXCEPT ![Loop] = None]
  /\ Free(hand[Loop])
  /\ txQ' = IF passthrough
            THEN [txQ EXCEPT ![Opposite(hand[Loop])] = PutOrFree(@, hand[Loop])]
            ELSE txQ
  /\ UNCHANGED <<role, passthrough, rxQ, waiting, made, left>>
QueueRecvCallbackAlways ==
  /\ ~Idle(Loop)
  /\ SendToBackTx(Loop, Opposite(hand[Loop]))
  /\ UNCHANGED <<role, passthrough, rxQ, waiting, made, left>>

(* QueueRecvCallback: forward, or update the model and free.               *)
QueueRecvCallback ==
  /\ ~Idle(Loop)
  /\ IF passthrough
     THEN SendToBackTx(Loop, Opposite(hand[Loop]))
     ELSE /\ Free(hand[Loop])
          /\ hand' = [hand EXCEPT ![Loop] = None]
          /\ UNCHANGED txQ
  /\ UNCHANGED <<role, passthrough, rxQ, waiting, made, left>>
-----------------------------------------------------------------------------
(* Model::SendState and Enqueue: a message of a send_state task, which     *)
(* never starts on a slave.                                                *)
Dump(s) ==
  /\ role = "MASTER"
  /\ Idle(s)
  /\ made[s] < MaxMessages
  /\ Malloc(s)
  /\ made' = [made EXCEPT ![s] = @ + 1]
  /\ UNCHANGED <<role, passthrough, rxQ, txQ, waiting, left>>

Enqueue(s) ==
  /\ ~Idle(s)
  /\ SendToBackTx(s, SenderWire(s))
  /\ UNCHANGED <<role, passthrough, rxQ, waiting, made, left>>

(* twai_tx_task, uart_tx_task.                                             *)
TxTake(w) ==
  /\ Idle(TxTask(w))
  /\ txQ[w] # <<>>
  /\ hand' = [hand EXCEPT ![TxTask(w)] = Head(txQ[w])]
  /\ txQ' = [txQ EXCEPT ![w] = Tail(@)]
  /\ UNCHANGED <<role, passthrough, rxQ, waiting, allocated, made, left>>

(* twai_transmit and send_over_uart may fail; the element is freed.        *)
Transmit(w) ==
  LET e == hand[TxTask(w)] IN
    /\ ~Idle(TxTask(w))
    /\ Free(e)
    /\ hand' = [hand EXCEPT ![TxTask(w)] = None]
    /\ \/ left' = [left EXCEPT ![w] = IF e.by \in Receivers THEN e.n ELSE @]
       \/ UNCHANGED left
    /\ UNCHANGED <<role, passthrough, rxQ, txQ, waiting, made>>
-----------------------------------------------------------------------------
TaskStep ==
  \/ CanQueue
  \/ UartPrepare \/ UartQueue
  \/ LoopTake \/ QueueRecvCallback
  \/ \E s \in Senders : Enqueue(s)
  \/ \E w \in Wires : TxTake(w) \/ Transmit(w)

Next ==
  \/ CanReceive \/ UartReceive \/ UartReceiveFails
  \/ \E s \in Senders : Dump(s)
  \/ TaskStep
  \/ UserPassthrough
  \/ Reboot

Spec == Init /\ [][Next]_vars

(* A task that has an element, or finds one in its queue, goes on.         *)
Fairness ==
  /\ WF_vars(CanQueue) /\ WF_vars(UartQueue)
  /\ WF_vars(LoopTake \/ QueueRecvCallback)
  /\ \A s \in Senders : WF_vars(Enqueue(s))
  /\ \A w \in Wires : WF_vars(TxTake(w) \/ Transmit(w))

FairSpec == Spec /\ Fairness
-----------------------------------------------------------------------------
Elements(q) == {q[i] : i \in DOMAIN q}
Distinct(q) == \A i, j \in DOMAIN q : q[i] = q[j] => i = j
Hands == {hand[t] : t \in Tasks} \ {None}

(* Every allocated element is in one place: in the hands of one task or    *)
(* once in one queue.  Nothing is lost without being freed, and nothing is *)
(* freed, or used by a second task, while another still has it ("Callback  *)
(* must free() its argument when done").                                   *)
OwnedOnce ==
  /\ allocated = Hands \cup Elements(rxQ) \cup UNION {Elements(txQ[w]) : w \in Wires}
  /\ \A t, u \in Tasks : hand[t] = hand[u] /\ hand[t] # None => t = u
  /\ Distinct(rxQ) /\ \A w \in Wires : Distinct(txQ[w])
  /\ Elements(txQ["can"]) \cap Elements(txQ["uart"]) = {}
  /\ \A w \in Wires : Elements(rxQ) \cap Elements(txQ[w]) = {}
  /\ Hands \cap (Elements(rxQ) \cup UNION {Elements(txQ[w]) : w \in Wires}) = {}

(* Between the two buses: while a board keeps models, nothing it receives  *)
(* is on its way out; in passthrough nothing goes back where it came from. *)
OnTheWayOut(w) == Elements(txQ[w]) \cup ({hand[TxTask(w)]} \ {None})
Isolation ==
  \A w \in Wires : \A e \in OnTheWayOut(w) :
    e.by \in Receivers => passthrough /\ Opposite(e) = w

(* Traffic in both directions at once is forwarded in order and without    *)
(* duplicates, whatever else the queues carry.  A message is on its way as *)
(* long as its element is allocated.                                       *)
Pending(rx) == {n \in 1 .. made[rx] : [by |-> rx, n |-> n] \in allocated}

CanToUart == INSTANCE LossyLink WITH
  arrived <- made["twai_rx"], pending <- Pending("twai_rx"), left <- left["uart"]
UartToCan == INSTANCE LossyLink WITH
  arrived <- made["uart_rx"], pending <- Pending("uart_rx"), left <- left["can"]

(* Each direction implements the lossy link.                               *)
ForwardsInOrder == CanToUart!Spec /\ UartToCan!Spec

(* Every message leaves the board, is used or is dropped: all that is      *)
(* allocated is freed, but for the element that waits for the UART.        *)
Drains ==
  \A t \in Makers : \A n \in 1 .. MaxMessages :
    ([by |-> t, n |-> n] \in allocated /\ made[t] >= n)
      ~> ([by |-> t, n |-> n] \notin allocated)
=============================================================================
