------------------------------ MODULE LossyLink ------------------------------
(***************************************************************************)
(* What a board promises for one direction of the traffic it forwards:     *)
(* messages leave in the order in which they arrived, each at most once.   *)
(* Any of them may be lost on the way, as when a queue is full.            *)
(* Messages are numbered as they arrive, and so the oldest has the least   *)
(* number; a reboot loses all of them.                                     *)
(***************************************************************************)
EXTENDS Naturals

VARIABLES
  arrived,  \* number of the message that arrived last
  pending,  \* the messages on the way
  left      \* number of the message that left last

vars == <<arrived, pending, left>>

Init == arrived = 0 /\ pending = {} /\ left = 0

Arrive ==
  /\ arrived' = arrived + 1
  /\ pending' = pending \cup {arrived + 1}
  /\ UNCHANGED left

Lose ==
  /\ pending' \subseteq pending
  /\ UNCHANGED <<arrived, left>>

Leave ==
  /\ left' \in pending
  /\ \A m \in pending : left' <= m
  /\ pending' = pending \ {left'}
  /\ UNCHANGED arrived

Reboot == arrived' = 0 /\ pending' = {} /\ left' = 0

Next == Arrive \/ Lose \/ Leave \/ Reboot

Spec == Init /\ [][Next]_vars
=============================================================================
