---------------------------- MODULE MCPublisher ----------------------------
(* The values of the table, and others that differ from them in one topic, *)
(* in two, or in all; byte 1 of 0x528 holds two topics.  /debug sets the   *)
(* value of the table again.                                               *)
EXTENDS Publisher

MCBoot == [p \in Props |->
  CASE p = "528" -> <<2, 70, 70, 0>>
    [] p = "527" -> <<70, 70, 70, 30, 30, 70>>
    [] p = "532" -> <<0, 4, 1, 4, 1>>]
MCBus == [p \in Props |->
  {MCBoot[p]} \cup
  CASE p = "528" -> {<<6, 158, 70, 8>>, <<194, 70, 198, 0>>}
    [] p = "527" -> {<<70, 158, 70, 30, 30, 70>>, <<70, 5, 70, 30, 30, 165>>}
    [] p = "532" -> {<<49, 4, 1, 4, 1>>, <<8, 4, 1, 4, 1>>}]
MCDebug == [p \in Props |-> {MCBoot[p]}]
=============================================================================
