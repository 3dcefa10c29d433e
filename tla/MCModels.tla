------------------------------ MODULE MCModels ------------------------------
(* Small property tables for Models, and the messages that arrive.         *)
EXTENDS Models, TLC

NoDebuggers == {}
DebuggersAlike == Permutations(Debuggers)

V528(a) == [active |-> a, rest |-> 0]
V531(o, w) == [on |-> o, power |-> w, rest |-> 0]

(* The user and the buses: a light whose brightness sits in another        *)
(* property than the selector, and the fridge, where 1 is the mask of the  *)
(* switch too.                                                             *)
KitchenLight == {"inside_kitchen"}
Sel(n) == [sel |-> n, rest |-> 0]
V525(b) == [inside_kitchen |-> b, rest |-> 0]
UserBoot == [p \in AllProps |->
  CASE p = "528" -> V528(0) [] p = "526" -> Sel(0)
    [] p = "525" -> V525(70) [] p = "531" -> V531(0, 0)]
UserBus == [p \in AllProps |->
  CASE p = "528" -> {V528(0), V528(6)} [] p = "526" -> {Sel(0), Sel(6)}
    [] p = "525" -> {V525(50)} [] p = "531" -> {V531(0, 0)}]
NoDebug == [p \in Props |-> {}]

(* /debug on the property that shows the button, and a light whose         *)
(* brightness sits beside the selector.                                    *)
TailgateLight == {"tailgate"}
V526(s, b) == [sel |-> s, tailgate |-> b, rest |-> 0]
DebugProps == {"528", "526"}
DebugBoot == [p \in DebugProps |-> IF p = "528" THEN V528(0) ELSE V526(0, 70)]
DebugBus == [p \in DebugProps |-> {IF p = "528" THEN V528(6) ELSE V526(2, 30)}]
ButtonDebug == [p \in DebugProps |-> IF p = "528" THEN {V528(0)} ELSE {}]
=============================================================================
