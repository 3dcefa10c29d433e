---------------------------- MODULE MCSnoopBuffer ----------------------------
(* Two messages whose frames fill the buffer in several ways, also exactly. *)
EXTENDS SnoopBuffer

MCMessages == {"short", "long"}
MCSize == [m \in MCMessages |-> IF m = "short" THEN 1 ELSE 2]
=============================================================================
