------------------------------ MODULE MCBridge ------------------------------
(* Messages of different lengths, the longest as long as the struct.       *)
EXTENDS Bridge

MCLength == <<2, 1, 4, 2>>
=============================================================================
