---------------------------- MODULE MCIOPipeline ----------------------------
(* One send_state task, whose messages take the places of forwarded ones.  *)
EXTENDS IOPipeline

OneSender == {"upd_disp"}
=============================================================================
