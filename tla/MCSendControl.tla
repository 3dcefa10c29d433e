---------------------------- MODULE MCSendControl ----------------------------
(* Two senders: one with the single one-off delay of car_model, one with   *)
(* two successive one-offs as in display_ext_model.                        *)
EXTENDS SendControl

MCSenders == {"upd_car", "upd_ext_disp"}
MCTable == [s \in MCSenders |->
              IF s = "upd_car" THEN <<1, 0, 0>> ELSE <<1, 2, 0>>]
=============================================================================
