------------------------------ MODULE MCHandoff ------------------------------
(* The hand-over model for TLC: two workers and the controller.             *)
EXTENDS HandoffProps
===============================================================================
