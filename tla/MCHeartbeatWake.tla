--------------------------- MODULE MCHeartbeatWake ---------------------------
(***************************************************************************)
(* Wakes of all agents and of one agent, for the runners of two gateways;  *)
(* the batch of the first may still be in progress when the second starts. *)
(***************************************************************************)
EXTENDS HeartbeatWake
=============================================================================
