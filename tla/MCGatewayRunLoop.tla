-------------------------- MODULE MCGatewayRunLoop --------------------------
(***************************************************************************)
(* Instances of GatewayRunLoop for TLC: one lane with one slot and two     *)
(* calls, so that one waits while the other executes, and two restarts.    *)
(***************************************************************************)
EXTENDS GatewayRunLoop

CONSTANTS main, t1, t2

MCLanes == {main}
MCTasks == {t1, t2}
MCLaneOf == [t \in MCTasks |-> main]
MCWaiters == 1 .. MaxGeneration
=============================================================================
