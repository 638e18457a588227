--------------------------- MODULE MCCommandQueue ---------------------------
(***************************************************************************)
(* An instance of CommandQueue for TLC: three calls compete for the lane   *)
(* "main", so that entries wait behind one another whatever the limit, and *)
(* one call uses the lane "cron".                                          *)
(***************************************************************************)
EXTENDS CommandQueue, TLC

CONSTANTS main, cron, t1, t2, t3, t4

MCLanes == {main, cron}
MCTasks == {t1, t2, t3, t4}
MCLaneOf == [t \in MCTasks |-> IF t = t4 THEN cron ELSE main]

MCSymmetry == Permutations({t1, t2, t3})
=============================================================================
