------------------------- MODULE MCEmbeddedRunLanes -------------------------
(***************************************************************************)
(* Instances of EmbeddedRunLanes for TLC. Two runs share a session, and a  *)
(* third run comes from another session, as its own or as a cron job's.    *)
(***************************************************************************)
EXTENDS EmbeddedRunLanes, TLC

CONSTANTS s1, s2, r1, r2, r3, j1

MCSessions == {s1, s2}
MCRuns == {r1, r2, r3}
MCSessionOf == [r \in MCRuns |-> IF r = r3 THEN s2 ELSE s1]
MCJobs == {j1}
MCRunOf == [j \in MCJobs |-> r3]

(***************************************************************************)
(* Names for constants of EmbeddedRunLanes, of which TLC keeps the values. *)
(***************************************************************************)
MCLanes == RunLanes
MCTasks == RunTasks
LaneTable == RunLaneOf @@ [t \in {} |-> "cron"]
MCLaneOf == LaneTable

MCNoJobs == {}
MCNoRunOf == [j \in {} |-> r3]
=============================================================================
