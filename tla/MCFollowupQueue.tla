-------------------------- MODULE MCFollowupQueue --------------------------
(***************************************************************************)
(* Instances of FollowupQueue for TLC. Of three messages, one has other    *)
(* authorization and one another route. The default settings collect up to *)
(* a cap and summarize what is dropped.                                    *)
(***************************************************************************)
EXTENDS FollowupQueue

CONSTANTS m1, m2, m3

MCMessages == {m1, m2, m3}
MCAuthOf == [m \in MCMessages |-> m = m2]
MCRouteOf == [m \in MCMessages |-> m = m3]

Settings(mode, cap, drop) == [mode |-> mode, cap |-> cap, dropPolicy |-> drop]
MCDefaultSettings == {Settings("collect", 2, "summarize")}
MCSettings == MCDefaultSettings \cup
              {Settings("followup", 1, "summarize"), Settings("collect", 1, "old")}
=============================================================================
