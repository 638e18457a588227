--------------------------- MODULE MCConfigReload ---------------------------
(***************************************************************************)
(* The instance of ConfigReload for TLC: two configurations, between which *)
(* parts are reloaded, and the defaults, which differ from both so that a  *)
(* restart is needed. One of the two has the mode "hot", which ignores     *)
(* what needs a restart.                                                   *)
(***************************************************************************)
EXTENDS ConfigReload

CONSTANTS hybrid, hot, defaults

MCConfigs == {hybrid, hot, defaults}
MCModeOf == [c \in MCConfigs |-> IF c = hot THEN "hot" ELSE "hybrid"]
MCRestartPairs == {p \in MCConfigs \X MCConfigs : (p[1] = defaults) # (p[2] = defaults)}
=============================================================================
