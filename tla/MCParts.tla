------------------------------- MODULE MCParts -------------------------------
(***************************************************************************)
(* The instances of the parts whose state is small: the delivery queue,    *)
(* the demo's pages, the follow-up queue, the restart scheduler and the    *)
(* configuration reloader. They share no state here: what becomes of a     *)
(* restart that the reloader asks for is the scheduler's. One run explores *)
(* them side by side: part says which of them moves, and the others stay   *)
(* as they began.                                                          *)
(*                                                                         *)
(* The delivery queue has one entry, which no other entry shares a file    *)
(* with, the startup pass and a reconnect pass. The pages have three       *)
(* sentences, enough for a question, its answer with a second question,    *)
(* and a command of the other page. The configuration file is changed      *)
(* twice, and one awaited call fails.                                      *)
(***************************************************************************)
EXTENDS DeliveryQueue, VoiceSession, MCFollowupQueue, RestartScheduler, MCConfigReload

VARIABLE part

-----------------------------------------------------------------------------
PartsInit ==
  /\ part \in {"delivery", "voice", "followup", "restart", "reload"}
  /\ Init /\ VoiceInit /\ FollowupInit /\ RestartInit /\ ReloadInit
  /\ part # "reload" => /\ currentConfig = hybrid /\ file = hybrid
                        /\ lastAppliedWriteHash = NoConfig

PartsNext ==
  /\ UNCHANGED part
  /\ \/ /\ part = "delivery"
        /\ Next
        /\ UNCHANGED <<voiceVars, followupVars, restartVars, reloadVars>>
     \/ /\ part = "voice"
        /\ VoiceNext
        /\ UNCHANGED <<vars, followupVars, restartVars, reloadVars>>
     \/ /\ part = "followup"
        /\ FollowupNext
        /\ UNCHANGED <<vars, voiceVars, restartVars, reloadVars>>
     \/ /\ part = "restart"
        /\ RestartNext
        /\ UNCHANGED <<vars, voiceVars, followupVars, reloadVars>>
     \/ /\ part = "reload"
        /\ ReloadNext
        /\ UNCHANGED <<vars, voiceVars, followupVars, restartVars>>

(***************************************************************************)
(* The fairness that the modules state, of the part that moves.            *)
(***************************************************************************)
PartsSpec ==
  /\ PartsInit
  /\ [][PartsNext]_<<part, vars, voiceVars, followupVars, restartVars, reloadVars>>
  /\ \A c \in Commands : /\ WF_voiceVars(part = "voice" /\ ServeRun(c))
                         /\ WF_voiceVars(part = "voice" /\ ResponseArrives(c))
  /\ WF_followupVars(part = "followup" /\ ActiveRunEnds)
  /\ \A q \in QueueIds :
       WF_followupVars(part = "followup" /\ (QuietPeriodEnds(q) \/ TurnEnds(q)))
  /\ WF_restartVars(part = "restart" /\ Tick)
  /\ WF_restartVars(part = "restart" /\ TimerFires(FALSE))
  /\ WF_restartVars(part = "restart" /\ \E p \in polls : PollEnds(p, FALSE))
-----------------------------------------------------------------------------
(***************************************************************************)
(* The variables of each part have their types.                            *)
(***************************************************************************)
PartsTypeOK == TypeOK /\ VoiceTypeOK /\ FollowupTypeOK /\ RestartTypeOK /\ ReloadTypeOK
=============================================================================
