---------------------------- MODULE MCSchedulers ----------------------------
(***************************************************************************)
(* The instances of the heartbeat wake and of the cron service. Here they  *)
(* share no state: cron asks for wakes and never waits for them. One run   *)
(* explores them side by side: part says which of them moves, and the      *)
(* other stays as it began.                                                *)
(*                                                                         *)
(* Wakes are of all agents and of one agent, and two runners follow one    *)
(* another; a batch of the first may go on under the second. Of two cron   *)
(* jobs one is a one-shot.                                                 *)
(***************************************************************************)
EXTENDS HeartbeatWake, CronService

VARIABLE part

SchedulersInit ==
  /\ part \in {"wake", "cron"}
  /\ WakeInit /\ CronInit
  /\ part # "cron" => \A j \in CronJobs : jobs[j].stored = "never"

SchedulersNext ==
  /\ UNCHANGED part
  /\ \/ /\ part = "wake"
        /\ WakeNext
        /\ UNCHANGED cronVars
     \/ /\ part = "cron"
        /\ CronNext
        /\ UNCHANGED wakeVars

(***************************************************************************)
(* The fairness that the modules state, of the part that moves.            *)
(***************************************************************************)
SchedulersSpec ==
  /\ SchedulersInit
  /\ [][SchedulersNext]_<<part, wakeVars, cronVars>>
  /\ WF_wakeVars(part = "wake" /\ WakeTick)
  /\ WF_wakeVars(part = "wake" /\ AnyTimerFires)
  /\ \A b \in Slots :
       WF_wakeVars(part = "wake" /\ \E outcome \in Outcomes : CallEnds(b, outcome))
  /\ WF_cronVars(part = "cron" /\ StartSteps)
  /\ WF_cronVars(part = "cron" /\ TickSteps)
  /\ WF_cronVars(part = "cron" /\ RunSteps("tick"))
  /\ WF_cronVars(part = "cron" /\ RunSteps("catchup"))
  /\ WF_cronVars(part = "cron" /\ ManualSteps)
  /\ WF_cronVars(part = "cron" /\ \E j \in CronJobs : MarkerAges(j))
-----------------------------------------------------------------------------
(***************************************************************************)
(* The variables of each part have their types.                            *)
(***************************************************************************)
SchedulersTypeOK == WakeTypeOK /\ CronTypeOK
=============================================================================
