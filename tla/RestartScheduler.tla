-------------------------- MODULE RestartScheduler --------------------------
(***************************************************************************)
(* How restarts of the gateway are asked for                               *)
(* (openclaw/src/infra/restart.ts, gateway/server-reload-handlers.ts and   *)
(* the SIGUSR1 handler of the run loop): a timer with a cool-down for the  *)
(* requests of commands and signals, a deferral that polls until the       *)
(* gateway is idle, and the changes of the configuration, which defer by   *)
(* themselves.                                                             *)
(*                                                                         *)
(* The state of restart.ts is the process's and outlives an in-process     *)
(* restart; restartPending belongs to the reload handlers of one server.   *)
(*                                                                         *)
(* The run loop is only its phase here (see GatewayRunLoop), and time is   *)
(* counted in units. process.emit calls the run loop's handler before it   *)
(* returns, which consumes the authorization and the token of the signal:  *)
(* an emission is one step, and no signal is ever left unconsumed while    *)
(* the handler is installed, as it is here.                                *)
(***************************************************************************)
EXTENDS Integers

CONSTANTS
  Cooldown,  \* RESTART_COOLDOWN_MS
  Delays,    \* the delays of requests
  MaxWait    \* deferralTimeoutMs

ASSUME RestartAssumption ==
  /\ Cooldown \in Nat /\ MaxWait \in Nat
  /\ Delays \subseteq Nat

VARIABLES
  timer,           \* time left of pendingRestartTimer
  cooldown,        \* time left of the cool-down after the last emission
  polls,           \* activeDeferralPolls: who defers, and how long already
  work,            \* operations, replies, runs or tasks are pending
  restartPending,  \* of the reload handlers
  reloader,        \* the reload handlers of the current server exist
  abandoned,       \* that server is closed by half: it lives on, forgotten
  phase,           \* of the run loop
  lostInStart      \* history: a signal came in start() and began no iteration

restartVars == <<timer, cooldown, polls, work, restartPending, reloader, abandoned,
                 phase, lostInStart>>

NoTimer == -1
Owners == {"scheduled", "config", "oldConfig"}
AtLeast0(n) == IF n > 0 THEN n ELSE 0
-----------------------------------------------------------------------------
RestartInit ==
  /\ timer = NoTimer
  /\ cooldown = 0
  /\ polls = {}
  /\ work = FALSE
  /\ restartPending = FALSE
  /\ reloader = FALSE
  /\ abandoned = FALSE
  /\ phase = "starting"
  /\ lostInStart = FALSE

(***************************************************************************)
(* emitGatewayRestart and request("restart"): a shutdown ignores it, and   *)
(* one that comes during start() may begin no iteration.                   *)
(***************************************************************************)
EmitKeepingTimer ==   \* mutant: the pending timer survives the emission
  /\ polls' = {}
  /\ cooldown' = Cooldown
  /\ phase' = "closing"
  /\ UNCHANGED <<timer, lostInStart>>

EmitGatewayRestart ==
  /\ timer' = NoTimer
  /\ polls' = {}
  /\ cooldown' = Cooldown
  /\ \/ phase' = "closing" /\ UNCHANGED lostInStart
     \/ phase = "starting" /\ lostInStart' = TRUE /\ UNCHANGED phase

(***************************************************************************)
(* scheduleGatewaySigusr1Restart: one timer, which a request may pull      *)
(* earlier and otherwise joins.                                            *)
(***************************************************************************)
RestartTheTimer(due) ==   \* mutant: each request starts the wait anew
  timer' = due

Coalesce(due) ==
  timer' = IF timer # NoTimer /\ timer <= due THEN timer ELSE due

ScheduleRestart(delay) ==
  /\ phase # "left"
  /\ Coalesce(delay + cooldown)
  /\ UNCHANGED <<cooldown, polls, work, restartPending, reloader, abandoned, phase,
                 lostInStart>>

(***************************************************************************)
(* A SIGUSR1 from outside: no authorization, but the policy allows it.     *)
(***************************************************************************)
ExternalSigusr1 ==
  /\ phase # "closing"
  /\ ScheduleRestart(0)

(***************************************************************************)
(* deferGatewayRestartUntilIdle from the timer; throws: the check of the   *)
(* pending work fails.                                                     *)
(***************************************************************************)
TimerFires(throws) ==
  /\ phase # "left"
  /\ timer = 0
  /\ IF work /\ ~throws
     THEN /\ timer' = NoTimer
          /\ polls' = polls \cup {[owner |-> "scheduled", waited |-> 0]}
          /\ UNCHANGED <<cooldown, phase, lostInStart>>
     ELSE EmitGatewayRestart
  /\ UNCHANGED <<work, restartPending, reloader, abandoned>>

(***************************************************************************)
(* A poll finds the gateway idle, its time over, or its check fails. The   *)
(* hooks of the reload handlers reset their own restartPending.            *)
(***************************************************************************)
PollEnds(p, throws) ==
  /\ phase # "left"
  /\ p \in polls
  /\ throws \/ ~work \/ p.waited = MaxWait
  /\ restartPending' = (restartPending /\ p.owner # "config")
  /\ EmitGatewayRestart
  /\ UNCHANGED <<work, reloader, abandoned>>

(***************************************************************************)
(* requestGatewayRestart: a change of the configuration needs a restart.   *)
(***************************************************************************)
RequestGatewayRestart ==
  /\ phase # "left"
  /\ reloader
  /\ IF ~work
     THEN EmitGatewayRestart /\ UNCHANGED restartPending
     ELSE /\ restartPending' = TRUE
          /\ polls' = IF restartPending THEN polls
                      ELSE polls \cup {[owner |-> "config", waited |-> 0]}
          /\ UNCHANGED <<timer, cooldown, phase, lostInStart>>
  /\ UNCHANGED <<work, reloader, abandoned>>
-----------------------------------------------------------------------------
HandlersOfModule ==   \* mutant: restartPending outlives the server
  /\ phase = "starting"
  /\ ~reloader
  /\ reloader' = TRUE
  /\ UNCHANGED <<timer, cooldown, polls, work, restartPending, abandoned, phase,
                 lostInStart>>

(***************************************************************************)
(* start() creates the reload handlers: the hooks of a deferral that the   *)
(* server before left behind reach the old ones only.                      *)
(***************************************************************************)
CreateReloadHandlers ==
  /\ phase = "starting"
  /\ ~reloader
  /\ reloader' = TRUE
  /\ restartPending' = FALSE
  /\ polls' = {[p EXCEPT !.owner = IF @ = "config" THEN "oldConfig" ELSE @] : p \in polls}
  /\ UNCHANGED <<timer, cooldown, work, abandoned, phase, lostInStart>>

(***************************************************************************)
(* start() returns, or fails: the process waits for a restart without a    *)
(* server. Beside an abandoned server it fails, before it creates reload   *)
(* handlers, since that server still listens on the port.                  *)
(***************************************************************************)
StartEnds ==
  /\ phase = "starting"
  /\ phase' = IF reloader /\ ~abandoned THEN "serving" ELSE "down"
  /\ UNCHANGED <<timer, cooldown, polls, work, restartPending, reloader, abandoned,
                 lostInStart>>

StopSignal ==
  /\ phase \in {"serving", "down"}
  /\ phase' = "closing"
  /\ UNCHANGED <<timer, cooldown, polls, work, restartPending, reloader, abandoned,
                 lostInStart>>

(***************************************************************************)
(* The close stops the reloader, or throws before. Later the loop, which   *)
(* has forgotten the server in either case, begins an iteration, or the    *)
(* process leaves.                                                         *)
(***************************************************************************)
CloseStopsReloader ==
  /\ phase = "closing"
  /\ reloader /\ ~abandoned
  /\ reloader' = FALSE
  /\ UNCHANGED <<timer, cooldown, polls, work, restartPending, abandoned, phase,
                 lostInStart>>

CloseThrows ==
  /\ phase = "closing"
  /\ reloader /\ ~abandoned
  /\ abandoned' = TRUE
  /\ UNCHANGED <<timer, cooldown, polls, work, restartPending, reloader, phase,
                 lostInStart>>

CloseEnds ==
  /\ phase = "closing"
  /\ reloader => abandoned
  /\ phase' \in {"starting", "left"}
  /\ UNCHANGED <<timer, cooldown, polls, work, restartPending, reloader, abandoned,
                 lostInStart>>

WorkChanges ==
  /\ phase # "left"
  /\ work' = ~work
  /\ UNCHANGED <<timer, cooldown, polls, restartPending, reloader, abandoned, phase,
                 lostInStart>>

Tick ==
  /\ phase # "left"
  /\ timer' = IF timer = NoTimer THEN timer ELSE AtLeast0(timer - 1)
  /\ cooldown' = AtLeast0(cooldown - 1)
  /\ polls' = {[p EXCEPT !.waited = IF @ < MaxWait THEN @ + 1 ELSE @] : p \in polls}
  /\ UNCHANGED <<work, restartPending, reloader, abandoned, phase, lostInStart>>

RestartNext ==
  \/ \E delay \in Delays : ScheduleRestart(delay)
  \/ ExternalSigusr1
  \/ \E throws \in BOOLEAN : TimerFires(throws) \/ \E p \in polls : PollEnds(p, throws)
  \/ RequestGatewayRestart
  \/ CreateReloadHandlers
  \/ StartEnds
  \/ StopSignal
  \/ CloseStopsReloader
  \/ CloseThrows
  \/ CloseEnds
  \/ WorkChanges
  \/ Tick

(***************************************************************************)
(* Time passes and timers fire. Nothing is assumed of the run loop, nor    *)
(* that the gateway is ever idle.                                          *)
(***************************************************************************)
RestartFairness ==
  /\ WF_restartVars(Tick)
  /\ WF_restartVars(TimerFires(FALSE))
  /\ WF_restartVars(\E p \in polls : PollEnds(p, FALSE))

RestartSpec ==
  RestartInit /\ [][RestartNext]_restartVars /\ RestartFairness
-----------------------------------------------------------------------------
RestartTypeOK ==
  /\ timer \in {NoTimer} \cup Nat
  /\ cooldown \in 0 .. Cooldown
  /\ polls \subseteq [owner : Owners, waited : 0 .. MaxWait]
  /\ {work, restartPending, reloader, abandoned, lostInStart} \subseteq BOOLEAN
  /\ phase \in {"starting", "serving", "closing", "down", "left"}

(***************************************************************************)
(* "A 30-second cooldown applies between restart cycles": whatever was     *)
(* emitted since the timer was set, a scheduled restart does not fire      *)
(* within the cool-down of the last emission.                              *)
(***************************************************************************)
TimerRespectsCooldown == timer # NoTimer => timer >= cooldown

(***************************************************************************)
(* "config change requires gateway restart - already waiting for           *)
(* operations to complete": when the handlers of a serving gateway answer  *)
(* so, a poll of theirs is running, unless a restart signal was lost in    *)
(* start(). Other requests clear it with every emission.                   *)
(***************************************************************************)
AlreadyWaitingIsTrue ==
  restartPending /\ phase = "serving" /\ ~lostInStart =>
    \E p \in polls : p.owner = "config"

(***************************************************************************)
(* Requests are coalesced, never put off: a pending timer or deferral      *)
(* leads to an emission (which ends both) though requests keep coming and  *)
(* the gateway may never be idle.                                          *)
(***************************************************************************)
EveryRequestRestarts ==
  (timer # NoTimer \/ polls # {}) ~> ((timer = NoTimer /\ polls = {}) \/ phase = "left")
=============================================================================
