---------------------------- MODULE HeartbeatWake ----------------------------
(***************************************************************************)
(* Heartbeats of the gateway (openclaw/src/infra/heartbeat-wake.ts and the *)
(* scheduler of infra/heartbeat-runner.ts): requests to wake a target are  *)
(* merged per target, a timer hands them in batches to the handler, which  *)
(* is the runner of the current gateway, and a busy target is tried again. *)
(* The runner has an interval timer of its own, armed again by each run.   *)
(*                                                                         *)
(* The wake layer's state is the module's: it outlives the runners, one of *)
(* which is started in each iteration of the run loop. A batch awaits each *)
(* call of its handler; everything else happens in between.                *)
(*                                                                         *)
(* A wake is its target: which reason survives a merge is left out, like   *)
(* the order within a batch, the channel of a heartbeat and the agents,    *)
(* some of which a runner has to wake. Time is counted in units.           *)
(***************************************************************************)
EXTENDS Naturals

CONSTANTS
  Targets,         \* agents and sessions
  Untargeted,      \* the target without agent and session: all agents
  CoalesceDelays,  \* coalesceMs of requests
  CoalesceDelay,   \* DEFAULT_COALESCE_MS
  RetryDelay,      \* DEFAULT_RETRY_MS
  MaxRunners,      \* bound: runners started
  MaxBatches       \* bound: batches at a time

ASSUME WakeAssumption ==
  /\ Untargeted \in Targets
  /\ CoalesceDelays \subseteq Nat /\ {CoalesceDelay, RetryDelay} \subseteq Nat
  /\ MaxRunners \in Nat /\ MaxBatches \in Nat

VARIABLES
  pendingWakes,   \* the targets with a pending wake
  wakeTimer,      \* the timer of the wake layer
  handler,        \* the runner registered as handler, or NoHandler
  running, scheduled,
  batches,        \* the batches in progress, one per slot
  runners,        \* runners started
  stopped,        \* runners stopped
  armed,          \* runners whose interval timer is armed
  heartbeatsEnabled,
  owed,           \* history: targets asked for and not called since
  wakeCauses      \* history: what may make the promises below void

wakeVars == <<pendingWakes, wakeTimer, handler, running, scheduled, batches,
              runners, stopped, armed, heartbeatsEnabled, owed, wakeCauses>>

NoWakeTimer == [left |-> 0, delay |-> 0, kind |-> "none"]
NoHandler == 0
Slots == 1 .. MaxBatches

(* A batch: its handler, the wakes it took, those not called yet, the one  *)
(* that is being called, and the delay of its timer.                       *)
NoBatch == [by |-> NoHandler, all |-> {}, rest |-> {}, current |-> Untargeted, delay |-> 0]

Open == {b \in Slots : batches[b].by # NoHandler}
-----------------------------------------------------------------------------
WakeInit ==
  /\ pendingWakes = {}
  /\ wakeTimer = NoWakeTimer
  /\ handler = NoHandler
  /\ running = FALSE /\ scheduled = FALSE
  /\ batches = [b \in Slots |-> NoBatch]
  /\ runners = 0
  /\ stopped = {} /\ armed = {}
  /\ heartbeatsEnabled = TRUE
  /\ owed = {} /\ wakeCauses = {}

(***************************************************************************)
(* schedule: what becomes of timer tm.                                     *)
(***************************************************************************)
Schedule(tm, delay, kind) ==
  IF tm # NoWakeTimer /\ (tm.kind = "retry" \/ tm.left <= delay)
  THEN tm
  ELSE [left |-> delay, delay |-> delay, kind |-> kind]

RequestHeartbeatNow(t, delay) ==
  /\ pendingWakes' = pendingWakes \cup {t}
  /\ wakeTimer' = Schedule(wakeTimer, delay, "normal")
  /\ owed' = owed \cup {t}
  /\ UNCHANGED <<handler, running, scheduled, batches, runners, stopped,
                 heartbeatsEnabled, wakeCauses>>

Request(t, delay) ==
  RequestHeartbeatNow(t, delay) /\ UNCHANGED armed

(***************************************************************************)
(* A runner's interval timer fires.                                        *)
(***************************************************************************)
IntervalDue(g) ==
  /\ g \in armed
  /\ armed' = armed \ {g}
  /\ RequestHeartbeatNow(Untargeted, 0)
-----------------------------------------------------------------------------
(***************************************************************************)
(* The finally block of a batch, with the pending wakes and the timer that *)
(* it finds.                                                               *)
(***************************************************************************)
Finally(b, pending, tm) ==
  /\ batches' = [batches EXCEPT ![b] = NoBatch]
  /\ running' = FALSE
  /\ wakeTimer' = IF pending # {} \/ scheduled
                  THEN Schedule(tm, batches[b].delay, "normal") ELSE tm

BatchDespiteRunning(b) ==   \* mutant: the timer does not look at running
  /\ batches[b] = NoBatch
  /\ \A c \in Slots : c < b => batches[c] # NoBatch

BatchMayBegin(b) ==
  /\ ~running
  /\ batches[b] = NoBatch
  /\ \A c \in Slots : c < b => batches[c] # NoBatch

(***************************************************************************)
(* The timer fires. A batch begins with the call of some wake; under       *)
(* disabled heartbeats the runner answers each call at once.               *)
(***************************************************************************)
ClearsPendingFirst ==   \* mutant: the batch is taken before the handler is looked up
  /\ wakeTimer # NoWakeTimer /\ wakeTimer.left = 0
  /\ handler = NoHandler
  /\ wakeTimer' = NoWakeTimer
  /\ scheduled' = FALSE
  /\ pendingWakes' = {}
  /\ UNCHANGED <<handler, running, batches, runners, stopped, armed,
                 heartbeatsEnabled, owed, wakeCauses>>

TimerFiresWithoutHandler ==
  /\ wakeTimer # NoWakeTimer /\ wakeTimer.left = 0
  /\ handler = NoHandler
  /\ wakeTimer' = NoWakeTimer
  /\ scheduled' = FALSE
  /\ UNCHANGED <<pendingWakes, handler, running, batches, runners, stopped, armed,
                 heartbeatsEnabled, owed, wakeCauses>>

TimerFiresWhileRunning ==
  /\ wakeTimer # NoWakeTimer /\ wakeTimer.left = 0
  /\ handler # NoHandler
  /\ running
  /\ wakeTimer' = [wakeTimer EXCEPT !.left = wakeTimer.delay]
  /\ scheduled' = TRUE
  /\ UNCHANGED <<pendingWakes, handler, running, batches, runners, stopped, armed,
                 heartbeatsEnabled, owed, wakeCauses>>

BeginBatch(b) ==
  /\ wakeTimer # NoWakeTimer /\ wakeTimer.left = 0
  /\ handler # NoHandler
  /\ BatchMayBegin(b)
  /\ pendingWakes' = {}
  /\ wakeTimer' = NoWakeTimer
  /\ scheduled' = FALSE
  /\ IF heartbeatsEnabled /\ pendingWakes # {}
     THEN \E t \in pendingWakes :
            /\ batches' = [batches EXCEPT ![b] =
                 [by |-> handler, all |-> pendingWakes, current |-> t,
                  rest |-> pendingWakes \ {t}, delay |-> wakeTimer.delay]]
            /\ running' = TRUE
            /\ owed' = owed \ {t}
     ELSE /\ owed' = owed \ pendingWakes
          /\ UNCHANGED <<batches, running>>
  /\ UNCHANGED <<handler, runners, stopped, armed, heartbeatsEnabled, wakeCauses>>

(***************************************************************************)
(* The next call of batch b, or its end: a stopped runner and disabled     *)
(* heartbeats answer the remaining calls at once.                          *)
(***************************************************************************)
NextCall(b, pending, tm) ==
  LET c == batches[b]
  IN  IF c.rest = {} \/ c.by \in stopped \/ ~heartbeatsEnabled
      THEN Finally(b, pending, tm)
      ELSE /\ \E t \in c.rest :
                batches' = [batches EXCEPT ![b].current = t, ![b].rest = @ \ {t}]
           /\ wakeTimer' = tm
           /\ UNCHANGED running

(***************************************************************************)
(* scheduleNext at the end of a run, but not after "requests-in-flight"    *)
(* for all agents: the wake layer tries that again.                        *)
(***************************************************************************)
RearmStopped(c, outcome) ==   \* mutant: scheduleNext does not look at stopped
  armed' = IF outcome = "busy" /\ c.current = Untargeted
           THEN armed ELSE armed \cup {c.by}

RearmNever(c, outcome) == UNCHANGED armed   \* mutant: no finally block in the runner

ScheduleNext(c, outcome) ==
  armed' = IF c.by \in stopped \/ (outcome = "busy" /\ c.current = Untargeted)
           THEN armed ELSE armed \cup {c.by}

(***************************************************************************)
(* The targets answered by the next call, and those answered at once.      *)
(***************************************************************************)
Answered(b, c, outcome) ==
  IF batches'[b] # NoBatch THEN {batches'[b].current}
  ELSE IF outcome = "throws" THEN {} ELSE c.rest

(***************************************************************************)
(* The runner answers a call, which ran or failed, or was skipped as       *)
(* "requests-in-flight"; or it throws, which ends the batch.               *)
(***************************************************************************)
CallEnds(b, outcome) ==
  LET c == batches[b]
      again == CASE outcome = "done" -> {}
                 [] outcome = "busy" -> {c.current}
                 [] outcome = "throws" -> c.all
      pending == pendingWakes \cup again
      tm == IF outcome = "done" THEN wakeTimer ELSE Schedule(wakeTimer, RetryDelay, "retry")
  IN  /\ b \in Open
      /\ pendingWakes' = pending
      /\ ScheduleNext(c, outcome)
      /\ IF outcome = "throws" THEN Finally(b, pending, tm) ELSE NextCall(b, pending, tm)
      /\ owed' = (owed \cup again) \ (Answered(b, c, outcome) \ pending)
      /\ UNCHANGED <<handler, scheduled, runners, stopped, heartbeatsEnabled, wakeCauses>>
-----------------------------------------------------------------------------
(***************************************************************************)
(* startHeartbeatRunner: setHeartbeatWakeHandler forgets the timer and the *)
(* execution state of the runner before, and sees to the wakes that wait   *)
(* for a handler; then the interval is armed.                              *)
(***************************************************************************)
TimerForgotten == NoWakeTimer   \* mutant: waiting wakes are left to the next request

TimerOfNewHandler ==
  IF pendingWakes # {} THEN Schedule(NoWakeTimer, CoalesceDelay, "normal") ELSE NoWakeTimer

StartRunner ==
  /\ runners < MaxRunners
  /\ runners' = runners + 1
  /\ handler' = runners + 1
  /\ running' = FALSE /\ scheduled' = FALSE
  /\ wakeTimer' = TimerOfNewHandler
  /\ armed' = armed \cup {runners + 1}
  /\ wakeCauses' = IF Open # {} THEN wakeCauses \cup {"replaced"} ELSE wakeCauses
  /\ UNCHANGED <<pendingWakes, batches, stopped, heartbeatsEnabled, owed>>

(***************************************************************************)
(* The runner's stop, whose disposer leaves a newer handler alone.         *)
(***************************************************************************)
StopRunner(g) ==
  /\ g \in 1 .. runners \ stopped
  /\ stopped' = stopped \cup {g}
  /\ armed' = armed \ {g}
  /\ handler' = IF handler = g THEN NoHandler ELSE handler
  /\ UNCHANGED <<pendingWakes, wakeTimer, running, scheduled, batches, runners,
                 heartbeatsEnabled, owed, wakeCauses>>

(***************************************************************************)
(* updateConfig of a running runner arms its interval timer anew.          *)
(***************************************************************************)
UpdateConfig(g) ==
  /\ g \in 1 .. runners \ stopped
  /\ armed' = armed \cup {g}
  /\ UNCHANGED <<pendingWakes, wakeTimer, handler, running, scheduled, batches, runners,
                 stopped, heartbeatsEnabled, owed, wakeCauses>>

SetHeartbeatsEnabled ==
  /\ heartbeatsEnabled' = ~heartbeatsEnabled
  /\ wakeCauses' = wakeCauses \cup {"disabled"}
  /\ UNCHANGED <<pendingWakes, wakeTimer, handler, running, scheduled, batches, runners,
                 stopped, armed, owed>>

WakeTick ==
  /\ wakeTimer.left > 0
  /\ wakeTimer' = [wakeTimer EXCEPT !.left = @ - 1]
  /\ UNCHANGED <<pendingWakes, handler, running, scheduled, batches, runners,
                 stopped, armed, heartbeatsEnabled, owed, wakeCauses>>

AnyTimerFires ==
  TimerFiresWithoutHandler \/ TimerFiresWhileRunning \/ \E b \in Slots : BeginBatch(b)

Outcomes == {"done", "busy", "throws"}

WakeNext ==
  \/ \E t \in Targets, d \in CoalesceDelays : Request(t, d)
  \/ \E g \in 1 .. runners : IntervalDue(g) \/ StopRunner(g) \/ UpdateConfig(g)
  \/ AnyTimerFires
  \/ \E b \in Slots, outcome \in Outcomes : CallEnds(b, outcome)
  \/ StartRunner
  \/ SetHeartbeatsEnabled
  \/ WakeTick

(***************************************************************************)
(* Timers fire, and the runs of the agent that a call awaits have a        *)
(* timeout. Nothing is assumed of requests, intervals and runners.         *)
(***************************************************************************)
WakeFairness ==
  /\ WF_wakeVars(WakeTick)
  /\ WF_wakeVars(AnyTimerFires)
  /\ \A b \in Slots : WF_wakeVars(\E outcome \in Outcomes : CallEnds(b, outcome))

WakeSpec == WakeInit /\ [][WakeNext]_wakeVars /\ WakeFairness
-----------------------------------------------------------------------------
WakeTypeOK ==
  /\ pendingWakes \subseteq Targets
  /\ wakeTimer = NoWakeTimer \/ (wakeTimer.kind \in {"normal", "retry"}
                                 /\ wakeTimer.left \in 0 .. wakeTimer.delay)
  /\ handler \in {NoHandler} \cup (1 .. runners \ stopped)
  /\ {running, scheduled, heartbeatsEnabled} \subseteq BOOLEAN
  /\ \A b \in Open :
       /\ batches[b].by \in 1 .. runners
       /\ batches[b].all \subseteq Targets
       /\ batches[b].rest \cup {batches[b].current} \subseteq batches[b].all
  /\ armed \subseteq 1 .. runners \ stopped
  /\ owed \subseteq Targets

(***************************************************************************)
(* One batch at a time: no second one begins while calls of the handler    *)
(* are awaited, unless a new runner was registered meanwhile.              *)
(***************************************************************************)
OneBatchAtATime ==
  "replaced" \notin wakeCauses => \A b, c \in Open : b = c

(***************************************************************************)
(* No wake is forgotten: a target that was asked for is pending or in a    *)
(* batch until a runner is called for it, across failed calls, busy        *)
(* targets and changes of the handler. (Of a batch whose runner was        *)
(* stopped, and while heartbeats are disabled, the calls return at once.)  *)
(***************************************************************************)
WakesReachARunner ==
  \A t \in owed : t \in pendingWakes \/ \E b \in Open : t \in batches[b].rest

(***************************************************************************)
(* A pending wake is worked off, as long as there is a handler: each timer *)
(* that fires too early, and each batch that ends, sees to the next.       *)
(***************************************************************************)
WakesAreWorkedOff ==
  \A t \in Targets : []<>(t \notin pendingWakes \/ handler = NoHandler)

(***************************************************************************)
(* Heartbeats recur: while they are enabled, the interval of the current   *)
(* runner is armed, or a wake for all agents is pending or in a batch,     *)
(* which will arm it.                                                      *)
(***************************************************************************)
HeartbeatsRecur ==
  heartbeatsEnabled /\ handler # NoHandler =>
    \/ handler \in armed
    \/ Untargeted \in pendingWakes
    \/ \E b \in Open : batches[b].by = handler /\
         Untargeted \in {batches[b].current} \cup batches[b].rest

(***************************************************************************)
(* The same as long as heartbeats were never disabled.                     *)
(***************************************************************************)
IntervalIsRearmed == "disabled" \notin wakeCauses => HeartbeatsRecur
=============================================================================
