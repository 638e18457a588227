--------------------------- MODULE GatewayRunLoop ---------------------------
(***************************************************************************)
(* The gateway's run loop (openclaw/src/cli/gateway-cli/run-loop.ts) above *)
(* the command queue: start the server, wait for a restart, drain, close,  *)
(* hand over to a fresh process or begin the next iteration in the same    *)
(* one.                                                                    *)
(*                                                                         *)
(* Two asynchronous activities share the variables of runGatewayLoop: the  *)
(* loop itself, suspended in start() or in the wait for restartResolver,   *)
(* and the shutdown that a signal begins. A step runs from one await to    *)
(* the next. The release of the lock is one step with what precedes it on  *)
(* the loop's side; on the shutdown's side it is a step of its own.        *)
(*                                                                         *)
(* Left abstract: start() and server.close() (external to the loop), the   *)
(* lock file (an acquisition succeeds or fails), the embedded runs (their  *)
(* drain ends), and the wait of 1.5 s before an exit under launchd.        *)
(***************************************************************************)
EXTENDS CommandQueue

VARIABLES
  loop,            \* where runGatewayLoop is suspended
  server,          \* the loop holds a server
  listening,       \* a server of this process listens on the port
  lock,            \* the loop holds a lock handle
  isFirstStart,    \* no start() has succeeded yet
  shuttingDown,    \* signals are ignored
  shutdown,        \* the action and the stage of the shutdown
  runsDrain,       \* the wait for the embedded runs
  restarts,        \* restart requests accepted so far
  mishaps,         \* history: "signalInStart", "closeFailed"
  exit             \* how the process left, if it did

(***************************************************************************)
(* The n-th restart waits as waiter n.                                     *)
(***************************************************************************)
ASSUME RunLoopAssumption == Waiters = 1 .. MaxGeneration

serverVars == <<server, listening, isFirstStart>>
loopVars == <<queueVars, loop, serverVars, lock, shuttingDown, shutdown, runsDrain,
             restarts, mishaps, exit>>

Running == exit = "running"
Idle == [action |-> "none", stage |-> "idle"]
-----------------------------------------------------------------------------
LoopInit ==
  /\ Init
  /\ loop = "locking"
  /\ server = FALSE
  /\ listening = FALSE
  /\ lock = FALSE
  /\ isFirstStart = TRUE
  /\ shuttingDown = FALSE
  /\ shutdown = Idle
  /\ runsDrain = "done"
  /\ restarts = 0
  /\ mishaps = {}
  /\ exit = "running"

(***************************************************************************)
(* The lock is taken, the signal handlers are installed and the first      *)
(* iteration, which resets nothing, calls start().                         *)
(***************************************************************************)
AcquireGatewayLock ==
  /\ Running
  /\ loop = "locking"
  /\ \/ /\ lock' = TRUE
        /\ loop' = "starting"
        /\ UNCHANGED exit
     \/ /\ exit' = "failure"
        /\ UNCHANGED <<lock, loop>>
  /\ UNCHANGED <<queueVars, serverVars, shuttingDown, shutdown, runsDrain,
                 restarts, mishaps>>

StartSucceeds ==
  /\ Running
  /\ loop = "starting"
  /\ ~listening
  /\ server' = TRUE
  /\ listening' = TRUE
  /\ isFirstStart' = FALSE
  /\ loop' = "waiting"
  /\ UNCHANGED <<queueVars, lock, shuttingDown, shutdown, runsDrain, restarts,
                 mishaps, exit>>

(***************************************************************************)
(* The first start() lets its error propagate and the process leaves; a    *)
(* later one gives the lock up and waits for the next restart.             *)
(***************************************************************************)
StartFails ==
  /\ Running
  /\ loop = "starting"
  /\ lock' = FALSE
  /\ IF isFirstStart
     THEN /\ exit' = "failure"
          /\ UNCHANGED <<server, loop>>
     ELSE /\ server' = FALSE
          /\ loop' = "waiting"
          /\ UNCHANGED exit
  /\ UNCHANGED <<queueVars, listening, isFirstStart, shuttingDown, shutdown,
                 runsDrain, restarts, mishaps>>
-----------------------------------------------------------------------------
(***************************************************************************)
(* await server?.close(): without a server nothing is awaited, and the     *)
(* shutdown goes on to its finally block, which clears the watchdog.       *)
(***************************************************************************)
CloseNotAwaited(action) ==   \* mutant: close() is called but not awaited
  /\ shutdown' = [action |-> action, stage |-> "releasing"]
  /\ server' = FALSE

BeginClose(action) ==
  /\ shutdown' = [action |-> action,
                  stage  |-> IF server THEN "closing" ELSE "releasing"]
  /\ UNCHANGED server

(***************************************************************************)
(* request("stop"): SIGTERM or SIGINT, ignored during a shutdown.          *)
(***************************************************************************)
StopSignal ==
  /\ Running
  /\ loop # "locking"
  /\ IF shuttingDown
     THEN UNCHANGED <<shuttingDown, shutdown, server>>
     ELSE /\ shuttingDown' = TRUE
          /\ BeginClose("stop")
  /\ UNCHANGED <<queueVars, loop, listening, isFirstStart, lock, runsDrain,
                 restarts, mishaps, exit>>

(***************************************************************************)
(* request("restart"): an authorized SIGUSR1. Up to its first await it     *)
(* closes the queue to new entries and takes the snapshot of the executing *)
(* ones; embeddedRuns tells whether embedded runs are active and           *)
(* hasTimeout whether the drain has a budget.                              *)
(***************************************************************************)
RestartSignal(embeddedRuns, hasTimeout) ==
  LET now == Pending(activeTaskIds)
      w   == restarts + 1
  IN  /\ Running
      /\ loop # "locking"
      /\ ~shuttingDown
      /\ w \in Waiters
      /\ restarts' = w
      /\ shuttingDown' = TRUE
      /\ gatewayDraining' = TRUE
      /\ waiter' = [waiter EXCEPT ![w] =
           [tasks  |-> now,
            answer |-> IF now = {} THEN "drained"
                       ELSE IF hasTimeout THEN "waiting" ELSE "timedOut"]]
      /\ runsDrain' = IF embeddedRuns /\ hasTimeout THEN "waiting" ELSE "done"
      /\ IF now = {} /\ ~embeddedRuns
         THEN BeginClose("restart")
         ELSE /\ shutdown' = [action |-> "restart", stage |-> "draining"]
              /\ UNCHANGED server
      /\ mishaps' = IF loop = "starting" THEN mishaps \cup {"signalInStart"} ELSE mishaps
      /\ UNCHANGED <<queue, activeTaskIds, maxConcurrent, generation, phase,
                     startedIn, loop, listening, isFirstStart, lock, exit>>

(***************************************************************************)
(* waitForActiveEmbeddedRuns answers, drained or timed out.                *)
(***************************************************************************)
RunsAnswer ==
  /\ Running
  /\ runsDrain = "waiting"
  /\ runsDrain' = "done"
  /\ UNCHANGED <<queueVars, loop, serverVars, lock, shuttingDown, shutdown,
                 restarts, mishaps, exit>>

DrainRace ==   \* mutant: Promise.race for Promise.all
  /\ Running
  /\ shutdown.stage = "draining"
  /\ waiter[restarts].answer \in Answers \/ runsDrain = "done"
  /\ BeginClose(shutdown.action)
  /\ UNCHANGED <<queueVars, loop, listening, isFirstStart, lock, shuttingDown,
                 runsDrain, restarts, mishaps, exit>>

DrainEnds ==
  /\ Running
  /\ shutdown.stage = "draining"
  /\ waiter[restarts].answer \in Answers
  /\ runsDrain = "done"
  /\ BeginClose(shutdown.action)
  /\ UNCHANGED <<queueVars, loop, listening, isFirstStart, lock, shuttingDown,
                 runsDrain, restarts, mishaps, exit>>

(***************************************************************************)
(* server.close() returns, or throws before it frees the port, which is    *)
(* logged and ignored.                                                     *)
(***************************************************************************)
CloseEnds ==
  /\ Running
  /\ shutdown.stage = "closing"
  /\ server' = FALSE
  /\ \/ listening' = FALSE /\ UNCHANGED mishaps
     \/ mishaps' = mishaps \cup {"closeFailed"} /\ UNCHANGED listening
  /\ shutdown' = [shutdown EXCEPT !.stage = "releasing"]
  /\ UNCHANGED <<queueVars, loop, isFirstStart, lock, shuttingDown, runsDrain,
                 restarts, exit>>

ForceExitWhileDraining ==   \* mutant: the watchdog is cleared before the close
  /\ Running
  /\ shutdown.stage = "draining"
  /\ exit' = "failure"
  /\ UNCHANGED <<queueVars, loop, serverVars, lock, shuttingDown, shutdown,
                 runsDrain, restarts, mishaps>>

(***************************************************************************)
(* The watchdog of the shutdown, cleared when the close is over.           *)
(***************************************************************************)
ForceExit ==
  /\ Running
  /\ shutdown.stage \in {"draining", "closing"}
  /\ exit' = "failure"
  /\ UNCHANGED <<queueVars, loop, serverVars, lock, shuttingDown, shutdown,
                 runsDrain, restarts, mishaps>>
-----------------------------------------------------------------------------
ResumeWithoutReset ==   \* mutant: the iteration hook does not reset the lanes
  /\ shuttingDown' = FALSE
  /\ shutdown' = Idle
  /\ loop' = IF loop = "waiting" THEN "starting" ELSE loop
  /\ UNCHANGED queueVars

ResumeStillShuttingDown ==   \* mutant: shuttingDown = false is missing
  /\ shutdown' = Idle
  /\ IF loop = "waiting"
     THEN /\ loop' = "starting"
          /\ ResetAllLanes
     ELSE UNCHANGED <<loop, queueVars>>
  /\ UNCHANGED shuttingDown

(***************************************************************************)
(* The end of an in-process restart: signals are heard again, and          *)
(* restartResolver begins the next iteration, whose hook resets the lanes, *)
(* if the loop is waiting for it. During start() it is unset or belongs to *)
(* a wait that is over, and calling it does nothing.                       *)
(***************************************************************************)
ResumeLoop ==
  /\ shuttingDown' = FALSE
  /\ shutdown' = Idle
  /\ IF loop = "waiting"
     THEN /\ loop' = "starting"
          /\ ResetAllLanes
     ELSE UNCHANGED <<loop, queueVars>>

HandleStopAfterServerClose ==
  /\ Running
  /\ shutdown = [action |-> "stop", stage |-> "releasing"]
  /\ lock' = FALSE
  /\ exit' = "clean"
  /\ UNCHANGED <<queueVars, loop, serverVars, shuttingDown, shutdown, runsDrain,
                 restarts, mishaps>>

(***************************************************************************)
(* The lock is given up before restartGatewayProcessWithFreshPid decides.  *)
(* A spawned or supervised successor takes over, or the process goes on    *)
(* by itself, and takes the lock again first if it had it.                 *)
(***************************************************************************)
HandleRestartAfterServerClose ==
  /\ Running
  /\ shutdown = [action |-> "restart", stage |-> "releasing"]
  /\ lock' = FALSE
  /\ \/ /\ exit' = "clean"
        /\ UNCHANGED <<queueVars, loop, shuttingDown, shutdown>>
     \/ /\ UNCHANGED exit
        /\ IF lock
           THEN /\ shutdown' = [shutdown EXCEPT !.stage = "relocking"]
                /\ UNCHANGED <<queueVars, loop, shuttingDown>>
           ELSE ResumeLoop
  /\ UNCHANGED <<serverVars, runsDrain, restarts, mishaps>>

ReacquireLockForInProcessRestart ==
  /\ Running
  /\ shutdown.stage = "relocking"
  /\ \/ /\ lock' = TRUE
        /\ ResumeLoop
        /\ UNCHANGED exit
     \/ /\ exit' = "failure"
        /\ UNCHANGED <<queueVars, loop, lock, shuttingDown, shutdown>>
  /\ UNCHANGED <<serverVars, runsDrain, restarts, mishaps>>

(***************************************************************************)
(* The rest of the gateway uses the queue, and the waiters' timers fire.   *)
(***************************************************************************)
QueueStep ==
  /\ Running
  /\ loop # "locking"
  /\ \/ \E t \in Tasks : EnqueueCommandInLane(t) \/ Complete(t)
     \/ \E l \in Lanes : ClearCommandLane(l)
     \/ \E l \in Lanes, m \in Limits : SetCommandLaneConcurrency(l, m)
     \/ \E w \in Waiters : WaiterTimeout(w)
  /\ UNCHANGED <<loop, serverVars, lock, shuttingDown, shutdown, runsDrain,
                 restarts, mishaps, exit>>

LoopNext ==
  \/ AcquireGatewayLock
  \/ StartSucceeds
  \/ StartFails
  \/ StopSignal
  \/ \E embeddedRuns, hasTimeout \in BOOLEAN : RestartSignal(embeddedRuns, hasTimeout)
  \/ RunsAnswer
  \/ DrainEnds
  \/ CloseEnds
  \/ ForceExit
  \/ HandleStopAfterServerClose
  \/ HandleRestartAfterServerClose
  \/ ReacquireLockForInProcessRestart
  \/ QueueStep

LoopSpec == LoopInit /\ [][LoopNext]_loopVars

(***************************************************************************)
(* Timers fire and the lock calls return. Nothing is assumed of tasks,     *)
(* which may hang, nor of start() and server.close().                      *)
(***************************************************************************)
LoopFairness ==
  /\ WF_loopVars(RunsAnswer)
  /\ \A w \in Waiters : WF_loopVars(QueueStep /\ WaiterTimeout(w))
  /\ WF_loopVars(DrainEnds)
  /\ WF_loopVars(ForceExit)
  /\ WF_loopVars(HandleStopAfterServerClose)
  /\ WF_loopVars(HandleRestartAfterServerClose)
  /\ WF_loopVars(ReacquireLockForInProcessRestart)

LoopFairSpec == LoopSpec /\ LoopFairness
-----------------------------------------------------------------------------
LoopTypeOK ==
  /\ TypeOK
  /\ loop \in {"locking", "starting", "waiting"}
  /\ {server, listening, lock, isFirstStart, shuttingDown} \subseteq BOOLEAN
  /\ mishaps \subseteq {"signalInStart", "closeFailed"}
  /\ shutdown \in [action : {"none", "stop", "restart"},
                   stage  : {"idle", "draining", "closing", "releasing", "relocking"}]
  /\ shutdown = Idle <=> ~shuttingDown
  /\ runsDrain \in {"waiting", "done"}
  /\ restarts \in 0 .. MaxGeneration
  /\ exit \in {"running", "clean", "failure"}

(***************************************************************************)
(* The gateway refuses commands only while it shuts down: whichever way a  *)
(* restart ends, a process that goes on accepts commands again - unless a  *)
(* restart signal arrived during start().                                  *)
(***************************************************************************)
RefusesOnlyInShutdown ==
  "signalInStart" \notin mishaps => (gatewayDraining /\ Running => shuttingDown)

(***************************************************************************)
(* A restart that goes on to close the server has waited for each entry    *)
(* that was executing when the signal came: the entry has settled, or the  *)
(* drain budget was spent. Starts, failed starts, clears and completions   *)
(* interleave with the wait.                                               *)
(***************************************************************************)
RestartWaitsForTasks ==
  shutdown.action = "restart" /\ shutdown.stage \in {"closing", "releasing", "relocking"} =>
    \/ waiter[restarts].answer = "timedOut"
    \/ \A t \in waiter[restarts].tasks : phase[t] \in Settled

(***************************************************************************)
(* start() is never called while a server of this process still listens:   *)
(* the bind would fail and leave a server that nobody can close. ("On      *)
(* shutdown the gateway closes the WebSocket server and underlying HTTP    *)
(* server to free the port promptly.") Holds if no close() threw and no    *)
(* restart signal arrived during start().                                  *)
(***************************************************************************)
StartsOnFreePort == mishaps = {} => (loop = "starting" => ~listening)

(***************************************************************************)
(* An iteration starts clean: interrupted entries hold no slot, so they    *)
(* cannot block new work, entries are accepted, and no queued entry is     *)
(* dropped (resetAllLanes preserves "pending user work").                  *)
(***************************************************************************)
IterationStartsClean ==
  [][loop = "waiting" /\ loop' = "starting" =>
       /\ ~gatewayDraining'
       /\ \A l \in Lanes : activeTaskIds[l] \cap activeTaskIds'[l] = {}
       /\ \A t \in Tasks : phase[t] = "queued" => phase'[t] \in {"queued", "running"}
    ]_loopVars

(***************************************************************************)
(* Every shutdown ends, in a restart or in an exit, though tasks, embedded *)
(* runs and server.close() may hang.                                       *)
(***************************************************************************)
ShutdownEnds == shuttingDown ~> (~shuttingDown \/ ~Running)
-----------------------------------------------------------------------------
(***************************************************************************)
(* What a comment of the code promises and the code does not keep:         *)
(* "SIGUSR1 triggers an in-process restart": a restart that ends without   *)
(* leaving the process begins an iteration.                                *)
(***************************************************************************)
RestartBeginsIteration ==
  [][shuttingDown /\ ~shuttingDown' => generation' = generation + 1]_loopVars
=============================================================================
