------------------------ MODULE GatewayRunLoopProofs ------------------------
(***************************************************************************)
(* Proofs about the run loop, for any lanes, tasks and limits and any      *)
(* number of restarts.                                                     *)
(*                                                                         *)
(* Two theorems are about what the loop and a shutdown know of each other  *)
(* at different awaits: LoopInv says where the loop can be while a restart *)
(* is under way, unless the restart came during start(), and that a loop   *)
(* without a server left no listener behind, unless a close() failed.      *)
(*                                                                         *)
(* The others are about the loop and its queue. The queue keeps the        *)
(* invariants of CommandQueueProofs under the loop (LanesInv), and a drain *)
(* that was answered stays true until the reset (DrainInv).                *)
(***************************************************************************)
EXTENDS GatewayRunLoop, CommandQueueProofs

LoopShape ==
  /\ loop \in {"locking", "starting", "waiting"}
  /\ shutdown \in [action : {"none", "stop", "restart"},
                   stage  : {"idle", "draining", "closing", "releasing", "relocking"}]

(***************************************************************************)
(* During a restart the loop waits for its end.                            *)
(***************************************************************************)
RestartIsAwaited ==
  /\ shuttingDown <=> shutdown # Idle
  /\ shutdown.action = "none" => shutdown.stage = "idle"
  /\ shutdown.stage = "relocking" => shutdown.action = "restart"
  /\ shutdown.action = "restart" /\ "signalInStart" \notin mishaps => loop = "waiting"

NoStrayListener ==
  mishaps = {} =>
    /\ loop \in {"locking", "starting"} => ~listening
    /\ ~server => ~listening
    /\ shutdown.action = "restart" /\ shutdown.stage \in {"releasing", "relocking"} => ~server

LoopInv ==
  /\ LoopShape
  /\ RestartIsAwaited
  /\ NoStrayListener
  /\ RefusesOnlyInShutdown
-----------------------------------------------------------------------------
(***************************************************************************)
(* What the loop's steps share: a close begins, and a restart ends in the  *)
(* same process.                                                           *)
(***************************************************************************)
LEMMA CloseBegins ==
  ASSUME LoopInv, NEW action \in {"stop", "restart"}, BeginClose(action),
         action = "restart" =>
           shutdown.action = "restart" \/ (loop # "waiting" => "signalInStart" \in mishaps'),
         loop' = loop, listening' = listening, exit' = exit,
         mishaps \subseteq mishaps', shuttingDown'
  PROVE  LoopInv'
<1> USE DEF LoopInv, LoopShape, RestartIsAwaited, NoStrayListener, RefusesOnlyInShutdown
<1>1. /\ shutdown' = [action |-> action, stage |-> IF server THEN "closing" ELSE "releasing"]
      /\ server' = server
  BY DEF BeginClose
<1>2. shutdown' # Idle /\ shutdown'.action = action
  BY <1>1 DEF Idle
<1>3. LoopShape' /\ RefusesOnlyInShutdown'
  BY <1>1
<1>4. RestartIsAwaited'
  BY <1>1, <1>2
<1>5. NoStrayListener'
  <2> SUFFICES ASSUME mishaps' = {} PROVE NoStrayListener'
    OBVIOUS
  <2>1. mishaps = {}
    OBVIOUS
  <2>2. shutdown'.stage \in {"releasing", "relocking"} => ~server'
    BY <1>1
  <2> QED
    BY <1>1, <2>1, <2>2
<1> QED
  BY <1>3, <1>4, <1>5

LEMMA LoopResumes ==
  ASSUME LoopInv, ResumeLoop, Running,
         shutdown.action = "restart", shutdown.stage \in {"releasing", "relocking"},
         UNCHANGED <<server, listening, mishaps, exit>>
  PROVE  LoopInv'
<1> USE DEF LoopInv, LoopShape, RestartIsAwaited, NoStrayListener, RefusesOnlyInShutdown
<1>1. shuttingDown' = FALSE /\ shutdown' = Idle
  BY DEF ResumeLoop
<1>2. Idle.action = "none" /\ Idle.stage = "idle"
      /\ Idle \in [action : {"none", "stop", "restart"},
                   stage  : {"idle", "draining", "closing", "releasing", "relocking"}]
  BY DEF Idle
<1>3. CASE loop = "waiting"
  <2>1. loop' = "starting" /\ gatewayDraining' = FALSE
    BY <1>3 DEF ResumeLoop, ResetAllLanes
  <2>2. NoStrayListener'
    BY <1>1, <1>2, <2>1
  <2> QED
    BY <1>1, <1>2, <2>1, <2>2
<1>4. CASE loop # "waiting"
  <2>1. loop' = loop /\ gatewayDraining' = gatewayDraining
    BY <1>4 DEF ResumeLoop, queueVars
  <2>2. "signalInStart" \in mishaps'
    BY <1>4
  <2> QED
    BY <1>1, <1>2, <2>1, <2>2
<1> QED
  BY <1>3, <1>4
-----------------------------------------------------------------------------
LEMMA LoopInitial == LoopInit => LoopInv
BY DEF LoopInit, Init, LoopInv, LoopShape, RestartIsAwaited, NoStrayListener,
   RefusesOnlyInShutdown, Idle

LEMMA LoopStep == LoopInv /\ [LoopNext]_loopVars => LoopInv'
<1> SUFFICES ASSUME LoopInv, [LoopNext]_loopVars PROVE LoopInv'
  OBVIOUS
<1> DEFINE Parts == /\ LoopShape /\ RestartIsAwaited /\ NoStrayListener
                    /\ RefusesOnlyInShutdown
<1>0. Parts
  BY DEF LoopInv
<1> USE DEF LoopShape, RestartIsAwaited, NoStrayListener, RefusesOnlyInShutdown
<1>1. CASE AcquireGatewayLock
  BY <1>0, <1>1 DEF AcquireGatewayLock, LoopInv, Running, serverVars, queueVars
<1>2. CASE StartSucceeds
  BY <1>0, <1>2 DEF StartSucceeds, LoopInv, Running, serverVars, queueVars
<1>3. CASE StartFails
  BY <1>0, <1>3 DEF StartFails, LoopInv, Running, serverVars, queueVars
<1>4. CASE StopSignal
  <2>1. CASE shuttingDown
    BY <1>0, <1>4, <2>1 DEF StopSignal, LoopInv, Running, serverVars, queueVars
  <2>2. CASE ~shuttingDown
    BY <1>4, <2>2, CloseBegins DEF StopSignal, queueVars
  <2> QED
    BY <2>1, <2>2
<1>5. ASSUME NEW embeddedRuns \in BOOLEAN, NEW hasTimeout \in BOOLEAN,
             RestartSignal(embeddedRuns, hasTimeout)
      PROVE  LoopInv'
  <2>1. /\ gatewayDraining' = TRUE /\ shuttingDown' = TRUE
        /\ UNCHANGED <<loop, listening, exit>>
        /\ loop # "locking"
        /\ mishaps \subseteq mishaps'
        /\ loop = "starting" => "signalInStart" \in mishaps'
    BY <1>5 DEF RestartSignal
  <2>2. CASE BeginClose("restart")
    <3>1. loop # "waiting" => "signalInStart" \in mishaps'
      BY <1>0, <2>1
    <3> QED
      BY <2>1, <2>2, <3>1, CloseBegins
  <2>3. CASE shutdown' = [action |-> "restart", stage |-> "draining"] /\ UNCHANGED server
    <3>1. LoopShape' /\ RefusesOnlyInShutdown'
      BY <1>0, <2>1, <2>3
    <3>2. RestartIsAwaited'
      BY <1>0, <2>1, <2>3 DEF Idle
    <3>3. NoStrayListener'
      BY <1>0, <2>1, <2>3
    <3> QED
      BY <3>1, <3>2, <3>3 DEF LoopInv
  <2> QED
    BY <1>5, <2>2, <2>3 DEF RestartSignal
<1>6. CASE RunsAnswer
  BY <1>0, <1>6 DEF RunsAnswer, LoopInv, Running, serverVars, queueVars
<1>7. CASE DrainEnds
  <2>1. shutdown # Idle /\ shuttingDown
    BY <1>0, <1>7 DEF DrainEnds, Idle
  <2>2. shutdown.action \in {"stop", "restart"}
    BY <1>0, <2>1, <1>7 DEF DrainEnds
  <2> QED
    BY <1>7, <2>1, <2>2, CloseBegins DEF DrainEnds
<1>8. CASE CloseEnds
  BY <1>0, <1>8 DEF CloseEnds, LoopInv, Running, serverVars, queueVars, Idle
<1>9. CASE ForceExit
  BY <1>0, <1>9 DEF ForceExit, LoopInv, Running, serverVars, queueVars
<1>10. CASE HandleStopAfterServerClose
  BY <1>0, <1>10 DEF HandleStopAfterServerClose, LoopInv, Running, serverVars, queueVars
<1>11. CASE HandleRestartAfterServerClose
  <2>1. shutdown.action = "restart" /\ shutdown.stage = "releasing" /\ Running
        /\ UNCHANGED <<server, listening, mishaps>>
    BY <1>11 DEF HandleRestartAfterServerClose, serverVars
  <2>2. CASE exit' = "clean" /\ UNCHANGED <<queueVars, loop, shuttingDown, shutdown>>
    BY <1>0, <2>1, <2>2 DEF LoopInv, Running, queueVars
  <2>3. CASE ResumeLoop /\ UNCHANGED exit
    BY <2>1, <2>3, LoopResumes
  <2>4. CASE /\ shutdown' = [shutdown EXCEPT !.stage = "relocking"]
             /\ UNCHANGED <<queueVars, loop, shuttingDown, exit>>
    <3>1. shutdown' \in [action : {"none", "stop", "restart"},
                         stage  : {"idle", "draining", "closing", "releasing", "relocking"}]
          /\ shutdown'.action = "restart" /\ shutdown'.stage = "relocking"
      BY <1>0, <2>1, <2>4
    <3>2. shutdown # Idle /\ shutdown' # Idle
      BY <2>1, <3>1 DEF Idle
    <3> QED
      BY <1>0, <2>1, <2>4, <3>1, <3>2 DEF LoopInv, Running, queueVars
  <2> QED
    BY <1>11, <2>2, <2>3, <2>4 DEF HandleRestartAfterServerClose
<1>12. CASE ReacquireLockForInProcessRestart
  <2>1. shutdown.stage = "relocking" /\ Running
        /\ UNCHANGED <<server, listening, mishaps>>
    BY <1>12 DEF ReacquireLockForInProcessRestart, serverVars
  <2>2. CASE ResumeLoop /\ UNCHANGED exit
    BY <1>0, <2>1, <2>2, LoopResumes
  <2>3. CASE exit' = "failure" /\ UNCHANGED <<queueVars, loop, shuttingDown, shutdown>>
    BY <1>0, <2>1, <2>3 DEF LoopInv, Running, queueVars
  <2> QED
    BY <1>12, <2>2, <2>3 DEF ReacquireLockForInProcessRestart
<1>13. CASE QueueStep
  <2>1. gatewayDraining' = gatewayDraining
    BY <1>13 DEF QueueStep, EnqueueCommandInLane, EnqueueRefused,
       EnqueueAccepted, Complete, CompleteCurrent, CompleteStale,
       ClearCommandLane, SetCommandLaneConcurrency, WaiterTimeout
  <2>2. UNCHANGED <<loop, serverVars, shuttingDown, shutdown, mishaps, exit>>
    BY <1>13 DEF QueueStep
  <2> QED
    BY <1>0, <2>1, <2>2 DEF LoopInv, Running, serverVars
<1>14. CASE UNCHANGED loopVars
  BY <1>0, <1>14 DEF loopVars, LoopInv, Running, serverVars, queueVars
<1> QED
  BY <1>1, <1>2, <1>3, <1>4, <1>5, <1>6, <1>7, <1>8, <1>9, <1>10, <1>11, <1>12, <1>13,
     <1>14
  DEF LoopNext

(***************************************************************************)
(* The invariant behind the two theorems below.                            *)
(***************************************************************************)
THEOREM LoopInvariant == LoopSpec => []LoopInv
BY LoopInitial, LoopStep, PTL DEF LoopSpec

(***************************************************************************)
(* Whichever way a restart ends, a process that goes on accepts commands   *)
(* again, unless a restart signal arrived during start().                  *)
(***************************************************************************)
THEOREM AcceptsAgain == LoopSpec => []RefusesOnlyInShutdown
<1>1. LoopInv => RefusesOnlyInShutdown
  BY DEF LoopInv
<1> QED
  BY <1>1, LoopInvariant, PTL

(***************************************************************************)
(* start() finds the port free, unless a close() failed or a restart       *)
(* signal arrived during start().                                          *)
(***************************************************************************)
THEOREM PortIsFree == LoopSpec => []StartsOnFreePort
<1>1. LoopInv => StartsOnFreePort
  BY DEF LoopInv, NoStrayListener, StartsOnFreePort
<1> QED
  BY <1>1, LoopInvariant, PTL
-----------------------------------------------------------------------------
(***************************************************************************)
(* The queue under the run loop. Every step is one of the queue's or       *)
(* leaves the queue alone, but for a restart signal, which closes the      *)
(* queue and takes a snapshot at once; so the queue keeps its invariants.  *)
(***************************************************************************)
LanesInv == QueueInv /\ WaiterInv /\ gatewayDraining \in BOOLEAN

LEMMA StepsOfTheQueue ==
  ASSUME [LoopNext]_loopVars
  PROVE  \/ [Next]_queueVars
         \/ \E embeddedRuns, hasTimeout \in BOOLEAN : RestartSignal(embeddedRuns, hasTimeout)
<1>1. CASE QueueStep
  BY <1>1 DEF QueueStep, Next
<1>2. ASSUME ResumeLoop PROVE [Next]_queueVars
  BY <1>2 DEF ResumeLoop, Next
<1>3. CASE HandleRestartAfterServerClose
  BY <1>2, <1>3 DEF HandleRestartAfterServerClose
<1>4. CASE ReacquireLockForInProcessRestart
  BY <1>2, <1>4 DEF ReacquireLockForInProcessRestart
<1>5. CASE \/ AcquireGatewayLock \/ StartSucceeds \/ StartFails \/ StopSignal
           \/ RunsAnswer \/ DrainEnds \/ CloseEnds \/ ForceExit
           \/ HandleStopAfterServerClose \/ UNCHANGED loopVars
  BY <1>5 DEF AcquireGatewayLock, StartSucceeds, StartFails, StopSignal, RunsAnswer,
     DrainEnds, CloseEnds, ForceExit, HandleStopAfterServerClose, loopVars
<1> QED
  BY <1>1, <1>3, <1>4, <1>5 DEF LoopNext

LEMMA SignalKeepsLanes ==
  ASSUME LanesInv, NEW embeddedRuns \in BOOLEAN, NEW hasTimeout \in BOOLEAN,
         RestartSignal(embeddedRuns, hasTimeout)
  PROVE  LanesInv'
<1> DEFINE now == Pending(activeTaskIds)
           answer == IF now = {} THEN "drained"
                     ELSE IF hasTimeout THEN "waiting" ELSE "timedOut"
<1>1. /\ gatewayDraining' = TRUE
      /\ restarts' \in Waiters
      /\ waiter' = [waiter EXCEPT ![restarts'] = [tasks |-> now, answer |-> answer]]
      /\ UNCHANGED <<queue, activeTaskIds, maxConcurrent, generation, phase, startedIn>>
  BY DEF RestartSignal
<1>2. QueueInv'
  BY <1>1 DEF LanesInv, QueueInv, Coherent, Typed, InQueue, Distinct, Slots, NoStrandedWork
<1>3. now \subseteq {t \in Tasks : phase[t] \in Started}
  BY DEF LanesInv, QueueInv, Coherent, Typed, Slots, Pending, Started
<1>4. [tasks |-> now, answer |-> answer] \in WaiterRecords
  BY <1>3 DEF WaiterRecords, Answers
<1>5. waiter \in [Waiters -> WaiterRecords]
  BY DEF LanesInv, WaiterInv
<1>6. waiter' \in [Waiters -> WaiterRecords]
  BY <1>1, <1>4, <1>5
<1>7. ASSUME NEW w \in Waiters
      PROVE  \/ waiter'[w] = waiter[w]
             \/ waiter'[w].tasks = now /\ waiter'[w].answer = answer
  BY <1>1, <1>5
<1>8. answer = "waiting" => now # {}
  OBVIOUS
<1>9. answer = "drained" => now = {}
  OBVIOUS
<1> HIDE DEF now, answer
<1>10. WaiterInv'
  BY <1>1, <1>3, <1>6, <1>7, <1>8, <1>9
     DEF LanesInv, WaiterInv, WaitersNotMissed, DrainedMeansSettled, Pending, now
<1> QED
  BY <1>1, <1>2, <1>10 DEF LanesInv

LEMMA LanesStep == LanesInv /\ [LoopNext]_loopVars => LanesInv'
<1> SUFFICES ASSUME LanesInv, [LoopNext]_loopVars PROVE LanesInv'
  OBVIOUS
<1>1. CASE [Next]_queueVars
  <2>1. waiter \in [Waiters -> WaiterRecords]
    BY DEF LanesInv, WaiterInv
  <2> QED
    BY <1>1, <2>1, NextInv, NextType, WaitersStep DEF LanesInv
<1>2. CASE \E embeddedRuns, hasTimeout \in BOOLEAN : RestartSignal(embeddedRuns, hasTimeout)
  BY <1>2, SignalKeepsLanes
<1> QED
  BY <1>1, <1>2, StepsOfTheQueue

(***************************************************************************)
(* A restart that goes on has the answer of its drain, and no reset came   *)
(* since its snapshot: an entry of it that holds no slot has settled.      *)
(***************************************************************************)
DrainInv ==
  /\ restarts \in 0 .. MaxGeneration
  /\ shutdown.stage = "draining" => shutdown.action = "restart"
  /\ shutdown.action = "restart" =>
       /\ restarts \in Waiters
       /\ shutdown.stage # "draining" => waiter[restarts].answer \in Answers
       /\ \A t \in waiter[restarts].tasks : startedIn[t] = generation

LEMMA SignalBeginsDrain ==
  ASSUME LanesInv, DrainInv, NEW embeddedRuns \in BOOLEAN, NEW hasTimeout \in BOOLEAN,
         RestartSignal(embeddedRuns, hasTimeout)
  PROVE  DrainInv'
<1> DEFINE now == Pending(activeTaskIds)
           answer == IF now = {} THEN "drained"
                     ELSE IF hasTimeout THEN "waiting" ELSE "timedOut"
<1>1. /\ restarts' \in Waiters
      /\ waiter' = [waiter EXCEPT ![restarts'] = [tasks |-> now, answer |-> answer]]
      /\ UNCHANGED <<generation, startedIn>>
      /\ shutdown'.action = "restart"
      /\ shutdown'.stage # "draining" => now = {}
  BY DEF RestartSignal, BeginClose
<1>2. \A t \in now : startedIn[t] = generation
  BY DEF LanesInv, QueueInv, Coherent, Slots, Pending
<1>3. waiter'[restarts'] = [tasks |-> now, answer |-> answer]
  BY <1>1 DEF LanesInv, WaiterInv
<1>4. waiter'[restarts'].tasks = now /\ waiter'[restarts'].answer = answer
  BY <1>3
<1>5. now = {} => answer \in Answers
  BY DEF Answers
<1> HIDE DEF now, answer
<1>6. restarts' \in 0 .. MaxGeneration
  BY <1>1, RunLoopAssumption, QueueAssumption
<1> QED
  BY <1>1, <1>2, <1>4, <1>5, <1>6 DEF DrainInv

(***************************************************************************)
(* The queue's own steps leave snapshots and answers alone.                *)
(***************************************************************************)
LEMMA QueueKeepsSnapshots ==
  ASSUME LanesInv, QueueStep, NEW w \in Waiters
  PROVE  /\ generation' = generation
         /\ waiter'[w].tasks = waiter[w].tasks
         /\ waiter[w].answer \in Answers => waiter'[w].answer \in Answers
         /\ \A t \in waiter[w].tasks : startedIn'[t] = startedIn[t]
<1>1. waiter \in [Waiters -> WaiterRecords]
  BY DEF LanesInv, WaiterInv
<1>2. ASSUME NEW a
      PROVE  /\ Notified(a)[w].tasks = waiter[w].tasks
             /\ waiter[w].answer \in Answers => Notified(a)[w].answer \in Answers
  BY <1>1 DEF Notified, WaiterRecords, Answers
<1>3. /\ generation' = generation
      /\ waiter'[w].tasks = waiter[w].tasks
      /\ waiter[w].answer \in Answers => waiter'[w].answer \in Answers
  <2>1. CASE \E t \in Tasks : EnqueueCommandInLane(t)
    BY <2>1 DEF EnqueueCommandInLane, EnqueueAccepted, EnqueueRefused
  <2>2. CASE \E t \in Tasks : Complete(t)
    BY <1>2, <2>2 DEF Complete, CompleteCurrent, CompleteStale
  <2>3. CASE \E l \in Lanes : ClearCommandLane(l)
    BY <2>3 DEF ClearCommandLane
  <2>4. CASE \E l \in Lanes, m \in Limits : SetCommandLaneConcurrency(l, m)
    BY <2>4 DEF SetCommandLaneConcurrency
  <2>5. ASSUME NEW v \in Waiters, WaiterTimeout(v)
        PROVE  /\ generation' = generation
               /\ waiter'[w].tasks = waiter[w].tasks
               /\ waiter[w].answer \in Answers => waiter'[w].answer \in Answers
    BY <1>1, <2>5 DEF WaiterTimeout, WaiterRecords, Answers
  <2> QED
    BY <2>1, <2>2, <2>3, <2>4, <2>5 DEF QueueStep
<1>4. ASSUME NEW t \in waiter[w].tasks PROVE startedIn'[t] = startedIn[t]
  <2>1. t \in Tasks /\ phase[t] \in Started
    BY <1>4 DEF LanesInv, WaiterInv
  <2>2. [Next]_queueVars
    BY DEF QueueStep, Next
  <2> QED
    BY <2>1, <2>2, StartedInStays DEF LanesInv
<1> QED
  BY <1>3, <1>4

LEMMA DrainStep == LanesInv /\ LoopInv /\ DrainInv /\ [LoopNext]_loopVars => DrainInv'
<1> SUFFICES ASSUME LanesInv, LoopInv, DrainInv, [LoopNext]_loopVars PROVE DrainInv'
  OBVIOUS
<1>0. LoopShape /\ RestartIsAwaited
  BY DEF LoopInv
<1>1. ASSUME NEW embeddedRuns \in BOOLEAN, NEW hasTimeout \in BOOLEAN,
             RestartSignal(embeddedRuns, hasTimeout)
      PROVE  DrainInv'
  BY <1>1, SignalBeginsDrain
<1>2. CASE QueueStep
  <2>1. UNCHANGED <<restarts, shutdown>>
    BY <1>2 DEF QueueStep
  <2>2. CASE shutdown.action # "restart"
    BY <2>1, <2>2 DEF DrainInv
  <2>3. CASE shutdown.action = "restart"
    BY <1>2, <2>1, <2>3, QueueKeepsSnapshots DEF DrainInv
  <2> QED
    BY <2>2, <2>3
<1>3. CASE StopSignal
  BY <1>0, <1>3 DEF StopSignal, BeginClose, queueVars, taskVars, DrainInv, RestartIsAwaited
<1>4. CASE DrainEnds
  <2>1. /\ shutdown'.action = "restart" /\ waiter[restarts].answer \in Answers
        /\ shutdown'.stage # "draining"
        /\ UNCHANGED <<restarts, waiter, generation, startedIn>>
    BY <1>4 DEF DrainEnds, BeginClose, queueVars, taskVars, DrainInv
  <2> QED
    BY <1>4, <2>1 DEF DrainEnds, DrainInv
<1>5. ASSUME ResumeLoop, UNCHANGED restarts PROVE DrainInv'
  BY <1>5 DEF ResumeLoop, DrainInv, Idle
<1>6. ASSUME UNCHANGED <<restarts, waiter, generation, startedIn>>,
             shutdown' = shutdown \/
               (/\ shutdown.stage # "draining" /\ shutdown'.stage # "draining"
                /\ shutdown'.action = shutdown.action)
      PROVE  DrainInv'
  BY <1>6 DEF DrainInv
<1>7. CASE CloseEnds
  <2>1. shutdown'.action = shutdown.action /\ shutdown'.stage = "releasing"
    BY <1>0, <1>7 DEF CloseEnds, LoopShape
  <2> QED
    BY <1>6, <1>7, <2>1 DEF CloseEnds, queueVars, taskVars
<1>8. CASE HandleRestartAfterServerClose
  <2>1. CASE ResumeLoop
    BY <1>5, <1>8, <2>1 DEF HandleRestartAfterServerClose
  <2>2. CASE shutdown' = [shutdown EXCEPT !.stage = "relocking"] /\ UNCHANGED queueVars
    <3>1. shutdown'.action = shutdown.action /\ shutdown'.stage = "relocking"
      BY <1>0, <2>2 DEF LoopShape
    <3> QED
      BY <1>6, <1>8, <2>2, <3>1 DEF HandleRestartAfterServerClose, queueVars, taskVars
  <2>3. CASE UNCHANGED <<queueVars, shutdown>>
    BY <1>6, <1>8, <2>3 DEF HandleRestartAfterServerClose, queueVars, taskVars
  <2> QED
    BY <1>8, <2>1, <2>2, <2>3 DEF HandleRestartAfterServerClose
<1>9. CASE ReacquireLockForInProcessRestart
  BY <1>5, <1>6, <1>9 DEF ReacquireLockForInProcessRestart, queueVars, taskVars
<1>10. CASE \/ AcquireGatewayLock \/ StartSucceeds \/ StartFails \/ RunsAnswer
            \/ ForceExit \/ HandleStopAfterServerClose \/ UNCHANGED loopVars
  BY <1>6, <1>10 DEF AcquireGatewayLock, StartSucceeds, StartFails, RunsAnswer, ForceExit,
     HandleStopAfterServerClose, loopVars, queueVars, taskVars
<1> QED
  BY <1>1, <1>2, <1>3, <1>4, <1>7, <1>8, <1>9, <1>10 DEF LoopNext

LEMMA LanesInitial == LoopInit => LanesInv /\ DrainInv
<1>1. LoopInit => Init /\ shutdown = Idle /\ restarts = 0
  BY DEF LoopInit
<1>2. Init => LanesInv
  <2>1. Init => gatewayDraining \in BOOLEAN
    BY DEF Init
  <2> QED
    BY <2>1, InitInv, WaitersInitial DEF LanesInv
<1>3. shutdown = Idle /\ restarts = 0 => DrainInv
  BY QueueAssumption DEF DrainInv, Idle
<1> QED
  BY <1>1, <1>2, <1>3

(***************************************************************************)
(* The invariant of the run loop with its queue.                           *)
(***************************************************************************)
THEOREM LanesInvariant == LoopSpec => [](LanesInv /\ DrainInv)
BY LanesInitial, LanesStep, DrainStep, LoopInvariant, PTL DEF LoopSpec

(***************************************************************************)
(* A restart that goes on to close the server has waited for every entry   *)
(* that was executing when the signal came, or its budget was spent.       *)
(***************************************************************************)
THEOREM DrainsAreAwaited == LoopSpec => []RestartWaitsForTasks
<1>1. ASSUME LanesInv, DrainInv, shutdown.action = "restart", shutdown.stage # "draining",
             waiter[restarts].answer # "timedOut", NEW t \in waiter[restarts].tasks
      PROVE  phase[t] \in Settled
  <2>1. restarts \in Waiters /\ startedIn[t] = generation
    BY <1>1 DEF DrainInv
  <2>2. waiter[restarts].answer = "drained"
    BY <1>1 DEF DrainInv, Answers
  <2>3. phase[t] \in Settled \/ startedIn[t] < generation
    BY <1>1, <2>1, <2>2 DEF LanesInv, WaiterInv, DrainedMeansSettled
  <2>4. generation \in Nat
    BY <1>1 DEF LanesInv, QueueInv, Coherent, Typed
  <2> QED
    BY <2>1, <2>3, <2>4
<1>2. LanesInv /\ DrainInv => RestartWaitsForTasks
  BY <1>1 DEF RestartWaitsForTasks
<1> QED
  BY <1>2, LanesInvariant, PTL

(***************************************************************************)
(* The next iteration of the loop starts clean: it accepts entries, what   *)
(* was interrupted holds no slot, and nothing that was queued is dropped.  *)
(***************************************************************************)
THEOREM IterationsStartClean == LoopSpec => IterationStartsClean
<1> DEFINE Clean ==
      /\ ~gatewayDraining'
      /\ \A l \in Lanes : activeTaskIds[l] \cap activeTaskIds'[l] = {}
      /\ \A t \in Tasks : phase[t] = "queued" => phase'[t] \in {"queued", "running"}
<1>1. ASSUME LanesInv, ResetAllLanes PROVE Clean
  <2> DEFINE idle == [l \in Lanes |-> {}]
             lanes == {l \in Lanes : queue[l] # <<>>}
             n(l) == N(lanes, queue, idle, maxConcurrent, l)
  <2>1. /\ gatewayDraining' = FALSE
        /\ Pump(lanes, queue, idle, maxConcurrent, phase, generation + 1)
    BY <1>1 DEF ResetAllLanes
  <2>2. Coherent(queue, idle, phase, startedIn, generation + 1)
    BY <1>1, ResetCoherent DEF LanesInv
  <2>3. maxConcurrent \in [Lanes -> Nat] /\ lanes \in SUBSET Lanes
    BY <1>1 DEF LanesInv, QueueInv
  <2>4. \A l \in Lanes : idle[l] = {}
    OBVIOUS
  <2> HIDE DEF idle, lanes
  <2>5. \A l \in Lanes : Moves(queue, idle, phase, generation + 1, n(l), l)
    BY <2>1, <2>2, <2>3, PumpMoves
  <2>6. \A l \in Lanes : activeTaskIds[l] \cap activeTaskIds'[l] = {}
    <3>1. ASSUME NEW l \in Lanes, NEW t \in activeTaskIds'[l] PROVE phase[t] = "queued"
      BY <2>4, <2>5, <3>1 DEF Moves
    <3>2. ASSUME NEW l \in Lanes, NEW t \in activeTaskIds[l] PROVE phase[t] = "running"
      BY <1>1, <3>2 DEF LanesInv, QueueInv, Coherent, Slots
    <3> QED
      BY <3>1, <3>2
  <2>7. ASSUME NEW t \in Tasks, phase[t] = "queued" PROVE phase'[t] \in {"queued", "running"}
    <3>1. LaneOf[t] \in Lanes
      BY QueueAssumption
    <3>2. CASE t \in Front(queue[LaneOf[t]], n(LaneOf[t]))
      BY <2>5, <3>1, <3>2 DEF Moves
    <3>3. CASE t \notin Front(queue[LaneOf[t]], n(LaneOf[t]))
      BY <2>1, <2>2, <2>3, <2>7, <3>3, PumpLeaves
    <3> QED
      BY <3>2, <3>3
  <2> QED
    BY <2>1, <2>6, <2>7
<1>2. ASSUME LanesInv, [LoopNext]_loopVars, loop = "waiting", loop' = "starting"
      PROVE  ResetAllLanes
  BY <1>2 DEF LoopNext, AcquireGatewayLock, StartSucceeds, StartFails, StopSignal,
     RestartSignal, RunsAnswer, DrainEnds, CloseEnds, ForceExit,
     HandleStopAfterServerClose, HandleRestartAfterServerClose,
     ReacquireLockForInProcessRestart, ResumeLoop, QueueStep, loopVars
<1>3. ASSUME LanesInv, [LoopNext]_loopVars, loop = "waiting", loop' = "starting"
      PROVE  Clean
  BY <1>1, <1>2, <1>3
<1> QED
  BY <1>3, LanesInvariant, PTL DEF LoopSpec, IterationStartsClean

(***************************************************************************)
(* The flags and histories of the loop have their types.                   *)
(***************************************************************************)
FlagsTyped ==
  /\ server \in BOOLEAN /\ listening \in BOOLEAN /\ lock \in BOOLEAN
  /\ isFirstStart \in BOOLEAN /\ shuttingDown \in BOOLEAN
  /\ mishaps \subseteq {"signalInStart", "closeFailed"}
  /\ runsDrain \in {"waiting", "done"}
  /\ exit \in {"running", "clean", "failure"}

LEMMA FlagsInvariant == LoopSpec => []FlagsTyped
<1>1. LoopInit => FlagsTyped
  BY DEF LoopInit, FlagsTyped
<1>2. FlagsTyped /\ [LoopNext]_loopVars => FlagsTyped'
  <2> SUFFICES ASSUME FlagsTyped, [LoopNext]_loopVars PROVE FlagsTyped'
    OBVIOUS
  <2> USE DEF FlagsTyped
  <2>1. CASE AcquireGatewayLock \/ StartSucceeds \/ StartFails
    BY <2>1 DEF AcquireGatewayLock, StartSucceeds, StartFails, serverVars
  <2>2. CASE QueueStep \/ UNCHANGED loopVars
    <3>1. UNCHANGED <<server, listening, lock, isFirstStart, shuttingDown, mishaps, runsDrain, exit>>
      BY <2>2 DEF QueueStep, loopVars, serverVars
    <3> QED
      BY <3>1
  <2>3. CASE StopSignal \/ RunsAnswer \/ DrainEnds
    BY <2>3 DEF StopSignal, RunsAnswer, DrainEnds, BeginClose, serverVars
  <2>4. CASE \E embeddedRuns, hasTimeout \in BOOLEAN : RestartSignal(embeddedRuns, hasTimeout)
    BY <2>4 DEF RestartSignal, BeginClose, serverVars
  <2>5. CASE CloseEnds \/ ForceExit \/ HandleStopAfterServerClose
    BY <2>5 DEF CloseEnds, ForceExit, HandleStopAfterServerClose, serverVars
  <2>6. CASE HandleRestartAfterServerClose \/ ReacquireLockForInProcessRestart
    BY <2>6 DEF HandleRestartAfterServerClose, ReacquireLockForInProcessRestart,
       ResumeLoop, serverVars
  <2> QED
    BY <2>1, <2>2, <2>3, <2>4, <2>5, <2>6 DEF LoopNext
<1> QED
  BY <1>1, <1>2, PTL DEF LoopSpec

(***************************************************************************)
(* Type correctness of the run loop and of the queue under it.             *)
(***************************************************************************)
THEOREM LoopTypeCorrect == LoopSpec => []LoopTypeOK
<1>1. LanesInv => TypeOK
  BY DEF LanesInv, WaiterInv, WaiterRecords, QueueInv, Coherent, Typed, TypeOK
<1>2. TypeOK /\ DrainInv /\ LoopInv /\ FlagsTyped => LoopTypeOK
  BY Zenon DEF DrainInv, LoopInv, LoopShape, RestartIsAwaited, FlagsTyped, LoopTypeOK
<1> QED
  BY <1>1, <1>2, LanesInvariant, LoopInvariant, FlagsInvariant, PTL
-----------------------------------------------------------------------------
(***************************************************************************)
(* What the queue promises, it keeps under restarts. A signal closes the   *)
(* queue and takes a snapshot in one handler: it takes no slot.            *)
(***************************************************************************)
LEMMA LoopShapes ==
  ASSUME LanesInv, [LoopNext]_loopVars
  PROVE  Shape /\ maxConcurrent' \in [Lanes -> Nat]
<1>1. ASSUME NEW embeddedRuns \in BOOLEAN, NEW hasTimeout \in BOOLEAN,
             RestartSignal(embeddedRuns, hasTimeout)
      PROVE  Shape /\ maxConcurrent' \in [Lanes -> Nat]
  <2> DEFINE now == Pending(activeTaskIds)
             new == [tasks |-> now, answer |-> IF now = {} THEN "drained"
                                               ELSE IF hasTimeout THEN "waiting" ELSE "timedOut"]
  <2>1. /\ waiter' = [waiter EXCEPT ![restarts'] = new]
        /\ UNCHANGED <<activeTaskIds, maxConcurrent, generation, phase, startedIn>>
    BY <1>1 DEF RestartSignal
  <2>2. /\ new.tasks = now
        /\ new.answer = "drained" => now = {}
        /\ new.answer = "waiting" => now # {}
    OBVIOUS
  <2>3. waiter \in [Waiters -> WaiterRecords] /\ maxConcurrent \in [Lanes -> Nat]
    BY DEF LanesInv, WaiterInv, QueueInv
  <2> HIDE DEF new, now
  <2>4. \A w \in Waiters : waiter'[w] = waiter[w] \/ waiter'[w] = new
    BY <2>1, <2>3
  <2>5. \A t \in Tasks : phase[t] = "queued" => phase[t] # "running"
    OBVIOUS
  <2>6. Still
    BY <2>1, <2>2, <2>4, <2>5 DEF Still, now
  <2> QED
    BY <2>1, <2>3, <2>6 DEF Shape
<1> QED
  BY <1>1, StepsOfTheQueue, StepShape DEF LanesInv

(***************************************************************************)
(* Under restarts no lane leaves an entry queued beside a free slot, slots *)
(* are those of executing entries, each waiting promise is in its lane's   *)
(* queue, once, no waiter is missed, and "drained" is true.                *)
(***************************************************************************)
THEOREM LoopKeepsQueue ==
  LoopSpec => []( /\ NoStrandedWork /\ SlotsMatchRunning /\ QueueHoldsPromises
                  /\ WaitersNotMissed /\ DrainedMeansSettled )
<1>1. LanesInv => /\ NoStrandedWork /\ SlotsMatchRunning /\ QueueHoldsPromises
                  /\ WaitersNotMissed /\ DrainedMeansSettled
  BY QueuePromises DEF LanesInv, WaiterInv
<1> QED
  BY <1>1, LanesInvariant, PTL

(***************************************************************************)
(* Under restarts a promise settles at most once, no pump fills a lane     *)
(* beyond its limit, and the entries of a lane start in their order.       *)
(***************************************************************************)
THEOREM LoopStartsInOrder == LoopSpec => SettlesOnce /\ AdmissionWithinLimit /\ StartsInOrder
<1> DEFINE Stays == \A t \in Tasks : phase[t] \in Settled => phase'[t] = phase[t]
<1>1. ASSUME LanesInv, [LoopNext]_loopVars PROVE Stays
  <2>1. CASE \E embeddedRuns, hasTimeout \in BOOLEAN : RestartSignal(embeddedRuns, hasTimeout)
    BY <2>1 DEF RestartSignal
  <2> QED
    BY <1>1, <2>1, StepsOfTheQueue, SettledStays DEF LanesInv
<1>2. LanesInv /\ [LoopNext]_loopVars =>
        [Stays]_queueVars /\ [WithinLimit]_queueVars /\ [InOrder]_queueVars
  BY <1>1, LoopShapes, ShapeAdmits, ShapeInOrder DEF LanesInv
<1> QED
  BY <1>2, LanesInvariant, PTL
     DEF LoopSpec, SettlesOnce, AdmissionWithinLimit, StartsInOrder, WithinLimit, InOrder
=============================================================================
