---------------------------- MODULE CommandQueue ----------------------------
(***************************************************************************)
(* The in-process command queue of the OpenClaw gateway                    *)
(* (openclaw/src/process/command-queue.ts): named lanes, each with a FIFO  *)
(* of entries, a set of executing entries and a concurrency limit; waiters *)
(* for the entries executing at one moment; a draining flag that refuses   *)
(* new entries; and the reset of an in-process restart.                    *)
(*                                                                         *)
(* A task is one call of enqueueCommandInLane, with its promise. The code  *)
(* draws a taskId from nextTaskId when an entry starts; an entry starts at *)
(* most once and outside the tests the counter is never set back, so the   *)
(* id of a started entry is the task itself. A lane is created on demand   *)
(* in its initial state, so every lane is modelled as present. JavaScript  *)
(* runs each handler to completion, so a handler, with the pumping it      *)
(* does, is one step; LaneState.draining is true only inside such a step.  *)
(***************************************************************************)
EXTENDS Integers, Sequences, FiniteSets

CONSTANTS
  Lanes,          \* lane names
  Tasks,          \* calls of enqueueCommandInLane
  LaneOf,         \* the lane each call names
  Waiters,        \* calls of waitForActiveTasks
  Limits,         \* limits that setCommandLaneConcurrency is called with
  MaxGeneration   \* bound: resets of the lanes in one behaviour

ASSUME QueueAssumption ==
  /\ IsFiniteSet(Tasks)
  /\ LaneOf \in [Tasks -> Lanes]
  /\ Limits \subseteq Nat
  /\ MaxGeneration \in Nat

VARIABLES
  gatewayDraining,  \* new entries are refused
  queue,            \* per lane, the entries that have not started
  activeTaskIds,    \* per lane, the entries that occupy a slot
  maxConcurrent,    \* per lane, the number of slots
  generation,       \* number of resets every lane went through
  phase,            \* per task, the state of its promise
  startedIn,        \* per task, the generation in which it started
  waiter            \* per waiter, its snapshot and its answer

laneVars == <<queue, activeTaskIds, maxConcurrent>>
taskVars == <<phase, startedIn>>
queueVars == <<gatewayDraining, laneVars, generation, taskVars, waiter>>

(***************************************************************************)
(* "new": not called yet; "refused": GatewayDrainingError; "cleared":      *)
(* CommandLaneClearedError; "resolved" and "rejected": settled by the      *)
(* task's own outcome.                                                     *)
(***************************************************************************)
Outcomes == {"resolved", "rejected"}
Settled  == Outcomes \cup {"refused", "cleared"}
Phases   == Settled \cup {"new", "queued", "running"}

Answers  == {"drained", "timedOut"}
-----------------------------------------------------------------------------
(***************************************************************************)
(* The pump: while a lane has a free slot and a queued entry, the entry at *)
(* the head starts. On a queue q, executing entries a and a limit m it     *)
(* starts the first Admitted(q, a, m) entries.                             *)
(***************************************************************************)
FreeSlots(a, m) == IF Cardinality(a) < m THEN m - Cardinality(a) ELSE 0

AdmittedOneMore(q, a, m) ==   \* mutant: <= in the loop condition
  IF Len(q) < FreeSlots(a, m + 1) THEN Len(q) ELSE FreeSlots(a, m + 1)

Admitted(q, a, m) ==
  IF Len(q) < FreeSlots(a, m) THEN Len(q) ELSE FreeSlots(a, m)

Front(q, n) == {q[i] : i \in 1 .. n}

Back(q, n) == Front(SubSeq(q, Len(q) - n + 1, Len(q)), n)

PumpFromTheBack(lanes, q, a, m, p, g) ==   \* mutant: pop() for shift()
  LET n(l)    == IF l \in lanes THEN Admitted(q[l], a[l], m[l]) ELSE 0
      start   == UNION {Back(q[l], n(l)) : l \in Lanes}
  IN  /\ queue' = [l \in Lanes |-> SubSeq(q[l], 1, Len(q[l]) - n(l))]
      /\ activeTaskIds' = [l \in Lanes |-> a[l] \cup Back(q[l], n(l))]
      /\ phase' = [t \in Tasks |-> IF t \in start THEN "running" ELSE p[t]]
      /\ startedIn' = [t \in Tasks |-> IF t \in start THEN g ELSE startedIn[t]]

(***************************************************************************)
(* Pumps the given lanes, from queues q, executing entries a, limits m,    *)
(* promises p and generation g.                                            *)
(***************************************************************************)
Pump(lanes, q, a, m, p, g) ==
  LET n(l)    == IF l \in lanes THEN Admitted(q[l], a[l], m[l]) ELSE 0
      start   == UNION {Front(q[l], n(l)) : l \in Lanes}
  IN  /\ queue' = [l \in Lanes |-> SubSeq(q[l], n(l) + 1, Len(q[l]))]
      /\ activeTaskIds' = [l \in Lanes |-> a[l] \cup Front(q[l], n(l))]
      /\ phase' = [t \in Tasks |-> IF t \in start THEN "running" ELSE p[t]]
      /\ startedIn' = [t \in Tasks |-> IF t \in start THEN g ELSE startedIn[t]]

(***************************************************************************)
(* notifyActiveTaskWaiters: a waiter none of whose tasks still occupies a  *)
(* slot of any lane is answered { drained: true }.                         *)
(***************************************************************************)
Pending(a) == UNION {a[l] : l \in Lanes}

NotifiedByAny(a) ==   \* mutant: one settled entry of the snapshot is enough
  [w \in Waiters |->
     IF waiter[w].answer = "waiting" /\ ~(waiter[w].tasks \subseteq Pending(a))
     THEN [waiter[w] EXCEPT !.answer = "drained"]
     ELSE waiter[w]]

Notified(a) ==
  [w \in Waiters |->
     IF waiter[w].answer = "waiting" /\ waiter[w].tasks \cap Pending(a) = {}
     THEN [waiter[w] EXCEPT !.answer = "drained"]
     ELSE waiter[w]]
-----------------------------------------------------------------------------
Init ==
  /\ gatewayDraining = FALSE
  /\ queue = [l \in Lanes |-> <<>>]
  /\ activeTaskIds = [l \in Lanes |-> {}]
  /\ maxConcurrent = [l \in Lanes |-> 1]
  /\ generation = 0
  /\ phase = [t \in Tasks |-> "new"]
  /\ startedIn = [t \in Tasks |-> 0]
  /\ waiter = [w \in Waiters |-> [answer |-> "idle", tasks |-> {}]]

MarkGatewayDraining ==
  /\ gatewayDraining' = TRUE
  /\ UNCHANGED <<laneVars, generation, taskVars, waiter>>

SetCommandLaneConcurrency(l, m) ==
  /\ maxConcurrent' = [maxConcurrent EXCEPT ![l] = IF m > 1 THEN m ELSE 1]
  /\ Pump({l}, queue, activeTaskIds, maxConcurrent', phase, generation)
  /\ UNCHANGED <<gatewayDraining, generation, waiter>>

EnqueueRefused(t) ==
  /\ phase[t] = "new"
  /\ gatewayDraining
  /\ phase' = [phase EXCEPT ![t] = "refused"]
  /\ UNCHANGED <<gatewayDraining, laneVars, generation, startedIn, waiter>>

EnqueueAccepted(t) ==
  /\ phase[t] = "new"
  /\ ~gatewayDraining
  /\ Pump({LaneOf[t]},
          [queue EXCEPT ![LaneOf[t]] = Append(@, t)],
          activeTaskIds, maxConcurrent,
          [phase EXCEPT ![t] = "queued"], generation)
  /\ UNCHANGED <<gatewayDraining, maxConcurrent, generation, waiter>>

EnqueueCommandInLane(t) == EnqueueRefused(t) \/ EnqueueAccepted(t)

CompleteWithoutNotify(t, outcome) ==   \* mutant: the waiters are not told
  LET l    == LaneOf[t]
      left == [activeTaskIds EXCEPT ![l] = @ \ {t}]
  IN  /\ phase[t] = "running"
      /\ startedIn[t] = generation
      /\ Pump({l}, queue, left, maxConcurrent,
              [phase EXCEPT ![t] = outcome], generation)
      /\ UNCHANGED <<gatewayDraining, maxConcurrent, generation, waiter>>

(***************************************************************************)
(* The task's promise settles. An entry of the lane's current generation   *)
(* gives its slot back, tells the waiters and pumps the lane; one that a   *)
(* reset left behind only settles its promise.                             *)
(***************************************************************************)
CompleteCurrent(t, outcome) ==
  LET l    == LaneOf[t]
      left == [activeTaskIds EXCEPT ![l] = @ \ {t}]
  IN  /\ phase[t] = "running"
      /\ startedIn[t] = generation
      /\ waiter' = Notified(left)
      /\ Pump({l}, queue, left, maxConcurrent,
              [phase EXCEPT ![t] = outcome], generation)
      /\ UNCHANGED <<gatewayDraining, maxConcurrent, generation>>

CompleteStale(t, outcome) ==
  /\ phase[t] = "running"
  /\ startedIn[t] # generation
  /\ phase' = [phase EXCEPT ![t] = outcome]
  /\ UNCHANGED <<gatewayDraining, laneVars, generation, startedIn, waiter>>

ClearWithoutReject(l) ==   \* mutant: dropped entries are not rejected
  /\ queue' = [queue EXCEPT ![l] = <<>>]
  /\ UNCHANGED <<gatewayDraining, activeTaskIds, maxConcurrent, generation,
                 taskVars, waiter>>

RejectWithoutClear(l) ==   \* mutant: slice() for splice(), the entries stay
  /\ phase' = [t \in Tasks |->
                 IF t \in Front(queue[l], Len(queue[l])) THEN "cleared" ELSE phase[t]]
  /\ UNCHANGED <<gatewayDraining, laneVars, generation, startedIn, waiter>>

ClearCommandLane(l) ==
  /\ queue' = [queue EXCEPT ![l] = <<>>]
  /\ phase' = [t \in Tasks |->
                 IF t \in Front(queue[l], Len(queue[l])) THEN "cleared" ELSE phase[t]]
  /\ UNCHANGED <<gatewayDraining, activeTaskIds, maxConcurrent, generation,
                 startedIn, waiter>>

ResetWithoutPump ==   \* mutant: preserved entries wait for the next enqueue
  /\ generation < MaxGeneration
  /\ gatewayDraining' = FALSE
  /\ generation' = generation + 1
  /\ activeTaskIds' = [l \in Lanes |-> {}]
  /\ waiter' = Notified(activeTaskIds')
  /\ UNCHANGED <<queue, maxConcurrent, taskVars>>

ResetKeepingActive ==   \* mutant: the executing entries keep their slots
  /\ generation < MaxGeneration
  /\ gatewayDraining' = FALSE
  /\ generation' = generation + 1
  /\ Pump({l \in Lanes : queue[l] # <<>>}, queue, activeTaskIds, maxConcurrent,
          phase, generation')
  /\ waiter' = Notified(activeTaskIds')
  /\ UNCHANGED maxConcurrent

(***************************************************************************)
(* resetAllLanes: the generation moves on, no entry occupies a slot any    *)
(* more, entries are accepted again, every lane with queued entries is     *)
(* pumped, and then the waiters are told.                                  *)
(***************************************************************************)
ResetAllLanes ==
  LET idle == [l \in Lanes |-> {}]
  IN  /\ generation < MaxGeneration
      /\ gatewayDraining' = FALSE
      /\ generation' = generation + 1
      /\ Pump({l \in Lanes : queue[l] # <<>>}, queue, idle, maxConcurrent,
              phase, generation')
      /\ waiter' = Notified(activeTaskIds')
      /\ UNCHANGED maxConcurrent

(***************************************************************************)
(* waitForActiveTasks: answered at once when nothing executes or when the  *)
(* timeout is zero, registered with a timer otherwise.                     *)
(***************************************************************************)
WaitForActiveTasks(w, hasTimeout) ==
  LET now == Pending(activeTaskIds)
  IN  /\ waiter[w].answer = "idle"
      /\ waiter' = [waiter EXCEPT ![w] =
           [tasks  |-> now,
            answer |-> IF now = {} THEN "drained"
                       ELSE IF hasTimeout THEN "waiting" ELSE "timedOut"]]
      /\ UNCHANGED <<gatewayDraining, laneVars, generation, taskVars>>

WaiterTimeout(w) ==
  /\ waiter[w].answer = "waiting"
  /\ waiter' = [waiter EXCEPT ![w].answer = "timedOut"]
  /\ UNCHANGED <<gatewayDraining, laneVars, generation, taskVars>>

Complete(t) ==
  \E outcome \in Outcomes : CompleteCurrent(t, outcome) \/ CompleteStale(t, outcome)

Next ==
  \/ MarkGatewayDraining
  \/ \E l \in Lanes, m \in Limits : SetCommandLaneConcurrency(l, m)
  \/ \E t \in Tasks : EnqueueCommandInLane(t)
  \/ \E t \in Tasks : Complete(t)
  \/ \E l \in Lanes : ClearCommandLane(l)
  \/ ResetAllLanes
  \/ \E w \in Waiters, hasTimeout \in BOOLEAN : WaitForActiveTasks(w, hasTimeout)
  \/ \E w \in Waiters : WaiterTimeout(w)

Spec == Init /\ [][Next]_queueVars
-----------------------------------------------------------------------------
TypeOK ==
  /\ gatewayDraining \in BOOLEAN
  /\ queue \in [Lanes -> Seq(Tasks)]
  /\ activeTaskIds \in [Lanes -> SUBSET Tasks]
  /\ maxConcurrent \in [Lanes -> Nat \ {0}]
  /\ generation \in Nat
  /\ phase \in [Tasks -> Phases]
  /\ startedIn \in [Tasks -> Nat]
  /\ waiter \in [Waiters -> [answer : Answers \cup {"idle", "waiting"},
                             tasks  : SUBSET Tasks]]

(***************************************************************************)
(* No lane strands work: whenever entries are queued, all slots of the     *)
(* lane are taken. Every handler that frees a slot, adds an entry or adds  *)
(* slots must pump, the reset too, or preserved entries wait for an        *)
(* enqueue that may never come.                                            *)
(***************************************************************************)
NoStrandedWork ==
  \A l \in Lanes :
    queue[l] # <<>> => Cardinality(activeTaskIds[l]) >= maxConcurrent[l]

(***************************************************************************)
(* The slots of a lane are held by exactly the executing entries of the    *)
(* lane's current generation: no slot leaks to a settled entry, and a late *)
(* completion from before a reset frees no slot of a newer entry.          *)
(***************************************************************************)
SlotsMatchRunning ==
  \A l \in Lanes :
    activeTaskIds[l] =
      {t \in Tasks : LaneOf[t] = l /\ phase[t] = "running" /\ startedIn[t] = generation}

(***************************************************************************)
(* Every accepted promise that has not started is in its lane's queue,     *)
(* once, and the queue holds nothing else: clearing, resetting and pumping *)
(* neither lose a caller's promise nor start an entry twice.               *)
(***************************************************************************)
QueueHoldsPromises ==
  \A t \in Tasks, l \in Lanes :
    Cardinality({i \in 1 .. Len(queue[l]) : queue[l][i] = t}) =
      IF phase[t] = "queued" /\ LaneOf[t] = l THEN 1 ELSE 0

(***************************************************************************)
(* A pending waiter still waits for an entry that occupies a slot, so a    *)
(* completion or a reset that freed the last one did not miss it.          *)
(***************************************************************************)
WaitersNotMissed ==
  \A w \in Waiters :
    waiter[w].answer = "waiting" => waiter[w].tasks \cap Pending(activeTaskIds) # {}

(***************************************************************************)
(* A waiter answered "drained" may go on: each entry of its snapshot has   *)
(* settled, unless a reset gave the entry up.                              *)
(***************************************************************************)
DrainedMeansSettled ==
  \A w \in Waiters :
    waiter[w].answer = "drained" =>
      \A t \in waiter[w].tasks :
        phase[t] \in Settled \/ (phase[t] = "running" /\ startedIn[t] < generation)

(***************************************************************************)
(* An entry starts only when every entry queued before it in its lane      *)
(* starts with it or has left the queue.                                   *)
(***************************************************************************)
StartsInOrder ==
  [][\A l \in Lanes : \A i, j \in 1 .. Len(queue[l]) :
       i < j /\ phase'[queue[l][j]] = "running" => phase'[queue[l][i]] # "queued"
    ]_queueVars

(***************************************************************************)
(* The pump never fills a lane beyond its limit: a lane is over its limit  *)
(* only because the limit was lowered under it.                            *)
(***************************************************************************)
AdmissionWithinLimit ==
  [][\A l \in Lanes :
       activeTaskIds'[l] \ activeTaskIds[l] # {} =>
         Cardinality(activeTaskIds'[l]) <= maxConcurrent'[l]]_queueVars

(***************************************************************************)
(* A caller's promise settles at most once, and a task of which the caller *)
(* was told that it was refused or cleared never runs.                     *)
(***************************************************************************)
SettlesOnce ==
  [][\A t \in Tasks : phase[t] \in Settled => phase'[t] = phase[t]]_queueVars
=============================================================================
