----------------------- MODULE EmbeddedRunLanesProofs -----------------------
(***************************************************************************)
(* Proofs about runs in lanes, for any sessions, runs, jobs and limits and *)
(* any number of resets.                                                   *)
(*                                                                         *)
(* A run that executes holds an inner entry that has not settled, so its   *)
(* outer entry still executes (HoldsSession); an outer entry of the        *)
(* current generation occupies a slot of its session's lane (QueueInv),    *)
(* and that lane has one slot (OneSlotEach). No entries wait on each other *)
(* in a circle (NoCircle).                                                 *)
(***************************************************************************)
EXTENDS EmbeddedRunLanes, CommandQueueProofs

(***************************************************************************)
(* An inner entry waits or executes only under its outer entry.            *)
(***************************************************************************)
HoldsSession ==
  \A r \in Runs : phase[Inner(r)] \in {"queued", "running"} => phase[Outer(r)] = "running"

(***************************************************************************)
(* The lane of a session has one slot, which at most one entry occupies.   *)
(***************************************************************************)
OneSlotEach ==
  \A s \in Sessions : maxConcurrent[s] = 1 /\ Cardinality(activeTaskIds[s]) <= 1

RunLanesInv == QueueInv /\ HoldsSession /\ OneSlotEach

(***************************************************************************)
(* A promise that the step at hand is not about stays as it is, or leaves  *)
(* the queue.                                                              *)
(***************************************************************************)
Advances(t) ==
  phase'[t] = phase[t] \/ (phase[t] = "queued" /\ phase'[t] \in {"running", "cleared"})
-----------------------------------------------------------------------------
(***************************************************************************)
(* The entries of a run and their lanes.                                   *)
(***************************************************************************)
LEMMA RunEntries ==
  ASSUME NEW r \in Runs
  PROVE  /\ Outer(r) \in Tasks /\ Inner(r) \in Tasks
         /\ LaneOf[Outer(r)] = SessionOf[r]
         /\ SessionOf[r] \in Sessions
         /\ \A q \in Runs : /\ Outer(r) # Inner(q)
                            /\ Outer(r) = Outer(q) => r = q
                            /\ Inner(r) = Inner(q) => r = q
<1>1. Outer(r) \in Tasks /\ Inner(r) \in Tasks
  BY RunLanesAssumption DEF RunTasks
<1>2. Outer(r)[1] = "session" /\ Outer(r)[2] = r /\ Inner(r)[1] = "global" /\ Inner(r)[2] = r
  BY DEF Outer, Inner
<1>3. \A q \in Runs : Outer(r) # Inner(q)
  BY DEF Outer, Inner
<1>4. \A q \in Runs : (Outer(r) = Outer(q) => r = q) /\ (Inner(r) = Inner(q) => r = q)
  BY DEF Outer, Inner
<1>5. LaneOf[Outer(r)] = SessionOf[r]
  <2>1. LaneOf[Outer(r)] = RunLaneOf[Outer(r)] /\ Outer(r) \in RunTasks
    BY <1>1, RunLanesAssumption
  <2> QED
    BY <1>2, <2>1 DEF RunLaneOf
<1> QED
  BY <1>1, <1>3, <1>4, <1>5, RunLanesAssumption

(***************************************************************************)
(* A set of at most one element has no two.                                *)
(***************************************************************************)
LEMMA AtMostOne ==
  ASSUME NEW S, IsFiniteSet(S), Cardinality(S) <= 1, NEW x \in S, NEW y \in S
  PROVE  x = y
<1> SUFFICES ASSUME x # y PROVE FALSE
  OBVIOUS
<1>1. Cardinality({x}) = 1 /\ IsFiniteSet({x})
  BY FS_Singleton
<1>2. {x} \subseteq S /\ {x} # S
  OBVIOUS
<1>3. Cardinality({x}) <= Cardinality(S) /\ (Cardinality({x}) = Cardinality(S) => {x} = S)
  BY <1>2, FS_Subset
<1> QED
  BY <1>1, <1>2, <1>3, FS_CardinalityType

(***************************************************************************)
(* Entries of jobs are no entries of runs.                                 *)
(***************************************************************************)
LEMMA JobEntries ==
  ASSUME NEW j \in Jobs
  PROVE  /\ Entry(j) \in Tasks
         /\ \A r \in Runs : Entry(j) # Outer(r) /\ Entry(j) # Inner(r)
<1>1. Entry(j) \in Tasks
  BY RunLanesAssumption DEF RunTasks
<1>2. \A r \in Runs : Entry(j) # Outer(r) /\ Entry(j) # Inner(r)
  BY DEF Entry, Outer, Inner
<1> QED
  BY <1>1, <1>2

(***************************************************************************)
(* Pumping only starts what is queued.                                     *)
(***************************************************************************)
LEMMA PumpAdvances ==
  ASSUME NEW lanes \in SUBSET Lanes, NEW q, NEW a, NEW m \in [Lanes -> Nat],
         NEW p, NEW g,
         Coherent(q, a, p, startedIn, g),
         Pump(lanes, q, a, m, p, g),
         NEW t \in Tasks
  PROVE  phase'[t] = p[t] \/ (p[t] = "queued" /\ phase'[t] = "running")
<1>1. LaneOf[t] \in Lanes
  BY QueueAssumption
<1>2. CASE t \in Front(q[LaneOf[t]], N(lanes, q, a, m, LaneOf[t]))
  <2>1. Moves(q, a, p, g, N(lanes, q, a, m, LaneOf[t]), LaneOf[t])
    BY <1>1, PumpMoves
  <2> QED
    BY <1>2, <2>1 DEF Moves
<1>3. CASE t \notin Front(q[LaneOf[t]], N(lanes, q, a, m, LaneOf[t]))
  BY <1>3, PumpLeaves
<1> QED
  BY <1>2, <1>3

LEMMA EnqueueAdvances ==
  ASSUME QueueInv, NEW t \in Tasks, EnqueueCommandInLane(t)
  PROVE  /\ phase[t] = "new"
         /\ \A u \in Tasks : u # t => Advances(u)
<1>1. CASE EnqueueRefused(t)
  BY <1>1 DEF EnqueueRefused, Advances
<1>2. CASE EnqueueAccepted(t)
  <2> DEFINE q == [queue EXCEPT ![LaneOf[t]] = Append(@, t)]
             p == [phase EXCEPT ![t] = "queued"]
  <2>1. phase[t] = "new" /\ Pump({LaneOf[t]}, q, activeTaskIds, maxConcurrent, p, generation)
    BY <1>2 DEF EnqueueAccepted
  <2>2. Coherent(q, activeTaskIds, p, startedIn, generation)
    BY <2>1, EnqueueCoherent
  <2>3. \A u \in Tasks : u # t => p[u] = phase[u]
    BY DEF QueueInv, Coherent, Typed
  <2>4. {LaneOf[t]} \in SUBSET Lanes /\ maxConcurrent \in [Lanes -> Nat]
    BY QueueAssumption DEF QueueInv
  <2> HIDE DEF p, q
  <2> QED
    BY <2>1, <2>2, <2>3, <2>4, PumpAdvances DEF Advances
<1> QED
  BY <1>1, <1>2 DEF EnqueueCommandInLane

LEMMA CompleteAdvances ==
  ASSUME QueueInv, NEW t \in Tasks, NEW outcome \in Outcomes,
         CompleteCurrent(t, outcome) \/ CompleteStale(t, outcome)
  PROVE  /\ phase[t] = "running"
         /\ phase'[t] = outcome
         /\ \A u \in Tasks : u # t => Advances(u)
<1> DEFINE p == [phase EXCEPT ![t] = outcome]
<1>1. \A u \in Tasks : p[u] = IF u = t THEN outcome ELSE phase[u]
  BY DEF QueueInv, Coherent, Typed
<1>2. outcome # "queued"
  BY DEF Outcomes
<1>3. CASE CompleteStale(t, outcome)
  BY <1>1, <1>3 DEF CompleteStale, Advances
<1>4. CASE CompleteCurrent(t, outcome)
  <2> DEFINE a == [activeTaskIds EXCEPT ![LaneOf[t]] = @ \ {t}]
  <2>1. /\ phase[t] = "running" /\ startedIn[t] = generation
        /\ Pump({LaneOf[t]}, queue, a, maxConcurrent, p, generation)
    BY <1>4 DEF CompleteCurrent
  <2>2. Coherent(queue, a, p, startedIn, generation)
    BY <2>1, CompleteCoherent
  <2>3. {LaneOf[t]} \in SUBSET Lanes /\ maxConcurrent \in [Lanes -> Nat]
    BY QueueAssumption DEF QueueInv
  <2> HIDE DEF p, a
  <2>4. \A u \in Tasks : phase'[u] = p[u] \/ (p[u] = "queued" /\ phase'[u] = "running")
    BY <2>1, <2>2, <2>3, PumpAdvances
  <2> QED
    BY <1>1, <1>2, <2>1, <2>4 DEF Advances
<1> QED
  BY <1>3, <1>4

(***************************************************************************)
(* The global lanes are lanes, and no session is one of them.              *)
(***************************************************************************)
LEMMA LaneNames ==
  /\ Sessions \subseteq Lanes
  /\ {"cron", "main"} \subseteq Lanes
  /\ \A s \in Sessions : s \notin {"cron", "main"}
BY RunLanesAssumption DEF RunLanes, GlobalLanes

LEMMA ApplyPumps ==
  ASSUME QueueInv, NEW cron \in Limits, NEW main \in Limits,
         ApplyGatewayLaneConcurrency(cron, main)
  PROVE  /\ maxConcurrent' \in [Lanes -> Nat \ {0}]
         /\ \A l \in Lanes \ {"cron", "main"} : maxConcurrent'[l] = maxConcurrent[l]
         /\ Pump({"cron", "main"}, queue, activeTaskIds, maxConcurrent', phase, generation)
         /\ generation' = generation
<1> DEFINE c == IF cron > 1 THEN cron ELSE 1
           d == IF main > 1 THEN main ELSE 1
<1>1. c \in Nat \ {0} /\ d \in Nat \ {0}
  BY QueueAssumption
<1>2. maxConcurrent \in [Lanes -> Nat \ {0}]
  BY DEF QueueInv
<1>3. /\ maxConcurrent' = [maxConcurrent EXCEPT !["cron"] = c, !["main"] = d]
      /\ Pump({"cron", "main"}, queue, activeTaskIds, maxConcurrent', phase, generation)
      /\ generation' = generation
  BY DEF ApplyGatewayLaneConcurrency
<1> HIDE DEF c, d
<1> QED
  BY <1>1, <1>2, <1>3

LEMMA OthersAdvance ==
  ASSUME QueueInv, NEW t \in Tasks,
         \/ MarkGatewayDraining
         \/ \E s \in Sessions : ClearCommandLane(s)
         \/ \E cron, main \in Limits : ApplyGatewayLaneConcurrency(cron, main)
         \/ ResetAllLanes
  PROVE  Advances(t)
<1>0. Coherent(queue, activeTaskIds, phase, startedIn, generation)
  BY DEF QueueInv
<1>1. CASE MarkGatewayDraining
  BY <1>1 DEF MarkGatewayDraining, taskVars, Advances
<1>2. ASSUME NEW s \in Sessions, ClearCommandLane(s) PROVE Advances(t)
  <2>1. phase'[t] = IF t \in Front(queue[s], Len(queue[s])) THEN "cleared" ELSE phase[t]
    BY <1>2 DEF ClearCommandLane
  <2>2. t \in Front(queue[s], Len(queue[s])) => phase[t] = "queued"
    BY <1>0, LaneNames DEF Coherent, InQueue, Front
  <2> QED
    BY <2>1, <2>2 DEF Advances
<1>3. ASSUME NEW cron \in Limits, NEW main \in Limits,
             ApplyGatewayLaneConcurrency(cron, main)
      PROVE  Advances(t)
  <2>1. /\ Pump({"cron", "main"}, queue, activeTaskIds, maxConcurrent', phase, generation)
        /\ maxConcurrent' \in [Lanes -> Nat]
    BY <1>3, ApplyPumps
  <2> QED
    BY <1>0, <2>1, LaneNames, PumpAdvances DEF Advances
<1>4. CASE ResetAllLanes
  <2> DEFINE idle == [l \in Lanes |-> {}]
             lanes == {l \in Lanes : queue[l] # <<>>}
  <2>1. Pump(lanes, queue, idle, maxConcurrent, phase, generation + 1)
    BY <1>4 DEF ResetAllLanes
  <2>2. Coherent(queue, idle, phase, startedIn, generation + 1)
    BY ResetCoherent
  <2>3. lanes \in SUBSET Lanes /\ maxConcurrent \in [Lanes -> Nat]
    BY DEF QueueInv
  <2> HIDE DEF idle, lanes
  <2> QED
    BY <2>1, <2>2, <2>3, PumpAdvances DEF Advances
<1> QED
  BY <1>1, <1>2, <1>3, <1>4
-----------------------------------------------------------------------------
(***************************************************************************)
(* Every step of runs and jobs is a step of the queue that keeps the       *)
(* limits, or a change of the limits.                                      *)
(***************************************************************************)
LEMMA StepsOfRuns ==
  ASSUME [LanesNext]_queueVars
  PROVE  \/ [Next]_queueVars /\ maxConcurrent' = maxConcurrent
         \/ \E cron, main \in Limits : ApplyGatewayLaneConcurrency(cron, main)
<1> DEFINE Kept == [Next]_queueVars /\ maxConcurrent' = maxConcurrent
<1>1. ASSUME NEW t \in Tasks,
             \/ EnqueueCommandInLane(t)
             \/ Complete(t)
             \/ \E outcome \in Outcomes : CompleteCurrent(t, outcome) \/ CompleteStale(t, outcome)
      PROVE  Kept
  <2>1. Next
    BY <1>1 DEF Next, Complete
  <2>2. maxConcurrent' = maxConcurrent
    BY <1>1 DEF EnqueueCommandInLane, EnqueueRefused, EnqueueAccepted, Complete,
       CompleteCurrent, CompleteStale, laneVars
  <2> QED
    BY <2>1, <2>2
<1>2. "resolved" \in Outcomes /\ "rejected" \in Outcomes
  BY DEF Outcomes
<1>3. ASSUME NEW r \in Runs,
             RunEmbeddedPiAgent(r) \/ EnqueueGlobal(r) \/ ThrowIfAborted(r)
               \/ RunEnds(r) \/ LeaveSessionLane(r)
      PROVE  Kept
  BY <1>1, <1>2, <1>3, RunEntries DEF RunEmbeddedPiAgent, EnqueueGlobal, ThrowIfAborted,
     RunEnds, LeaveSessionLane
<1>4. ASSUME NEW j \in Jobs, EnqueueRun(j) \/ JobEnds(j) \/ JobTimesOut(j)
      PROVE  Kept
  BY <1>1, <1>2, <1>4, JobEntries DEF EnqueueRun, JobEnds, JobTimesOut
<1>5. ASSUME NEW s \in Sessions, Interrupt(s) PROVE Kept
  BY <1>5, LaneNames DEF Interrupt, ClearCommandLane, Next
<1>6. ASSUME BeginDrain \/ BeginIteration PROVE Kept
  BY <1>6 DEF BeginDrain, BeginIteration, MarkGatewayDraining, ResetAllLanes, Next, laneVars
<1>7. CASE UNCHANGED queueVars
  BY <1>7 DEF queueVars, laneVars
<1> QED
  BY <1>3, <1>4, <1>5, <1>6, <1>7 DEF LanesNext

(***************************************************************************)
(* The queue keeps its invariant under runs and jobs.                      *)
(***************************************************************************)
LEMMA QueueUnderRuns == QueueInv /\ [LanesNext]_queueVars => QueueInv'
<1> SUFFICES ASSUME QueueInv, [LanesNext]_queueVars PROVE QueueInv'
  OBVIOUS
<1>1. ASSUME NEW cron \in Limits, NEW main \in Limits,
             ApplyGatewayLaneConcurrency(cron, main)
      PROVE  QueueInv'
  <2> DEFINE both == {"cron", "main"}
  <2>1. /\ maxConcurrent' \in [Lanes -> Nat \ {0}]
        /\ \A l \in Lanes \ both : maxConcurrent'[l] = maxConcurrent[l]
        /\ Pump(both, queue, activeTaskIds, maxConcurrent', phase, generation)
        /\ generation' = generation
    BY <1>1, ApplyPumps
  <2>2. \A l \in Lanes \ both :
          queue[l] # <<>> => Cardinality(activeTaskIds[l]) >= maxConcurrent'[l]
    BY <2>1 DEF QueueInv, NoStrandedWork
  <2>3. both \in SUBSET Lanes /\ Coherent(queue, activeTaskIds, phase, startedIn, generation)
    BY LaneNames DEF QueueInv
  <2> HIDE DEF both
  <2> QED
    BY <2>1, <2>2, <2>3, StrandsNothing
<1> QED
  BY <1>1, StepsOfRuns, NextInv

(***************************************************************************)
(* The slot of a session's lane: the limits that change are those of other *)
(* lanes, and the pump adds to a lane only up to its limit.                *)
(***************************************************************************)
LEMMA OneSlotStays == QueueInv /\ OneSlotEach /\ [LanesNext]_queueVars => OneSlotEach'
<1> SUFFICES ASSUME QueueInv, OneSlotEach, [LanesNext]_queueVars, NEW s \in Sessions
             PROVE  maxConcurrent'[s] = 1 /\ Cardinality(activeTaskIds'[s]) <= 1
  BY DEF OneSlotEach
<1>0. /\ s \in Lanes /\ s \notin {"cron", "main"}
      /\ maxConcurrent[s] = 1 /\ Cardinality(activeTaskIds[s]) <= 1
      /\ activeTaskIds[s] \in SUBSET Tasks
  BY LaneNames DEF OneSlotEach, QueueInv, Coherent, Typed
<1>1. ASSUME NEW lanes \in SUBSET Lanes, NEW q, NEW a, NEW p, NEW g,
             Coherent(q, a, p, startedIn, g),
             Pump(lanes, q, a, maxConcurrent', p, g),
             maxConcurrent' \in [Lanes -> Nat],
             maxConcurrent'[s] = 1,
             a[s] \subseteq activeTaskIds[s]
      PROVE  Cardinality(activeTaskIds'[s]) <= 1
  <2>1. activeTaskIds'[s] # a[s] => Cardinality(activeTaskIds'[s]) <= maxConcurrent'[s]
    BY <1>0, <1>1, PumpFills
  <2>2. IsFiniteSet(activeTaskIds[s])
    BY <1>0, QueueAssumption, FS_Subset
  <2>3. Cardinality(a[s]) <= Cardinality(activeTaskIds[s])
    BY <1>1, <2>2, FS_Subset
  <2>4. Cardinality(a[s]) \in Nat /\ Cardinality(activeTaskIds[s]) \in Nat
    BY <1>1, <2>2, FS_Subset, FS_CardinalityType
  <2> QED
    BY <1>0, <1>1, <2>1, <2>3, <2>4
<1>2. ASSUME NEW cron \in Limits, NEW main \in Limits,
             ApplyGatewayLaneConcurrency(cron, main)
      PROVE  maxConcurrent'[s] = 1 /\ Cardinality(activeTaskIds'[s]) <= 1
  <2>1. /\ maxConcurrent' \in [Lanes -> Nat \ {0}]
        /\ maxConcurrent'[s] = 1
        /\ Pump({"cron", "main"}, queue, activeTaskIds, maxConcurrent', phase, generation)
    BY <1>0, <1>2, ApplyPumps
  <2>2. Coherent(queue, activeTaskIds, phase, startedIn, generation)
    BY DEF QueueInv
  <2> QED
    BY <1>1, <2>1, <2>2, LaneNames
<1>3. CASE [Next]_queueVars /\ maxConcurrent' = maxConcurrent
  <2>1. maxConcurrent'[s] = 1 /\ maxConcurrent' \in [Lanes -> Nat]
    BY <1>0, <1>3 DEF QueueInv
  <2>2. CASE Still
    BY <1>0, <2>1, <2>2 DEF Still
  <2>3. ASSUME NEW lanes \in SUBSET Lanes, NEW q, NEW a, NEW p, NEW g,
               Pumped(lanes, q, a, p, g)
        PROVE  Cardinality(activeTaskIds'[s]) <= 1
    BY <1>0, <1>1, <2>1, <2>3 DEF Pumped
  <2> QED
    BY <1>3, <2>1, <2>2, <2>3, StepShape DEF Shape
<1> QED
  BY <1>2, <1>3, StepsOfRuns

(***************************************************************************)
(* A run gives its session back only when it is over: every step leaves    *)
(* each run's entries to advance, but for the one run it is about.         *)
(***************************************************************************)
LEMMA HoldsSessionStays == QueueInv /\ HoldsSession /\ [LanesNext]_queueVars => HoldsSession'
<1> SUFFICES ASSUME QueueInv, HoldsSession, [LanesNext]_queueVars, NEW q \in Runs,
                    phase'[Inner(q)] \in {"queued", "running"}
             PROVE  phase'[Outer(q)] = "running"
  BY DEF HoldsSession
<1>0. Outer(q) \in Tasks /\ Inner(q) \in Tasks
  BY RunEntries
<1>1. ASSUME Advances(Inner(q)), Advances(Outer(q)) PROVE phase'[Outer(q)] = "running"
  BY <1>1 DEF Advances, HoldsSession
<1>2. ASSUME NEW t \in Tasks,
             \/ EnqueueCommandInLane(t)
             \/ \E outcome \in Outcomes : CompleteCurrent(t, outcome) \/ CompleteStale(t, outcome),
             t # Outer(q), t # Inner(q)
      PROVE  phase'[Outer(q)] = "running"
  BY <1>0, <1>1, <1>2, EnqueueAdvances, CompleteAdvances
<1>3. ASSUME NEW t \in Tasks,
             \E outcome \in Outcomes : CompleteCurrent(t, outcome) \/ CompleteStale(t, outcome),
             t = Outer(q) => phase[Inner(q)] \notin {"queued", "running"}
      PROVE  phase'[Outer(q)] = "running"
  <2>1. CASE t = Inner(q)
    <3>1. phase'[Inner(q)] \in Outcomes
      BY <1>3, <2>1, CompleteAdvances
    <3> QED
      BY <3>1 DEF Outcomes
  <2>2. CASE t = Outer(q)
    <3>1. Advances(Inner(q))
      BY <1>0, <1>3, <2>2, CompleteAdvances, RunEntries
    <3> QED
      BY <1>3, <2>2, <3>1 DEF Advances
  <2> QED
    BY <1>2, <1>3, <2>1, <2>2
<1>4. "resolved" \in Outcomes /\ "rejected" \in Outcomes
      /\ Settled \cap {"queued", "running"} = {}
  BY DEF Outcomes, Settled
<1>5. ASSUME NEW r \in Runs, RunEmbeddedPiAgent(r) PROVE phase'[Outer(q)] = "running"
  <2>1. Outer(r) \in Tasks /\ EnqueueCommandInLane(Outer(r)) /\ Outer(r) # Inner(q)
    BY <1>5, RunEntries DEF RunEmbeddedPiAgent
  <2>2. CASE Outer(r) = Outer(q)
    <3>1. Advances(Inner(q)) /\ phase[Outer(q)] = "new"
      BY <1>0, <2>1, <2>2, EnqueueAdvances
    <3> QED
      BY <3>1 DEF Advances, HoldsSession
  <2> QED
    BY <1>2, <2>1, <2>2
<1>6. ASSUME NEW r \in Runs, EnqueueGlobal(r) PROVE phase'[Outer(q)] = "running"
  <2>1. Inner(r) \in Tasks /\ EnqueueCommandInLane(Inner(r)) /\ Inner(r) # Outer(q)
        /\ phase[Outer(r)] = "running"
    BY <1>6, RunEntries DEF EnqueueGlobal, Entering
  <2>2. CASE Inner(r) = Inner(q)
    <3>1. Advances(Outer(q)) /\ phase[Outer(q)] = "running"
      BY <1>0, <2>1, <2>2, EnqueueAdvances, RunEntries
    <3> QED
      BY <3>1 DEF Advances
  <2> QED
    BY <1>2, <2>1, <2>2
<1>7. ASSUME NEW r \in Runs, ThrowIfAborted(r) PROVE phase'[Outer(q)] = "running"
  <2>1. /\ Outer(r) \in Tasks
        /\ CompleteCurrent(Outer(r), "rejected") \/ CompleteStale(Outer(r), "rejected")
        /\ Outer(r) = Outer(q) => phase[Inner(q)] \notin {"queued", "running"}
    BY <1>7, RunEntries DEF ThrowIfAborted, Entering
  <2> QED
    BY <1>3, <1>4, <2>1
<1>8. ASSUME NEW r \in Runs, RunEnds(r) PROVE phase'[Outer(q)] = "running"
  <2>1. /\ Inner(r) \in Tasks /\ Inner(r) # Outer(q)
        /\ \E outcome \in Outcomes :
             CompleteCurrent(Inner(r), outcome) \/ CompleteStale(Inner(r), outcome)
    BY <1>8, RunEntries DEF RunEnds, Complete
  <2> QED
    BY <1>3, <2>1
<1>9. ASSUME NEW r \in Runs, LeaveSessionLane(r) PROVE phase'[Outer(q)] = "running"
  <2>1. /\ Outer(r) \in Tasks
        /\ \E outcome \in Outcomes :
             CompleteCurrent(Outer(r), outcome) \/ CompleteStale(Outer(r), outcome)
        /\ phase[Inner(r)] \in Settled
    BY <1>4, <1>9, RunEntries DEF LeaveSessionLane
  <2>2. Outer(r) = Outer(q) => phase[Inner(q)] \notin {"queued", "running"}
    BY <1>4, <2>1, RunEntries
  <2> QED
    BY <1>3, <2>1, <2>2
<1>10. ASSUME NEW j \in Jobs, EnqueueRun(j) \/ JobEnds(j) \/ JobTimesOut(j)
       PROVE  phase'[Outer(q)] = "running"
  <2>1. Entry(j) \in Tasks /\ Entry(j) # Outer(q) /\ Entry(j) # Inner(q)
    BY JobEntries
  <2>2. \/ EnqueueCommandInLane(Entry(j))
        \/ \E outcome \in Outcomes :
             CompleteCurrent(Entry(j), outcome) \/ CompleteStale(Entry(j), outcome)
    BY <1>4, <1>10 DEF EnqueueRun, JobEnds, JobTimesOut, Complete
  <2> QED
    BY <1>2, <2>1, <2>2
<1>11. CASE \/ BeginDrain \/ BeginIteration
            \/ \E s \in Sessions : Interrupt(s)
            \/ \E cron, main \in Limits : ApplyGatewayLaneConcurrency(cron, main)
  <2>1. \/ MarkGatewayDraining
        \/ \E s \in Sessions : ClearCommandLane(s)
        \/ \E cron, main \in Limits : ApplyGatewayLaneConcurrency(cron, main)
        \/ ResetAllLanes
    BY <1>11 DEF BeginDrain, BeginIteration, Interrupt
  <2>2. Advances(Inner(q)) /\ Advances(Outer(q))
    BY <1>0, <2>1, OthersAdvance
  <2> QED
    BY <1>1, <2>2
<1>12. CASE UNCHANGED queueVars
  BY <1>1, <1>12 DEF Advances, queueVars, taskVars
<1> QED
  BY <1>5, <1>6, <1>7, <1>8, <1>9, <1>10, <1>11, <1>12 DEF LanesNext
-----------------------------------------------------------------------------
LEMMA RunsInitial == LanesInit => RunLanesInv
<1> SUFFICES ASSUME LanesInit PROVE RunLanesInv
  OBVIOUS
<1>1. QueueInv
  BY InitInv DEF LanesInit
<1>2. HoldsSession
  BY RunEntries DEF LanesInit, Init, HoldsSession
<1>3. OneSlotEach
  BY LaneNames, FS_EmptySet DEF LanesInit, Init, OneSlotEach
<1> QED
  BY <1>1, <1>2, <1>3 DEF RunLanesInv

(***************************************************************************)
(* The invariant behind the theorem below.                                 *)
(***************************************************************************)
THEOREM RunLanesInvariant == LanesSpec => []RunLanesInv
<1>1. RunLanesInv /\ [LanesNext]_queueVars => RunLanesInv'
  BY QueueUnderRuns, OneSlotStays, HoldsSessionStays DEF RunLanesInv
<1> QED
  BY <1>1, RunsInitial, PTL DEF LanesSpec

(***************************************************************************)
(* Between resets at most one run of a session executes, for any sessions, *)
(* runs and jobs and whatever limits the global lanes have.                *)
(***************************************************************************)
THEOREM OneRunAtATime == LanesSpec => []OneRunPerSession
<1>1. ASSUME RunLanesInv, NEW s \in Sessions, NEW r \in Runs, NEW q \in Runs,
             SessionOf[r] = s, Executes(r), startedIn[Outer(r)] = generation,
             SessionOf[q] = s, Executes(q), startedIn[Outer(q)] = generation
      PROVE  r = q
  <2>1. phase[Outer(r)] = "running" /\ phase[Outer(q)] = "running"
    BY <1>1 DEF RunLanesInv, HoldsSession, Executes
  <2>2. /\ s \in Lanes
        /\ Outer(r) \in activeTaskIds[s] /\ Outer(q) \in activeTaskIds[s]
    BY <1>1, <2>1, LaneNames, RunEntries DEF RunLanesInv, QueueInv, Coherent, Slots
  <2>3. Cardinality(activeTaskIds[s]) <= 1 /\ IsFiniteSet(activeTaskIds[s])
    BY <1>1, <2>2, QueueAssumption, FS_Subset
       DEF RunLanesInv, OneSlotEach, QueueInv, Coherent, Typed
  <2>4. Outer(r) = Outer(q)
    BY <2>2, <2>3, AtMostOne
  <2> QED
    BY <2>4, RunEntries
<1>2. RunLanesInv => OneRunPerSession
  <2> SUFFICES ASSUME RunLanesInv, NEW s \in Sessions
               PROVE  Cardinality({r \in Runs : /\ SessionOf[r] = s
                                                /\ Executes(r)
                                                /\ startedIn[Outer(r)] = generation}) <= 1
    BY DEF OneRunPerSession
  <2> DEFINE touching == {r \in Runs : /\ SessionOf[r] = s
                                       /\ Executes(r)
                                       /\ startedIn[Outer(r)] = generation}
  <2>1. \A r, q \in touching : r = q
    BY <1>1
  <2>2. CASE touching = {}
    BY <2>2, FS_EmptySet
  <2>3. CASE touching # {}
    <3>1. PICK r \in touching : TRUE
      BY <2>3
    <3>2. touching = {r}
      BY <2>1, <3>1
    <3> QED
      BY <3>2, FS_Singleton
  <2> QED
    BY <2>2, <2>3
<1> QED
  BY <1>2, RunLanesInvariant, PTL
-----------------------------------------------------------------------------
(***************************************************************************)
(* What the queue promises, it keeps when runs and jobs nest their entries *)
(* in each other and two limits change in one handler.                     *)
(***************************************************************************)
LEMMA RunsShape ==
  ASSUME QueueInv, [LanesNext]_queueVars
  PROVE  Shape /\ maxConcurrent' \in [Lanes -> Nat]
<1>1. ASSUME NEW cron \in Limits, NEW main \in Limits,
             ApplyGatewayLaneConcurrency(cron, main)
      PROVE  Shape /\ maxConcurrent' \in [Lanes -> Nat]
  <2>1. /\ maxConcurrent' \in [Lanes -> Nat]
        /\ Pump({"cron", "main"}, queue, activeTaskIds, maxConcurrent', phase, generation)
        /\ UNCHANGED <<generation, waiter>>
    BY <1>1, ApplyPumps DEF ApplyGatewayLaneConcurrency
  <2>2. Coherent(queue, activeTaskIds, phase, startedIn, generation) /\ generation \in Nat
    BY DEF QueueInv, Coherent, Typed
  <2>3. Pumped({"cron", "main"}, queue, activeTaskIds, phase, generation)
    BY <2>1, <2>2 DEF Pumped
  <2> QED
    BY <2>1, <2>3, LaneNames DEF Shape
<1> QED
  BY <1>1, StepsOfRuns, StepShape

(***************************************************************************)
(* Under runs and jobs no lane leaves an entry queued beside a free slot,  *)
(* slots are those of executing entries, and each waiting promise is in    *)
(* its lane's queue, once.                                                 *)
(***************************************************************************)
THEOREM RunsKeepQueue == LanesSpec => [](NoStrandedWork /\ SlotsMatchRunning /\ QueueHoldsPromises)
<1>1. RunLanesInv => NoStrandedWork /\ SlotsMatchRunning /\ QueueHoldsPromises
  BY QueuePromises DEF RunLanesInv
<1> QED
  BY <1>1, RunLanesInvariant, PTL

(***************************************************************************)
(* Under runs and jobs a promise settles at most once, no pump fills a     *)
(* lane beyond its limit, and the entries of a lane start in their order.  *)
(***************************************************************************)
THEOREM RunsStartInOrder == LanesSpec => SettlesOnce /\ AdmissionWithinLimit /\ StartsInOrder
<1> DEFINE Stays == \A t \in Tasks : phase[t] \in Settled => phase'[t] = phase[t]
<1>1. ASSUME QueueInv, [LanesNext]_queueVars PROVE Stays
  <2>1. ASSUME NEW t \in Tasks, phase[t] \in Settled,
               \E cron, main \in Limits : ApplyGatewayLaneConcurrency(cron, main)
        PROVE  phase'[t] = phase[t]
    <3>1. phase[t] # "queued"
      BY <2>1 DEF Settled, Outcomes
    <3> QED
      BY <1>1, <2>1, <3>1, OthersAdvance DEF Advances
  <2> QED
    BY <1>1, <2>1, StepsOfRuns, SettledStays
<1>2. QueueInv /\ [LanesNext]_queueVars =>
        [Stays]_queueVars /\ [WithinLimit]_queueVars /\ [InOrder]_queueVars
  BY <1>1, RunsShape, ShapeAdmits, ShapeInOrder
<1>3. RunLanesInv => QueueInv
  BY DEF RunLanesInv
<1> QED
  BY <1>2, <1>3, RunLanesInvariant, PTL
     DEF LanesSpec, SettlesOnce, AdmissionWithinLimit, StartsInOrder, WithinLimit, InOrder
-----------------------------------------------------------------------------
(***************************************************************************)
(* Why no entries wait on each other in a circle, the reason behind        *)
(* EntriesGetTheirTurn. Awaiting goes one way, from jobs over outer to     *)
(* inner entries, and an entry starts no earlier than the one that awaits  *)
(* it: what an entry of the current generation awaits is no relic of a     *)
(* reset.                                                                  *)
(***************************************************************************)
StartsUnderHolder ==
  /\ \A r \in Runs :
       phase[Inner(r)] = "running" => startedIn[Inner(r)] >= startedIn[Outer(r)]
  /\ \A j \in Jobs :
       /\ phase[Outer(RunOf[j])] # "new" => phase[Entry(j)] \in Started
       /\ phase[Outer(RunOf[j])] = "running" =>
            startedIn[Outer(RunOf[j])] >= startedIn[Entry(j)]

(***************************************************************************)
(* Some entry can go on without a lane giving it a slot: an outer entry    *)
(* has its inner one to enqueue or has it settled, a run executes, or a    *)
(* job's run is over. These are the guards of Progress.                    *)
(***************************************************************************)
SomeEntryGoesOn ==
  \/ Entering # {}
  \/ \E r \in Runs : phase[Outer(r)] = "running" /\ phase[Inner(r)] \in Settled
  \/ \E r \in Runs : Executes(r)
  \/ \E j \in Jobs : /\ phase[Entry(j)] = "running" /\ startedIn[Entry(j)] = generation
                     /\ phase[Outer(RunOf[j])] \in Settled \cup {"new"}

NoCircularWait == (\E t \in Tasks : phase[t] = "queued") => SomeEntryGoesOn

(***************************************************************************)
(* A step marks the entries it starts with the generation it ends in, and  *)
(* leaves the marks of all others.                                         *)
(***************************************************************************)
LEMMA ShapeMarks ==
  ASSUME QueueInv, Shape, maxConcurrent' \in [Lanes -> Nat], NEW t \in Tasks
  PROVE  /\ phase[t] \in Started => phase'[t] \in Started
         /\ \/ /\ startedIn'[t] = startedIn[t]
               /\ phase'[t] = "running" => phase[t] = "running"
            \/ startedIn'[t] = generation' /\ phase[t] \notin Started
<1>1. CASE Still
  BY <1>1 DEF Still
<1>2. ASSUME NEW lanes \in SUBSET Lanes, NEW q, NEW a, NEW p, NEW g,
             Pumped(lanes, q, a, p, g)
      PROVE  /\ phase[t] \in Started => phase'[t] \in Started
             /\ \/ /\ startedIn'[t] = startedIn[t]
                   /\ phase'[t] = "running" => phase[t] = "running"
                \/ startedIn'[t] = generation' /\ phase[t] \notin Started
  <2>1. /\ Coherent(q, a, p, startedIn, g)
        /\ Pump(lanes, q, a, maxConcurrent', p, g)
        /\ generation' = g
        /\ phase[t] \in Started => p[t] \in Started
        /\ p[t] = "running" => phase[t] = "running"
    BY <1>2 DEF Pumped
  <2>2. LaneOf[t] \in Lanes /\ "queued" \notin Started /\ "running" \in Started
    BY QueueAssumption DEF Started, Settled, Outcomes
  <2>3. CASE t \in Front(q[LaneOf[t]], N(lanes, q, a, maxConcurrent', LaneOf[t]))
    <3>1. Moves(q, a, p, g, N(lanes, q, a, maxConcurrent', LaneOf[t]), LaneOf[t])
      BY <1>2, <2>1, <2>2, PumpMoves
    <3>2. p[t] = "queued" /\ phase'[t] = "running" /\ startedIn'[t] = g
      BY <2>3, <3>1 DEF Moves
    <3> QED
      BY <2>1, <2>2, <3>2
  <2>4. CASE t \notin Front(q[LaneOf[t]], N(lanes, q, a, maxConcurrent', LaneOf[t]))
    <3>1. phase'[t] = p[t] /\ startedIn'[t] = startedIn[t]
      BY <1>2, <2>1, <2>4, PumpLeaves
    <3> QED
      BY <2>1, <3>1
  <2> QED
    BY <2>3, <2>4
<1> QED
  BY <1>1, <1>2 DEF Shape

(***************************************************************************)
(* A job's run begins only while the job executes.                         *)
(***************************************************************************)
LEMMA JobRunBegins ==
  ASSUME QueueInv, [LanesNext]_queueVars, NEW j \in Jobs,
         phase[Outer(RunOf[j])] = "new", phase'[Outer(RunOf[j])] # "new"
  PROVE  phase[Entry(j)] = "running"
<1> DEFINE o == Outer(RunOf[j])
<1>1. RunOf[j] \in Runs /\ o \in Tasks
  BY RunEntries, RunLanesAssumption
<1>2. ~Advances(o)
  BY DEF Advances
<1>3. "resolved" \in Outcomes /\ "rejected" \in Outcomes
  BY DEF Outcomes
<1>4. ASSUME NEW t \in Tasks, EnqueueCommandInLane(t) PROVE t = o
  BY <1>1, <1>2, <1>4, EnqueueAdvances
<1>5. ASSUME NEW t \in Tasks,
             \E outcome \in Outcomes : CompleteCurrent(t, outcome) \/ CompleteStale(t, outcome)
      PROVE  FALSE
  <2>1. phase[t] = "running" /\ (t = o \/ Advances(o))
    BY <1>1, <1>5, CompleteAdvances
  <2> QED
    BY <1>2, <2>1
<1>6. ASSUME NEW r \in Runs, RunEmbeddedPiAgent(r) PROVE phase[Entry(j)] = "running"
  <2>1. Outer(r) \in Tasks /\ EnqueueCommandInLane(Outer(r))
        /\ (RunOf[j] = r => phase[Entry(j)] = "running")
    BY <1>6, RunEntries DEF RunEmbeddedPiAgent
  <2>2. Outer(r) = Outer(RunOf[j])
    BY <1>4, <2>1
  <2>3. r = RunOf[j]
    BY <1>1, <2>2, RunEntries
  <2> QED
    BY <2>1, <2>3
<1>7. ASSUME NEW r \in Runs,
             EnqueueGlobal(r) \/ ThrowIfAborted(r) \/ RunEnds(r) \/ LeaveSessionLane(r)
      PROVE  FALSE
  <2>1. Outer(r) \in Tasks /\ Inner(r) \in Tasks /\ Inner(r) # o
    BY <1>1, RunEntries
  <2>2. ~EnqueueGlobal(r)
    BY <1>4, <2>1 DEF EnqueueGlobal
  <2> QED
    BY <1>3, <1>5, <1>7, <2>1, <2>2 DEF ThrowIfAborted, RunEnds, LeaveSessionLane, Complete
<1>8. ASSUME NEW k \in Jobs, EnqueueRun(k) \/ JobEnds(k) \/ JobTimesOut(k) PROVE FALSE
  <2>1. Entry(k) \in Tasks /\ Entry(k) # o
    BY <1>1, JobEntries
  <2>2. ~EnqueueRun(k)
    BY <1>4, <2>1 DEF EnqueueRun
  <2> QED
    BY <1>3, <1>5, <1>8, <2>1, <2>2 DEF JobEnds, JobTimesOut, Complete
<1>9. CASE \/ BeginDrain \/ BeginIteration
           \/ \E s \in Sessions : Interrupt(s)
           \/ \E cron, main \in Limits : ApplyGatewayLaneConcurrency(cron, main)
  <2>1. \/ MarkGatewayDraining
        \/ \E s \in Sessions : ClearCommandLane(s)
        \/ \E cron, main \in Limits : ApplyGatewayLaneConcurrency(cron, main)
        \/ ResetAllLanes
    BY <1>9 DEF BeginDrain, BeginIteration, Interrupt
  <2> QED
    BY <1>1, <1>2, <2>1, OthersAdvance
<1>10. CASE UNCHANGED queueVars
  BY <1>10 DEF queueVars, taskVars
<1> QED
  BY <1>6, <1>7, <1>8, <1>9, <1>10 DEF LanesNext

LEMMA StartsUnderHolderStays ==
  ASSUME RunLanesInv, RunLanesInv', StartsUnderHolder, [LanesNext]_queueVars
  PROVE  StartsUnderHolder'
<1>1. QueueInv /\ QueueInv' /\ HoldsSession /\ HoldsSession'
  BY DEF RunLanesInv
<1>2. \A t \in Tasks :
        /\ phase[t] \in Started => phase'[t] \in Started
        /\ \/ /\ startedIn'[t] = startedIn[t]
              /\ phase'[t] = "running" => phase[t] = "running"
           \/ startedIn'[t] = generation' /\ phase[t] \notin Started
  BY <1>1, RunsShape, ShapeMarks
<1>3. /\ generation' \in Nat /\ generation \in Nat
      /\ \A t \in Tasks : /\ startedIn[t] \in Nat /\ startedIn'[t] \in Nat
                          /\ startedIn'[t] <= generation'
                          /\ phase[t] \in Phases
  BY <1>1 DEF QueueInv, Coherent, Typed
<1>4. "running" \in Started
  BY DEF Started
<1>5. ASSUME NEW r \in Runs, phase'[Inner(r)] = "running"
      PROVE  startedIn'[Inner(r)] >= startedIn'[Outer(r)]
  <2>1. Outer(r) \in Tasks /\ Inner(r) \in Tasks
    BY RunEntries
  <2>2. CASE phase[Inner(r)] = "running" /\ startedIn'[Inner(r)] = startedIn[Inner(r)]
    <3>1. phase[Outer(r)] = "running" /\ startedIn[Inner(r)] >= startedIn[Outer(r)]
      BY <1>1, <2>2 DEF HoldsSession, StartsUnderHolder
    <3>2. startedIn'[Outer(r)] = startedIn[Outer(r)]
      BY <1>2, <1>4, <2>1, <3>1
    <3> QED
      BY <2>2, <3>1, <3>2
  <2>3. CASE startedIn'[Inner(r)] = generation'
    BY <1>3, <2>1, <2>3
  <2> QED
    BY <1>2, <1>5, <2>1, <2>2, <2>3
<1>6. ASSUME NEW j \in Jobs, phase'[Outer(RunOf[j])] # "new"
      PROVE  phase'[Entry(j)] \in Started
  <2>1. Entry(j) \in Tasks
    BY JobEntries
  <2>2. phase[Entry(j)] \in Started
    BY <1>1, <1>4, <1>6, JobRunBegins DEF StartsUnderHolder
  <2> QED
    BY <1>2, <2>1, <2>2
<1>7. ASSUME NEW j \in Jobs, phase'[Outer(RunOf[j])] = "running"
      PROVE  startedIn'[Outer(RunOf[j])] >= startedIn'[Entry(j)]
  <2> DEFINE o == Outer(RunOf[j])
  <2>1. o \in Tasks /\ Entry(j) \in Tasks
    BY RunEntries, JobEntries, RunLanesAssumption
  <2>2. CASE phase[o] = "running" /\ startedIn'[o] = startedIn[o]
    <3>1. phase[Entry(j)] \in Started /\ startedIn[o] >= startedIn[Entry(j)]
      BY <2>2 DEF StartsUnderHolder
    <3>2. startedIn'[Entry(j)] = startedIn[Entry(j)]
      BY <1>2, <2>1, <3>1
    <3> QED
      BY <2>2, <3>1, <3>2
  <2>3. CASE startedIn'[o] = generation'
    BY <1>3, <2>1, <2>3
  <2> QED
    BY <1>2, <1>7, <2>1, <2>2, <2>3
<1> QED
  BY <1>5, <1>6, <1>7 DEF StartsUnderHolder

(***************************************************************************)
(* What a lane is for tells which entries hold its slots.                  *)
(***************************************************************************)
LEMMA EntriesOfLanes ==
  ASSUME NEW t \in Tasks
  PROVE  \/ \E r \in Runs : t = Outer(r) /\ LaneOf[t] \in Sessions
         \/ \E r \in Runs : t = Inner(r) /\ LaneOf[t] \in {"main", "nested"}
         \/ \E j \in Jobs : t = Entry(j) /\ LaneOf[t] = "cron"
<1>1. t \in RunTasks /\ LaneOf[t] = RunLaneOf[t]
  BY RunLanesAssumption
<1>2. ASSUME NEW r \in Runs, t = Outer(r) PROVE LaneOf[t] \in Sessions
  BY <1>2, RunEntries
<1>3. ASSUME NEW r \in Runs, t = Inner(r) PROVE LaneOf[t] \in {"main", "nested"}
  <2>1. t[1] = "global" /\ t[2] = r
    BY <1>3 DEF Inner
  <2>2. LaneOf[t] = GlobalLane(r)
    BY <1>1, <2>1 DEF RunLaneOf
  <2> QED
    BY <2>2 DEF GlobalLane
<1>4. ASSUME NEW j \in Jobs, t = Entry(j) PROVE LaneOf[t] = "cron"
  <2>1. t[1] = "job"
    BY <1>4 DEF Entry
  <2> QED
    BY <1>1, <2>1 DEF RunLaneOf
<1> QED
  BY <1>1, <1>2, <1>3, <1>4 DEF RunTasks

(***************************************************************************)
(* An entry waits for its turn only where another one of the current       *)
(* generation holds a slot.                                                *)
(***************************************************************************)
LEMMA QueuedBehindHolder ==
  ASSUME QueueInv, NEW t \in Tasks, phase[t] = "queued"
  PROVE  \E u \in Tasks : /\ LaneOf[u] = LaneOf[t]
                          /\ phase[u] = "running"
                          /\ startedIn[u] = generation
<1> DEFINE l == LaneOf[t]
<1>1. l \in Lanes
  BY QueueAssumption
<1>2. queue[l] # <<>>
  <2>1. PICK i \in 1 .. Len(queue[l]) : queue[l][i] = t
    BY DEF QueueInv, Coherent, InQueue
  <2>2. Len(<<>>) = 0
    OBVIOUS
  <2> QED
    BY <2>1, <2>2
<1>3. Cardinality(activeTaskIds[l]) >= maxConcurrent[l] /\ maxConcurrent[l] \in Nat \ {0}
  BY <1>1, <1>2 DEF QueueInv, NoStrandedWork
<1>4. activeTaskIds[l] # {}
  BY <1>3, FS_EmptySet
<1> QED
  BY <1>1, <1>4 DEF QueueInv, Coherent, Slots

(***************************************************************************)
(* From the holder of a slot the chain of waiting ends, in at most three   *)
(* steps, with an entry that goes on: in a session's lane the holder       *)
(* awaits an inner entry, which executes or waits behind others that do.   *)
(***************************************************************************)
LEMMA ChainEnds ==
  ASSUME RunLanesInv, StartsUnderHolder, NEW u \in Tasks,
         phase[u] = "running", startedIn[u] = generation
  PROVE  SomeEntryGoesOn
<1>1. ASSUME NEW r \in Runs, phase[Inner(r)] = "running", startedIn[Inner(r)] = generation
      PROVE  SomeEntryGoesOn
  BY <1>1 DEF SomeEntryGoesOn, Executes
<1>2. ASSUME NEW v \in Tasks, LaneOf[v] \in {"main", "nested"}
      PROVE  \E r \in Runs : v = Inner(r)
  BY <1>2, EntriesOfLanes, RunLanesAssumption DEF GlobalLanes
<1>3. ASSUME NEW r \in Runs, phase[Outer(r)] = "running", startedIn[Outer(r)] = generation
      PROVE  SomeEntryGoesOn
  <2>1. Inner(r) \in Tasks
    BY RunEntries
  <2>2. CASE phase[Inner(r)] = "new"
    BY <1>3, <2>2 DEF SomeEntryGoesOn, Entering
  <2>3. CASE phase[Inner(r)] \in Settled
    BY <1>3, <2>3 DEF SomeEntryGoesOn
  <2>4. CASE phase[Inner(r)] = "running"
    <3>1. startedIn[Inner(r)] >= generation /\ startedIn[Inner(r)] <= generation
      BY <1>3, <2>1, <2>4 DEF StartsUnderHolder, RunLanesInv, QueueInv, Coherent, Typed
    <3>2. startedIn[Inner(r)] \in Nat /\ generation \in Nat
      BY <2>1 DEF RunLanesInv, QueueInv, Coherent, Typed
    <3> QED
      BY <1>1, <2>4, <3>1, <3>2
  <2>5. CASE phase[Inner(r)] = "queued"
    <3>1. PICK v \in Tasks : /\ LaneOf[v] = LaneOf[Inner(r)]
                             /\ phase[v] = "running"
                             /\ startedIn[v] = generation
      BY <2>1, <2>5, QueuedBehindHolder DEF RunLanesInv
    <3>2. LaneOf[Inner(r)] \in {"main", "nested"}
      BY <2>1, EntriesOfLanes, RunEntries, JobEntries
    <3> QED
      BY <1>1, <1>2, <3>1, <3>2
  <2> QED
    BY <2>1, <2>2, <2>3, <2>4, <2>5 DEF RunLanesInv, QueueInv, Coherent, Typed, Phases
<1>4. ASSUME NEW j \in Jobs, phase[Entry(j)] = "running", startedIn[Entry(j)] = generation
      PROVE  SomeEntryGoesOn
  <2> DEFINE o == Outer(RunOf[j])
  <2>1. RunOf[j] \in Runs /\ o \in Tasks
    BY RunEntries, RunLanesAssumption
  <2>2. CASE phase[o] \in Settled \cup {"new"}
    BY <1>4, <2>2 DEF SomeEntryGoesOn
  <2>3. CASE phase[o] = "running"
    <3>1. startedIn[o] >= generation /\ startedIn[o] <= generation
      BY <1>4, <2>1, <2>3 DEF StartsUnderHolder, RunLanesInv, QueueInv, Coherent, Typed
    <3>2. startedIn[o] \in Nat /\ generation \in Nat
      BY <2>1 DEF RunLanesInv, QueueInv, Coherent, Typed
    <3> QED
      BY <1>3, <2>1, <2>3, <3>1, <3>2
  <2>4. CASE phase[o] = "queued"
    <3>1. PICK v \in Tasks : /\ LaneOf[v] = LaneOf[o]
                             /\ phase[v] = "running"
                             /\ startedIn[v] = generation
      BY <2>1, <2>4, QueuedBehindHolder DEF RunLanesInv
    <3>2. LaneOf[v] \in Sessions
      BY <2>1, <3>1, RunEntries
    <3>3. \E r \in Runs : v = Outer(r)
      BY <3>2, EntriesOfLanes, RunLanesAssumption DEF GlobalLanes
    <3> QED
      BY <1>3, <3>1, <3>3
  <2> QED
    BY <2>1, <2>2, <2>3, <2>4 DEF RunLanesInv, QueueInv, Coherent, Typed, Phases
<1> QED
  BY <1>1, <1>3, <1>4, EntriesOfLanes

(***************************************************************************)
(* Runs that hold one lane while they wait for another, and jobs that wait *)
(* for runs, never wait on each other in a circle, for any sessions, runs, *)
(* jobs and limits, and whatever a reset left behind hangs.                *)
(***************************************************************************)
THEOREM NoCircle == LanesSpec => []NoCircularWait
<1>1. LanesInit => StartsUnderHolder
  <2> SUFFICES ASSUME LanesInit PROVE StartsUnderHolder
    OBVIOUS
  <2>1. \A t \in Tasks : phase[t] = "new"
    BY DEF LanesInit, Init
  <2> QED
    BY <2>1, RunEntries, RunLanesAssumption DEF StartsUnderHolder
<1>2. RunLanesInv /\ RunLanesInv' /\ StartsUnderHolder /\ [LanesNext]_queueVars
        => StartsUnderHolder'
  BY StartsUnderHolderStays
<1>3. RunLanesInv /\ StartsUnderHolder => NoCircularWait
  BY QueuedBehindHolder, ChainEnds DEF RunLanesInv, NoCircularWait
<1> QED
  BY <1>1, <1>2, <1>3, RunLanesInvariant, PTL DEF LanesSpec
=============================================================================
