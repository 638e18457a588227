-------------------------- MODULE EmbeddedRunLanes --------------------------
(***************************************************************************)
(* Agent runs as clients of the command queue                              *)
(* (openclaw/src/agents/pi-embedded-runner/run.ts and lanes.ts). A run     *)
(* takes a slot of its session's lane and, while it holds it, waits for a  *)
(* slot of a global lane: two entries of the queue, the outer one awaiting *)
(* the inner one. A cron job started by hand holds a slot of the lane      *)
(* "cron" while it awaits a run. Restarts reset all lanes under them.      *)
(*                                                                         *)
(* The pump calls an outer entry's task at once, and the task enqueues the *)
(* inner entry before its first await. Here the pump's step only starts    *)
(* the outer entry, and no other handler takes a step until each started   *)
(* outer entry has enqueued its inner one (Quiet). Any order of these      *)
(* steps is allowed, the code's is that of the lanes.                      *)
(*                                                                         *)
(* Left abstract: what a run does between its start and its end, the       *)
(* subagent lane, which differs from "main" by its limit only, callers     *)
(* with an enqueue function of their own, the drain that precedes a reset  *)
(* (so no waiter is ever used here).                                       *)
(* Compaction of a session (compact.queued.ts) takes lanes as a run does.  *)
(***************************************************************************)
EXTENDS CommandQueue

CONSTANTS
  Sessions,       \* session lanes, "session:<key>"
  Runs,           \* calls of runEmbeddedPiAgent
  SessionOf,      \* the session each run works in
  Jobs,           \* cron jobs started by hand
  RunOf           \* the run each job starts

Outer(r) == <<"session", r>>
Inner(r) == <<"global", r>>
Entry(j) == <<"job", j>>

JobRuns == {RunOf[j] : j \in Jobs}

InheritCronLane(r) ==   \* mutant: a job's run waits in the lane its job holds
  IF r \in JobRuns THEN "cron" ELSE "main"

(***************************************************************************)
(* resolveGlobalLane of the lane a run asks for: a cron job asks for       *)
(* "cron", which becomes "nested"; others ask for none and get "main".     *)
(***************************************************************************)
GlobalLane(r) == IF r \in JobRuns THEN "nested" ELSE "main"

(***************************************************************************)
(* The lanes, entries and lanes of entries of the queue.                   *)
(***************************************************************************)
GlobalLanes == {"main", "cron", "nested"}
RunLanes == Sessions \cup GlobalLanes
RunTasks == {Outer(r) : r \in Runs} \cup {Inner(r) : r \in Runs} \cup {Entry(j) : j \in Jobs}
RunLaneOf ==
  [t \in RunTasks |-> CASE t[1] = "session" -> SessionOf[t[2]]
                        [] t[1] = "global"  -> GlobalLane(t[2])
                        [] t[1] = "job"     -> "cron"]

ASSUME RunLanesAssumption ==
  /\ SessionOf \in [Runs -> Sessions]
  /\ RunOf \in [Jobs -> Runs]
  /\ \A i, j \in Jobs : RunOf[i] = RunOf[j] => i = j
  /\ Sessions \cap GlobalLanes = {}
  /\ Lanes = RunLanes
  /\ Tasks = RunTasks
  /\ LaneOf = RunLaneOf

(***************************************************************************)
(* The started outer entries whose tasks are still to run up to their      *)
(* first await.                                                            *)
(***************************************************************************)
Entering == {r \in Runs : phase[Outer(r)] = "running" /\ phase[Inner(r)] = "new"}
Quiet == Entering = {}
-----------------------------------------------------------------------------
LanesInit == Init

(***************************************************************************)
(* A caller, or a cron job that is executing, starts a run.                *)
(***************************************************************************)
RunEmbeddedPiAgent(r) ==
  /\ Quiet
  /\ \A j \in Jobs : RunOf[j] = r => phase[Entry(j)] = "running"
  /\ EnqueueCommandInLane(Outer(r))

(***************************************************************************)
(* The task of the outer entry: throwIfAborted, then enqueueGlobal, which  *)
(* refuses the entry while the gateway drains.                             *)
(***************************************************************************)
EnqueueGlobal(r) ==
  /\ r \in Entering
  /\ EnqueueCommandInLane(Inner(r))

ThrowIfAborted(r) ==
  /\ r \in Entering
  /\ \/ CompleteCurrent(Outer(r), "rejected")
     \/ CompleteStale(Outer(r), "rejected")

RunEnds(r) ==
  /\ Quiet
  /\ Complete(Inner(r))

LeaveWithoutAwait(r) ==   \* mutant: the inner promise is not returned
  /\ Quiet
  /\ phase[Inner(r)] # "new"
  /\ \/ CompleteCurrent(Outer(r), "resolved")
     \/ CompleteStale(Outer(r), "resolved")

(***************************************************************************)
(* The inner promise has settled, and the outer entry settles with it.     *)
(***************************************************************************)
LeaveSessionLane(r) ==
  LET outcome == IF phase[Inner(r)] = "resolved" THEN "resolved" ELSE "rejected"
  IN  /\ Quiet
      /\ phase[Inner(r)] \in Settled
      /\ \/ CompleteCurrent(Outer(r), outcome)
         \/ CompleteStale(Outer(r), outcome)
-----------------------------------------------------------------------------
EnqueueRun(j) ==
  /\ Quiet
  /\ EnqueueCommandInLane(Entry(j))

(***************************************************************************)
(* A job ends when its run has settled, without a run, or by its timeout,  *)
(* which leaves a run behind that it has told to abort.                    *)
(***************************************************************************)
JobEnds(j) ==
  /\ Quiet
  /\ phase[Outer(RunOf[j])] \in Settled \cup {"new"}
  /\ Complete(Entry(j))

JobTimesOut(j) ==
  /\ Quiet
  /\ phase[Outer(RunOf[j])] \in {"queued", "running"}
  /\ \/ CompleteCurrent(Entry(j), "rejected")
     \/ CompleteStale(Entry(j), "rejected")

(***************************************************************************)
(* A message in queue mode "interrupt" clears the lane of its session. The *)
(* run it aborts ends as any run does.                                     *)
(***************************************************************************)
Interrupt(s) ==
  /\ Quiet
  /\ queue[s] # <<>> \/ activeTaskIds[s] # {}
  /\ ClearCommandLane(s)

(***************************************************************************)
(* The limits of "cron" and "main" are set one after the other in one      *)
(* handler. "nested" and the session lanes keep the limit 1.               *)
(***************************************************************************)
ApplyGatewayLaneConcurrency(cron, main) ==
  LET AtLeastOne(m) == IF m > 1 THEN m ELSE 1
  IN  /\ Quiet
      /\ maxConcurrent' = [maxConcurrent EXCEPT !["cron"] = AtLeastOne(cron),
                                                !["main"] = AtLeastOne(main)]
      /\ Pump({"cron", "main"}, queue, activeTaskIds, maxConcurrent', phase, generation)
      /\ UNCHANGED <<gatewayDraining, generation, waiter>>

BeginDrain ==
  /\ Quiet
  /\ MarkGatewayDraining

(***************************************************************************)
(* The next iteration of the run loop, after a restart that drained.       *)
(***************************************************************************)
BeginIteration ==
  /\ Quiet
  /\ gatewayDraining
  /\ ResetAllLanes

LanesNext ==
  \/ \E r \in Runs : \/ RunEmbeddedPiAgent(r)
                     \/ EnqueueGlobal(r)
                     \/ ThrowIfAborted(r)
                     \/ RunEnds(r)
                     \/ LeaveSessionLane(r)
  \/ \E j \in Jobs : EnqueueRun(j) \/ JobEnds(j) \/ JobTimesOut(j)
  \/ \E s \in Sessions : Interrupt(s)
  \/ \E cron, main \in Limits : ApplyGatewayLaneConcurrency(cron, main)
  \/ BeginDrain
  \/ BeginIteration

LanesSpec == LanesInit /\ [][LanesNext]_queueVars

(***************************************************************************)
(* What goes on by itself: promises settle what awaits them, and a run or  *)
(* a job that a lane counts on ends, a run because it has a timeout. What  *)
(* a reset left behind may hang, and no job is assumed to be saved by its  *)
(* timeout. Every entry takes each of these steps once, so that one of     *)
(* them is taken while there is one makes all of them happen.              *)
(***************************************************************************)
Progress ==
  \/ \E r \in Runs : \/ EnqueueGlobal(r)
                     \/ LeaveSessionLane(r)
                     \/ RunEnds(r) /\ startedIn[Inner(r)] = generation
  \/ \E j \in Jobs : JobEnds(j) /\ startedIn[Entry(j)] = generation

LanesFairSpec == LanesSpec /\ WF_queueVars(Progress)
-----------------------------------------------------------------------------
Executes(r) == phase[Inner(r)] = "running" /\ startedIn[Inner(r)] = generation

(***************************************************************************)
(* At most one run of a session executes, of those whose entries both      *)
(* started since the last reset: the slot of the session's lane is held    *)
(* until the run is over, whatever interrupts, aborts and refusals         *)
(* interleave with it.                                                     *)
(***************************************************************************)
OneRunPerSession ==
  \A s \in Sessions :
    Cardinality({r \in Runs : /\ SessionOf[r] = s
                              /\ Executes(r)
                              /\ startedIn[Outer(r)] = generation}) <= 1

(***************************************************************************)
(* Every entry leaves its queue: runs that hold one lane while they wait   *)
(* for another, and jobs that wait for runs, never wait on each other,     *)
(* though no timeout of a job comes to help.                               *)
(***************************************************************************)
EntriesGetTheirTurn ==
  (\E t \in Tasks : phase[t] = "queued") ~> (\A t \in Tasks : phase[t] # "queued")

(***************************************************************************)
(* What docs/concepts/queue.md promises and a reset does not keep:         *)
(* "Per-session lanes guarantee that only one agent run touches a given    *)
(* session at a time." Runs that a reset found executing, which may be     *)
(* hung, are not counted.                                                  *)
(***************************************************************************)
OnlyOneRunTouchesSession ==
  \A s \in Sessions : Cardinality({r \in Runs : SessionOf[r] = s /\ Executes(r)}) <= 1
=============================================================================
