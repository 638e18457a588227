---------------------------- MODULE CronService ----------------------------
(***************************************************************************)
(* The cron service of the gateway (openclaw/src/cron/service: ops.ts,     *)
(* timer.ts, jobs.ts): jobs kept in a file, a timer whose tick runs the    *)
(* due ones, runs by hand, edits, and the catch-up of a start.             *)
(*                                                                         *)
(* Every block under locked() changes the store in memory and writes it,   *)
(* with no other block between: it is one step. The write may fail: then   *)
(* the file is as it was, and what the block does after it is not done.    *)
(* What runs outside the lock, the jobs themselves and the timer,          *)
(* interleaves with the blocks.                                            *)
(*                                                                         *)
(* There is no clock: the next run of a job is in the future until time    *)
(* passes it, in memory and in the file at once. Left abstract: the        *)
(* schedules' arithmetic and its errors, the length of a backoff, the      *)
(* reset of a marker older than two hours while its run goes on, failing   *)
(* reads. One-shot jobs are created as by default, to be deleted after a   *)
(* run that succeeds. Runs by hand come one at a time, as they do unless   *)
(* maxConcurrentRuns is configured. A service ends with its runs           *)
(* (CronCrash): one that is replaced while it runs jobs is not modelled.   *)
(***************************************************************************)
EXTENDS Integers, FiniteSets

CONSTANTS
  CronJobs,     \* ids of jobs
  OneShots,     \* those with schedule.kind "at"; the others recur
  Concurrency,  \* maxConcurrentRuns
  MaxCatchup,   \* maxMissedJobsPerRestart
  MaxChanges    \* bound on the crashes, edits and failing writes together

ASSUME CronAssumption ==
  /\ OneShots \subseteq CronJobs
  /\ Concurrency \in Nat \ {0} /\ MaxCatchup \in Nat
  /\ MaxChanges \in Nat

VARIABLES
  jobs,         \* the store in memory
  onDisk,       \* the store in the file
  startStage,   \* of start(): "down", "loaded", "catchup", "caughtUp",
                \* "started", or "failed" by a write
  interrupted,  \* interruptedOneShotIds
  deferred,     \* deferredJobIds of the catch-up
  timerArmed,        \* state.timer is set
  ticking,      \* state.running: a tick has a batch
  planned, doing, done,   \* runs <<who, job>> that wait, run, and ended
  manual,       \* the job a run by hand has found runnable, in a set
  stuck,        \* jobs whose marker is older than two hours, and their run over
  unmarked,     \* history: jobs that were disabled while they ran
  orphaned,     \* history: jobs whose marker a failing write left behind
  changes

cronVars == <<jobs, onDisk, startStage, interrupted, deferred, timerArmed, ticking,
              planned, doing, done, manual, stuck, unmarked, orphaned, changes>>
runVars == <<planned, doing, done>>
storeVars == <<jobs, onDisk, stuck, orphaned, changes>>

Who == {"tick", "catchup", "manual"}
\* "final": skipped, or an error that is not retried (any more).
Statuses == {"ok", "transient", "final"}
Runs(who) == {r \in planned \cup doing : r[1] = who}
InUse(j) == \E r \in planned \cup doing \cup done : r[2] = j
In(who, S) == {<<who, j>> : j \in S}
Job == [stored : {"never", "yes", "removed"}, enabled : BOOLEAN,
        next : {"none", "later", "due"}, at : {"later", "due"},
        marked : BOOLEAN, ran : BOOLEAN, skipped : {"no", "maybe", "never"}]
Enabled(f, j) == f[j].stored = "yes" /\ f[j].enabled
MarkedIn(f) == {j \in CronJobs : f[j].stored = "yes" /\ f[j].marked}
Marking(f, S) == [j \in CronJobs |-> [f[j] EXCEPT !.marked = @ \/ j \in S]]
-----------------------------------------------------------------------------
(***************************************************************************)
(* persist() of the store f in memory. When it throws, lost are the jobs   *)
(* whose marker has no owner then, in memory or in the file. Writing is    *)
(* atomic: a temporary file is renamed.                                    *)
(***************************************************************************)
Writes(f) ==
  /\ jobs' = f
  /\ onDisk' = f
  /\ stuck' = {j \in stuck \cap MarkedIn(f) : ~InUse(j)'}
  /\ orphaned' = {j \in orphaned \cap MarkedIn(f) : ~InUse(j)'}

WriteFails(f, lost) ==
  /\ jobs' = f
  /\ UNCHANGED onDisk
  /\ stuck' = stuck \ lost
  /\ orphaned' = orphaned \cup lost

Change ==
  /\ changes < MaxChanges
  /\ changes' = changes + 1

Persists(f) == Writes(f) /\ UNCHANGED changes
PersistThrows(f, lost) == Change /\ WriteFails(f, lost)
-----------------------------------------------------------------------------
(***************************************************************************)
(* computeJobNextRunAtMs: a one-shot job stays due until it succeeds. A    *)
(* recurring job whose slot is due moves on to the next slot, and the one  *)
(* it leaves has not run; by tells whether the caller may do that.         *)
(***************************************************************************)
Next1(j, r) == IF j \in OneShots THEN r.at ELSE "later"

Recomputed(j, r, by) ==
  [r EXCEPT !.next = Next1(j, r),
            !.skipped = IF j \notin OneShots /\ r.next = "due" THEN by ELSE @]

Normalized(j, r) ==
  IF r.enabled THEN [r EXCEPT !.marked = @ /\ j \notin stuck]
  ELSE [r EXCEPT !.next = "none", !.marked = FALSE]

(***************************************************************************)
(* recomputeNextRuns and recomputeNextRunsForMaintenance. The option       *)
(* recomputeExpired of the latter finds no slot here that was run already: *)
(* a result always moves the next run past it.                             *)
(***************************************************************************)
RecomputeNextRuns(f, by) ==
  [j \in CronJobs |-> LET r == Normalized(j, f[j]) IN
     IF r.enabled /\ r.next # "later" THEN Recomputed(j, r, by) ELSE r]

MaintenanceAdvances(f) == RecomputeNextRuns(f, "never")   \* mutant: the full one

RecomputeNextRunsForMaintenance(f) ==
  [j \in CronJobs |-> LET r == Normalized(j, f[j]) IN
     IF r.enabled /\ r.next = "none" THEN Recomputed(j, r, "never") ELSE r]

Removed(r) == [r EXCEPT !.stored = "removed", !.next = "none", !.marked = FALSE]

(***************************************************************************)
(* applyJobResult: a job that was removed meanwhile keeps nothing of it.   *)
(***************************************************************************)
ApplyJobResult(j, r, status) ==
  LET s == [r EXCEPT !.marked = FALSE, !.ran = TRUE, !.skipped = "no"]
  IN IF j \notin OneShots
     THEN [s EXCEPT !.next = IF r.enabled THEN "later" ELSE "none"]
     ELSE CASE status = "ok" -> Removed(s)
            [] status = "transient" -> [s EXCEPT !.next = "later"]
            [] OTHER -> [s EXCEPT !.enabled = FALSE, !.next = "none"]

\* How the runs by who ended, and the store f after their results.
Ended(who) == {j \in CronJobs : <<who, j>> \in done}
Results(who) == [Ended(who) -> Statuses]

AfterResults(who, status, f) ==
  [j \in CronJobs |-> IF j \in Ended(who) /\ f[j].stored = "yes"
                     THEN ApplyJobResult(j, f[j], status[j]) ELSE f[j]]

ArmTimer(f) == \E j \in CronJobs : f[j].stored = "yes" /\ f[j].enabled
-----------------------------------------------------------------------------
(***************************************************************************)
(* The file may be of a service that crashed while it ran due jobs.        *)
(***************************************************************************)
CronInit ==
  /\ jobs \in [CronJobs -> {r \in Job :
       /\ r.stored # "removed"
       /\ ~r.ran /\ r.skipped = "no"
       /\ r.marked => r.enabled
       /\ r.enabled => r.stored = "yes"
       /\ r.next = IF ~r.enabled THEN "none" ELSE IF r.marked THEN "due" ELSE "later"}]
  /\ \A j \in CronJobs :
       jobs[j].at = IF j \in OneShots /\ jobs[j].marked THEN "due" ELSE "later"
  /\ onDisk = jobs
  /\ startStage = "down"
  /\ interrupted = {}
  /\ deferred = {}
  /\ timerArmed = FALSE
  /\ ticking = FALSE
  /\ planned = {} /\ doing = {} /\ done = {}
  /\ manual = {}
  /\ stuck = {} /\ unmarked = {} /\ orphaned = {}
  /\ changes = 0

(***************************************************************************)
(* The clock passes the next run of a job, the service up or down, or the  *)
(* two hours (STUCK_RUN_MS) of a marker that no run owns any more.         *)
(***************************************************************************)
Passed(j, r) ==
  IF r.stored # "yes" THEN r
  ELSE [r EXCEPT !.at = IF j \in OneShots THEN "due" ELSE @,
                 !.next = IF @ = "later" THEN "due" ELSE @]

TimePasses(j) ==
  /\ Passed(j, jobs[j]) # jobs[j] \/ Passed(j, onDisk[j]) # onDisk[j]
  /\ jobs' = [jobs EXCEPT ![j] = Passed(j, @)]
  /\ onDisk' = [onDisk EXCEPT ![j] = Passed(j, @)]
  /\ UNCHANGED <<startStage, interrupted, deferred, timerArmed, ticking, runVars,
                 manual, stuck, unmarked, orphaned, changes>>

MarkerAges(j) ==
  /\ startStage # "down"
  /\ j \in MarkedIn(jobs) \cup MarkedIn(onDisk)
  /\ ~InUse(j) /\ j \notin stuck
  /\ stuck' = stuck \cup {j}
  /\ UNCHANGED <<jobs, onDisk, startStage, interrupted, deferred, timerArmed, ticking,
                 runVars, manual, unmarked, orphaned, changes>>

(***************************************************************************)
(* A job begins outside the lock. A tick's job renews its marker, unless   *)
(* the store was reloaded since and the object is not the store's any more.*)
(***************************************************************************)
BeginRun(who, j) ==
  /\ <<who, j>> \in planned
  /\ Cardinality({r \in doing : r[1] = who}) < (IF who = "tick" THEN Concurrency ELSE 1)
  /\ planned' = planned \ {<<who, j>>}
  /\ doing' = doing \cup {<<who, j>>}
  /\ \/ UNCHANGED jobs
     \/ /\ who = "tick" /\ jobs[j].stored = "yes" /\ ~jobs[j].marked
        /\ jobs' = [jobs EXCEPT ![j].marked = TRUE]
  /\ UNCHANGED <<onDisk, startStage, interrupted, deferred, timerArmed, ticking, done,
                 manual, stuck, unmarked, orphaned, changes>>

EndRun(who, j) ==
  /\ <<who, j>> \in doing
  /\ doing' = doing \ {<<who, j>>}
  /\ done' = done \cup {<<who, j>>}
  /\ UNCHANGED <<storeVars, startStage, interrupted, deferred, timerArmed, ticking,
                 planned, manual, unmarked>>
-----------------------------------------------------------------------------
(***************************************************************************)
(* start(): the markers of an earlier service are cleared, the missed jobs *)
(* are run one after the other, and the timer is armed. A write that fails *)
(* ends it.                                                                *)
(***************************************************************************)
KeepsMarkers == onDisk   \* mutant: the markers of the earlier service stay

ClearMarkers == [j \in CronJobs |-> [onDisk[j] EXCEPT !.marked = FALSE]]

LoadStore ==
  /\ startStage = "down"
  /\ interrupted' = OneShots \cap MarkedIn(onDisk)
  /\ UNCHANGED <<deferred, timerArmed, ticking, runVars, manual, unmarked>>
  /\ \/ Persists(ClearMarkers) /\ startStage' = "loaded"
     \/ /\ MarkedIn(onDisk) # {}
        /\ PersistThrows(ClearMarkers, MarkedIn(onDisk))
        /\ startStage' = "failed"

(***************************************************************************)
(* planStartupCatchup. A one-shot job that ran before is a candidate if it *)
(* waits for a retry, and a recurring job whose last slot is later than    *)
(* its last run: whether that is so is left open.                          *)
(***************************************************************************)
Idle(j) == Enabled(jobs, j) /\ ~jobs[j].marked /\ j \notin interrupted

Missed ==
  {j \in CronJobs : Idle(j) /\ jobs[j].next = "due" /\ (j \in OneShots => ~jobs[j].ran)}

MaybeMissed ==
  {j \in CronJobs : /\ Idle(j) /\ jobs[j].ran
                    /\ IF j \in OneShots THEN jobs[j].next = "due"
                       ELSE jobs[j].next = "later" /\ jobs[j].skipped # "no"}

PlanStartupCatchup ==
  /\ startStage = "loaded"
  /\ \E more \in SUBSET MaybeMissed : \E now \in SUBSET (Missed \cup more) :
       /\ Cardinality(now) <= MaxCatchup
       /\ now # Missed \cup more => Cardinality(now) = MaxCatchup
       /\ \/ /\ planned' = planned \cup In("catchup", now)
             /\ deferred' = (Missed \cup more) \ now
             /\ startStage' = IF Missed \cup more = {} THEN "caughtUp" ELSE "catchup"
             /\ UNCHANGED <<doing, done>>
             /\ Persists(Marking(jobs, now))
          \/ /\ Missed \cup more # {}
             /\ PersistThrows(Marking(jobs, now), now)
             /\ startStage' = "failed"
             /\ UNCHANGED <<deferred, runVars>>
  /\ UNCHANGED <<interrupted, timerArmed, ticking, manual, unmarked>>

ApplyStartupCatchupOutcomes ==
  /\ startStage = "catchup" /\ Runs("catchup") = {}
  /\ done' = {d \in done : d[1] # "catchup"}
  /\ deferred' = {}
  /\ UNCHANGED <<interrupted, timerArmed, ticking, planned, doing, manual>>
  /\ unmarked' = {j \in unmarked : InUse(j)'}
  /\ \E status \in Results("catchup") :
       LET after == AfterResults("catchup", status, jobs)
           f == RecomputeNextRunsForMaintenance(
                  [j \in CronJobs |-> IF j \in deferred /\ Enabled(after, j)
                                     THEN [after[j] EXCEPT !.next = "later"]
                                     ELSE after[j]])
       IN \/ Persists(f) /\ startStage' = "caughtUp"
          \/ PersistThrows(f, Ended("catchup")) /\ startStage' = "failed"

FinishStart ==
  /\ startStage = "caughtUp"
  /\ UNCHANGED <<interrupted, deferred, ticking, runVars, manual, unmarked>>
  /\ LET f == RecomputeNextRuns(jobs, "maybe")
     IN \/ /\ IF f = jobs THEN UNCHANGED storeVars ELSE Persists(f)
           /\ startStage' = "started"
           /\ timerArmed' = ArmTimer(f)
        \/ /\ f # jobs
           /\ PersistThrows(f, {})
           /\ startStage' = "failed"
           /\ UNCHANGED timerArmed

(***************************************************************************)
(* list() and status(): ensureLoadedForRead may have something to write.   *)
(***************************************************************************)
ReadStore ==
  /\ startStage # "down"
  /\ UNCHANGED <<startStage, interrupted, deferred, timerArmed, ticking, runVars,
                 manual, unmarked>>
  /\ LET f == RecomputeNextRunsForMaintenance(jobs)
     IN f # jobs /\ (Persists(f) \/ PersistThrows(f, {}))
-----------------------------------------------------------------------------
(***************************************************************************)
(* onTimer: a block that marks the due jobs, their runs, and a block that  *)
(* applies the results and at last arms the timer, both on the file as it  *)
(* is read again. While the runs last the timer is armed too, and one that *)
(* fires only arms itself again. A tick whose write fails is over, and has *)
(* armed the timer.                                                        *)
(***************************************************************************)
DueJobs ==
  {j \in CronJobs : Enabled(onDisk, j) /\ ~onDisk[j].marked /\ onDisk[j].next = "due"}

MarkDueJobs ==
  /\ timerArmed /\ ~ticking /\ DueJobs # {}
  /\ \/ /\ ticking' = TRUE
        /\ planned' = planned \cup In("tick", DueJobs)
        /\ UNCHANGED <<timerArmed, doing, done>>
        /\ Persists(Marking(onDisk, DueJobs))
     \/ /\ PersistThrows(Marking(onDisk, DueJobs), DueJobs)
        /\ timerArmed' = ArmTimer(onDisk)
        /\ UNCHANGED <<ticking, runVars>>
  /\ UNCHANGED <<startStage, interrupted, deferred, manual, unmarked>>

NothingDue ==
  /\ timerArmed /\ ~ticking /\ DueJobs = {}
  /\ UNCHANGED <<startStage, interrupted, deferred, ticking, runVars, manual,
                 unmarked>>
  /\ LET f == RecomputeNextRunsForMaintenance(onDisk)
     IN /\ Persists(f) \/ (f # onDisk /\ PersistThrows(f, {}))
        /\ timerArmed' = ArmTimer(f)

ApplyOutcomes ==
  /\ ticking /\ Runs("tick") = {}
  /\ ticking' = FALSE
  /\ done' = {d \in done : d[1] # "tick"}
  /\ UNCHANGED <<startStage, interrupted, deferred, planned, doing, manual>>
  /\ unmarked' = {j \in unmarked : InUse(j)'}
  /\ \E status \in Results("tick") :
       LET f == RecomputeNextRunsForMaintenance(AfterResults("tick", status, onDisk))
       IN /\ Persists(f) \/ PersistThrows(f, Ended("tick"))
          /\ timerArmed' = ArmTimer(f)
-----------------------------------------------------------------------------
(***************************************************************************)
(* run(): a check and a reservation in two blocks, the job outside the     *)
(* lock, and its result in a third, in the lane "cron".                    *)
(***************************************************************************)
InspectManualRun(j, mode) ==
  /\ startStage # "down"
  /\ manual = {} /\ Runs("manual") = {} /\ Ended("manual") = {}
  /\ jobs[j].stored = "yes"
  /\ jobs' = RecomputeNextRunsForMaintenance(jobs)
  /\ ~jobs'[j].marked
  /\ mode = "due" => Enabled(jobs, j) /\ jobs'[j].next = "due"
  /\ manual' = {j}
  /\ UNCHANGED <<onDisk, startStage, interrupted, deferred, timerArmed, ticking,
                 runVars, stuck, unmarked, orphaned, changes>>

ReserveUnchecked(j) == jobs[j].stored = "yes"   \* mutant: no second look

Reservable(j) == jobs[j].stored = "yes" /\ ~jobs[j].marked

(***************************************************************************)
(* A reservation that cannot be written leaves its marker in memory.       *)
(***************************************************************************)
ReserveManualRun(j) ==
  /\ j \in manual
  /\ manual' = {}
  /\ UNCHANGED <<startStage, interrupted, deferred, timerArmed, ticking, planned, done>>
  /\ \/ ~Reservable(j) /\ UNCHANGED <<storeVars, doing, unmarked>>
     \/ /\ Reservable(j)
        /\ \/ /\ doing' = doing \cup {<<"manual", j>>}
              /\ unmarked' = IF jobs[j].enabled THEN unmarked ELSE unmarked \cup {j}
              /\ Persists(Marking(jobs, {j}))
           \/ /\ PersistThrows(Marking(jobs, {j}), {j})
              /\ UNCHANGED <<doing, unmarked>>

(***************************************************************************)
(* mergeManualRunSnapshotAfterReload: the result r of job j in a file that *)
(* is read again, but for the schedule, which is the file's.               *)
(***************************************************************************)
Merged(j, r) ==
  [onDisk EXCEPT ![j] = IF @.stored = "yes" THEN [r EXCEPT !.at = onDisk[j].at] ELSE @]

FinishManualRun(j) ==
  /\ <<"manual", j>> \in done
  /\ done' = done \ {<<"manual", j>>}
  /\ UNCHANGED <<startStage, interrupted, deferred, ticking, planned, doing, manual>>
  /\ unmarked' = {i \in unmarked : InUse(i)'}
  /\ \/ jobs[j].stored # "yes" /\ UNCHANGED <<storeVars, timerArmed>>
     \/ /\ jobs[j].stored = "yes"
        /\ \E status \in Statuses :
             LET f == RecomputeNextRunsForMaintenance(
                        Merged(j, ApplyJobResult(j, jobs[j], status)))
             IN \/ Persists(f) /\ timerArmed' = ArmTimer(f)
                \/ PersistThrows(f, {j}) /\ UNCHANGED timerArmed
-----------------------------------------------------------------------------
(***************************************************************************)
(* An edit, which arms the timer if it can be written.                     *)
(***************************************************************************)
ArmsNot(f) == timerArmed   \* mutant: an edit leaves the timer as it is

ArmAfterEdit(f) == ArmTimer(f)

Edit(f, lost) ==
  /\ startStage # "down"
  /\ UNCHANGED <<startStage, interrupted, deferred, ticking, runVars, manual>>
  /\ Change
  /\ \/ Writes(f) /\ timerArmed' = ArmAfterEdit(f)
     \/ WriteFails(f, lost) /\ UNCHANGED timerArmed

(***************************************************************************)
(* update() with a patch of "enabled", of the schedule, or of both.        *)
(***************************************************************************)
UpdateJob(j, enabled, reschedule) ==
  /\ jobs[j].stored = "yes"
  /\ LET r == [jobs[j] EXCEPT !.enabled = enabled,
                              !.at = IF reschedule THEN "later" ELSE @]
     IN Edit([jobs EXCEPT ![j] = IF enabled THEN Recomputed(j, r, "maybe")
                                 ELSE Normalized(j, r)],
             {})
  /\ unmarked' = IF ~enabled /\ InUse(j) THEN unmarked \cup {j} ELSE unmarked

RemoveJob(j) ==
  /\ jobs[j].stored = "yes"
  /\ Edit([jobs EXCEPT ![j] = Removed(@)], {i \in {j} : InUse(i)})
  /\ UNCHANGED unmarked

\* The id of a new job is random: no run and no request is of it.
AddJob(j) ==
  /\ jobs[j].stored = "never" /\ onDisk[j].stored = "never"
  /\ ~InUse(j) /\ j \notin manual
  /\ Edit(RecomputeNextRuns([jobs EXCEPT ![j].stored = "yes", ![j].enabled = TRUE,
                                         ![j].at = "later", ![j].next = "later"],
                            "maybe"),
          {})
  /\ UNCHANGED unmarked

CronCrash ==
  /\ startStage # "down"
  /\ Change
  /\ startStage' = "down"
  /\ timerArmed' = FALSE
  /\ ticking' = FALSE
  /\ planned' = {} /\ doing' = {} /\ done' = {}
  /\ manual' = {}
  /\ deferred' = {}
  /\ stuck' = {} /\ unmarked' = {} /\ orphaned' = {}
  /\ jobs' = onDisk
  /\ UNCHANGED <<onDisk, interrupted>>
-----------------------------------------------------------------------------
StartSteps == PlanStartupCatchup \/ ApplyStartupCatchupOutcomes \/ FinishStart
TickSteps == MarkDueJobs \/ NothingDue \/ ApplyOutcomes
RunSteps(who) == \E j \in CronJobs : BeginRun(who, j) \/ EndRun(who, j)
ManualSteps ==
  \E j \in CronJobs :
    ReserveManualRun(j) \/ EndRun("manual", j) \/ FinishManualRun(j)

CronNext ==
  \/ LoadStore \/ ReadStore \/ StartSteps \/ TickSteps \/ ManualSteps
  \/ RunSteps("tick") \/ RunSteps("catchup")
  \/ \E j \in CronJobs :
       \/ TimePasses(j) \/ MarkerAges(j)
       \/ \E mode \in {"due", "force"} : InspectManualRun(j, mode)
       \/ \E enabled, reschedule \in BOOLEAN : UpdateJob(j, enabled, reschedule)
       \/ RemoveJob(j)
       \/ AddJob(j)
  \/ CronCrash

CronSpec == CronInit /\ [][CronNext]_cronVars

(***************************************************************************)
(* Timers fire, awaited operations return, every run of a job ends by its  *)
(* timeout at the latest (a job whose timeoutSeconds is not positive has   *)
(* none, and is assumed to return), and markers grow old.                  *)
(***************************************************************************)
CronFairness ==
  /\ WF_cronVars(StartSteps)
  /\ WF_cronVars(TickSteps)
  /\ WF_cronVars(RunSteps("tick"))
  /\ WF_cronVars(RunSteps("catchup"))
  /\ WF_cronVars(ManualSteps)
  /\ WF_cronVars(\E j \in CronJobs : MarkerAges(j))
-----------------------------------------------------------------------------
CronTypeOK ==
  /\ jobs \in [CronJobs -> Job]
  /\ onDisk \in [CronJobs -> Job]
  /\ startStage \in {"down", "loaded", "catchup", "caughtUp", "started", "failed"}
  /\ interrupted \subseteq OneShots
  /\ deferred \subseteq CronJobs
  /\ timerArmed \in BOOLEAN
  /\ ticking \in BOOLEAN
  /\ planned \subseteq Who \X CronJobs
  /\ doing \subseteq Who \X CronJobs
  /\ done \subseteq Who \X CronJobs
  /\ manual \subseteq CronJobs
  /\ stuck \subseteq CronJobs
  /\ unmarked \subseteq CronJobs
  /\ orphaned \subseteq CronJobs
  /\ changes \in 0 .. MaxChanges

(***************************************************************************)
(* However ticks, the catch-up, runs by hand and edits interleave, a job   *)
(* never runs twice at a time, and never waits in one batch while it runs  *)
(* for another, unless it was disabled during a run (a run forced by hand  *)
(* may be of a disabled job): a disabled job loses its marker, and once it *)
(* is enabled again it may begin a second time.                            *)
(***************************************************************************)
CronOneRunAtATime ==
  /\ planned \cap doing = {}
  /\ \A j \in CronJobs \ unmarked :
       Cardinality({r \in planned \cup doing : r[2] = j}) <= 1

(***************************************************************************)
(* A marker has an owner that will clear it: a job is never left marked,   *)
(* and so kept from running, by a run that is over or that a crash cut     *)
(* off, unless the write that failed was of this job's marker, result or   *)
(* removal, and no other write has put it right.                           *)
(***************************************************************************)
MarkedMeansRunning ==
  startStage # "down" => \A j \in MarkedIn(jobs) : InUse(j) \/ j \in orphaned

(***************************************************************************)
(* A tick, a run by hand or a catch-up never moves a due slot of another   *)
(* job on without running it. (Edits and the end of start() may.)          *)
(***************************************************************************)
DueSlotsAreKept ==
  \A j \in CronJobs : jobs[j].skipped # "never"

(***************************************************************************)
(* The timer is never lost: while the service is up, a due job is run, or  *)
(* an edit changes it, in the end, though writes fail. (Not when start()   *)
(* failed, nor for an edit that is only in memory since its write failed:  *)
(* neither arms the timer.)                                                *)
(***************************************************************************)
DueJobsGetTheirRun ==
  LET Waits(j) == /\ startStage \notin {"down", "failed"}
                  /\ Enabled(jobs, j) /\ Enabled(onDisk, j)
                  /\ jobs[j].next = "due"
  IN \A j \in CronJobs : []<>~Waits(j)

(***************************************************************************)
(* What a comment of start() says (ops.ts:106), "One-shot jobs are not     *)
(* retried after interruption": no tick runs such a job again by itself.   *)
(***************************************************************************)
InterruptedOneShotsRest ==
  \A j \in interrupted : <<"tick", j>> \notin doing
=============================================================================
