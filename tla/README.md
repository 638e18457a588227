# TLA+ models of ClawEase and of the OpenClaw gateway beneath it

The repository holds two programs. **ClawEase** (`demo/`, `scripts/`) is a demo
in which an elder speaks a sentence to a web page and a small Python server
turns it into calls and messages on an Android phone. **OpenClaw**
(`openclaw/`) is the TypeScript agent gateway that serves the model behind it:
it receives messages from channels, runs agents and delivers their replies. This
directory specifies the parts of both whose correctness depends on the order in
which things happen, checks them with TLC and proves theorems about them with
TLAPS. Paths below are relative to the repository; `gw/` stands for
`openclaw/src/`.

## 1. The system

### Components, their state and what makes them correct

| component | state | operations | hard because | should hold |
|---|---|---|---|---|
| command queue `gw/process/command-queue.ts` | lanes (FIFO, executing ids, limit, generation), waiters, draining flag | enqueue, complete, clear, set limit, reset all, wait for the executing | every handler pumps; tasks outlive resets; limits shrink under load | no entry is stranded, no slot leaks, promises settle once, waiters are told |
| embedded runs in lanes `gw/agents/pi-embedded-runner` | none of its own: two entries of the queue per run | run, abort, interrupt; cron jobs that await runs | hold one lane and wait for another; resets between the two | one run per session, no deadlock |
| run loop `gw/cli/gateway-cli/run-loop.ts` | server, lock, `shuttingDown`, `restartResolver`, watchdog | start, SIGUSR1, SIGTERM, drain, close, respawn, next iteration | two activities share variables; signals come at any await | restarts begin iterations, drains are awaited, shutdowns end, commands are refused only in a shutdown |
| delivery queue `gw/infra/outbound` | a JSON file per message, `.delivered` markers, `failed/`, claims in memory | enqueue, send, acknowledge, fail, recover at startup, drain on reconnect | a crash at any file operation; three activities on one file | nothing is lost, claims are exact, acknowledged means gone |
| ClawEase pages and server `demo/*.html`, `scripts/demo_server.py`, `scripts/voice_to_action.py` | pending question and last result per page, `RUN_LOCK`, `OPENCLAW_AVAILABLE` | post a sentence, answer, clear, switch language, reload, poll the status | a thread per request, a module flag shared by all, two pages | one command at a time, a failure stays in its command, answers meet the right question |
| phone adapters `scripts/messenger` | the phone's screen | call, send, read the inbox | every selector may fail and is skipped | what is sent is what was asked |
| restart scheduler `gw/infra/restart.ts`, `gw/gateway/server-reload-handlers.ts` | one pending timer, cool-down, deferral polls; `restartPending` of one server's handlers | schedule, coalesce, defer, poll, emit, change the configuration | a request may be merged into one that another emission has cleared | requests are never put off, the timer keeps the cool-down, "already waiting" is true |
| gateway lock `gw/infra/gateway-lock.ts` | lock file with pid, port and start time | acquire, judge the owner, steal, release | two processes judge at once | one owner |
| heartbeat wake `gw/infra/heartbeat-wake.ts`, scheduler of `gw/infra/heartbeat-runner.ts` | pending wakes, timer, `running`, handler; an interval timer per runner | request, fire, call, try again, start and stop runners, switch heartbeats off and on | the layer outlives its runners and batches outlive their handler | no wake is forgotten, one batch at a time, heartbeats recur |
| cron `gw/cron/service` | job store, running markers, timer, batch of a tick | tick, run by hand, edit, start with catch-up | jobs run outside the lock that guards the store; a crash or a failing write leaves markers behind | a job runs once at a time, no due slot is lost, markers have owners |
| follow-up queue `gw/auto-reply/reply/queue` | items, dropped messages, settings, a drain per queue object | enqueue, drop, clear, drain by turns | a drain suspends while its queue changes or is replaced in the map; some failures of a turn are caught in it | no message is lost or run twice, the queue is worked off |
| configuration reload `gw/gateway/config-reload.ts` | `currentConfig`, one debounce timer, `pending`, `running`, one notified write, the hash of the last own write; the file and its last-known-good copy | report an edit, notify an own write, read, restore, apply, promote, ask for a restart, stop | edits and own writes come at any await of a reload; the watcher reports own writes too; awaited calls fail | no edit is left unseen, no own write is left unapplied |
| exec approvals `gw/gateway/exec-approval-manager.ts` | pending and resolved records | register, resolve, expire, consume | timer against answer | one decision, consumed once |
| session and file locks `gw/agents/session-write-lock.ts`, `gw/plugin-sdk/file-lock.ts` | lock files, counts in memory | acquire, re-enter, release, steal | stale locks seen by two | mutual exclusion |
| nodes and pairing, task registries, channels, drafts, debounce, ACP actors | see the notes in `PROJECT.json` | | reconnects, revisions, late results | see the plan |
| agents, tools, providers, plugins, apps, UI, CLI, docs | | | mostly calls to external services and formatting | not modelled |

### How they interact

Everything in the gateway runs in one Node.js process: a handler runs to its
next `await` undisturbed, and components interact by calls, promises and shared
module state. Commands enter the command queue. An agent run is two nested
entries of it, one in its session's lane and one in a global lane. The run loop
refuses entries and waits for the executing ones before a restart, and resets
all lanes after it. Replies leave through the delivery queue, whose files
outlive the process. A message that arrives during a run goes to the follow-up
queue, which drains when the run is over. The restart scheduler emits the signal
that the run loop takes; cron jobs, finished commands and other events ask the
wake layer for heartbeats and do not wait for them. A write of the configuration
tells the reloader, which reloads parts or asks the restart scheduler for a
restart. The demo server calls the
gateway through its command line, so the only state that ClawEase shares between
requests is its own.

`PROJECT.json` lists 40 hazards at their lines with the properties that cover
them, or the reason why none does yet.

## 2. Modules

    CommandQueue --------> CommandQueueProofs ---\
        |--> GatewayRunLoop ---------------------|--> GatewayRunLoopProofs
        |--> EmbeddedRunLanes -------------------|--> EmbeddedRunLanesProofs
    Outbox <-- refined by -- DeliveryQueue --> DeliveryQueueAcks (history variable)
                                 |--> DeliveryQueueProofs
    VoiceSession ------> VoiceSessionProofs
    FollowupQueue -----> FollowupQueueProofs
    RestartScheduler, ConfigReload
    HeartbeatWake, CronService
    MCParts:      DeliveryQueue, VoiceSession, FollowupQueue, RestartScheduler,
                  ConfigReload         --> PartsProofs
    MCSchedulers: HeartbeatWake, CronService --> SchedulersProofs
    other MC*: instances of one module

`PartsProofs` holds the proofs about the restart scheduler and the reloader, and
extends those of the other three parts; `SchedulersProofs` holds the proofs about
wakes and cron. Both end with theorems about the parts side by side.

`MCParts` and `MCSchedulers` join parts that share no state. Their variable
`part` says which of the parts moves; the others stay as they began. One run
then explores the behaviours of each part, one part at a time.

`PROJECT.json` maps each definition to the lines that it translates. In each
module a comment at the top says what a step is and what is left abstract. An
operator whose comment begins with "mutant" is a faulty variant of the
definition below it; no specification uses it, it serves to see that a property
fails when the code is wrong.

### CommandQueue

A task is one call of `enqueueCommandInLane` with its promise; `phase[t]` is the
state of the promise. `queue`, `activeTaskIds` and `maxConcurrent` are the
fields of the lanes. All lanes go through the same resets, so one `generation`
stands for theirs. `Pump` is `drainLane`: every action that pumps in the code
pumps in the same step, as the handler does. `CompleteStale` is the completion
of an entry that a reset left behind.

### EmbeddedRunLanes

Runs as clients of the queue: the module extends CommandQueue, whose tasks are
pairs here (`RunTasks`): the outer entry of a run in its session's lane, its
inner entry in a global lane, and the entry of a cron job in `cron`. The body of
an outer entry runs inside the pump; since the pump is one step of CommandQueue,
the guard `Quiet` keeps all other handlers from coming between.

### GatewayRunLoop

`loop` is where `runGatewayLoop` is suspended, `shutdown` where the asynchronous
function in `request` is. The module extends CommandQueue: its variables are the
queue's, and the queue's operations go on beside both. `start()`,
`server.close()`, the lock and the choice between a fresh process and the next
iteration are nondeterministic.

### DeliveryQueue, Outbox, DeliveryQueueAcks

The activities (`at`) are the live call of each message, recovery passes, and
the deferral of entries by a startup pass that ran out of its time. A step is
one file operation or the outcome of a send, so an acknowledgement is two steps
(rename, unlink) and `failDelivery` is two (read, write); each may fail. `Crash`
may come anywhere and keeps only the files. `Outbox` is the abstract
specification: a message that is held stays held until it is accounted for.
`Box` is the refinement mapping: a pending file holds a message, and a message
is accounted for once it is sent in full, withdrawn by its caller or filed in
`failed/`. The history variable `settled` records the first two, which leave no
trace on disk. A live send may also be aborted by the channel itself: the entry
is acknowledged then, though neither sent nor withdrawn (section 4).
`channelAborted` records such entries; with those persisted as `bestEffort` they
are the `Unprotected` ones, of which the code promises nothing.

### FollowupQueue

`queues` are the queue objects, `entry` the one that the map `FOLLOWUP_QUEUES`
holds for the session. The two differ after a clear: the drain goes on with its
object, while an enqueue creates another, and the `finally` block of the drain
deletes or schedules by key (`EndDrain`). `drain[q]` says where the drain of an
object is suspended: in the debounce wait or in a turn of the agent, with the
turn's messages and those of the turns that are planned after it. `NextTurn` is the body of the
drain's loop: collect, one by one, or a summary of what was dropped. `answered`,
`accounted`, `givenUp` and `causes` are history: what a turn had; what was
reported, dropped by policy or cleared; what is lost by itself (the messages of
a run that failed, those it was to report, and trimmed lines of a summary); and
the three events after which other messages may be lost. A turn ends in one of
three ways. `TurnSucceeds` and `RunFails` both return to the drain, which removes
the items: the runner of follow-ups catches a failed agent run
(`gw/auto-reply/reply/followup-runner.ts:291`). `TurnThrows` is every other error,
before the agent's run or after it: it reaches the drain, which keeps the items.

### RestartScheduler

`timer`, `cooldown` and the ages of `polls` count units of time; `Tick` moves
them. `EmitGatewayRestart` is one step with the run loop's handler, which
`process.emit` calls. The run loop is its phase only. A poll has an owner, since
the hooks of a configuration change reset `restartPending` of their own
handlers: when a server starts anew, the polls of the one before belong to
`oldConfig`. `CloseThrows` leaves a server behind that still has its reload
handlers and its port, so that no later start of this process succeeds.

### ConfigReload

`reload` is where `runReload` is suspended, and for which content: at the read
of the file, in the restore of the last-known-good copy and the read after it,
in `onHotReload`, or before the promotion. `rerun` is the code's `pending`;
`restart` is the asynchronous function in `queueRestart`. A file has one of a
few contents, is missing, or is invalid; a hash stands for the content. An own
write is on disk before it is notified, and both the watcher and the notice tell
the reloader of it. `ApplySnapshot` is one step up to its await, as
`currentConfig` is moved before it. `overlooked` is history: why the reloader
may lag behind the file. An edit between the load of the configuration and the
start of the watcher is `startup` (the watcher ignores what it finds), one that
a notified write overtook is `overtaken`, and `unreadable` is a failed read.

### HeartbeatWake

The state of the wake layer belongs to the module and outlives the runners,
which register one after the other as `handler`. A batch is a call of the
timer's callback that awaits its handler: the wakes it took, those left, and the
one that is being called. `CallEnds` is an answer, with everything that the
runner and the layer do until the next call. `owed` and `wakeCauses` are
history: the targets that were asked for and not called, and the events that
make a promise void.

### CronService

A block under `locked()` is one step; jobs, and the steps between two blocks of
one operation, interleave. `jobs` is the store in memory, `onDisk` the file. A
tick works on the file as it is read again; runs by hand, edits and reads work on
what is in memory. A block ends with `persist`, which nothing catches: `Persists`
writes the file, `PersistThrows` leaves it as it was, and what the block does
after it is not done. So a reservation may leave a marker in memory without a
run, results may leave the marker of a run that is over in the file for the next
tick to load, and `start()` may end before it arms the timer (`"failed"`). Such
markers are `orphaned` until a write puts them right, at the latest after two
hours (`MarkerAges`, `stuck`).

There is no clock: the next run of a job is `none`, `later` or `due`, and
`TimePasses` makes it due, in memory and in the file at once. A run is a pair of
who runs it (a tick, the catch-up of a start, or a hand) and its job, and is in
one of `planned`, `doing`, `done`. `CronCrash` keeps the file only; the initial
file may be that of a service that crashed while it ran due jobs. `interrupted` is
the list that `start()` keeps; `unmarked` and the field `skipped` are history:
jobs that were disabled while they ran, and slots that moved on without a run.

### VoiceSession

Two kinds of pages, a thread per request and the flag that disables the model.
A question is named by the command that it answered, so that a context can be
followed through several questions.

## 3. What TLC checks

| run | question | states | result |
|---|---|---|---|
| `command_queue` | Is the queue safe under any order of calls, completions, clears, limits and resets? | 443 456 | holds |
| `embedded_run_lanes` | One run per session between resets; does every entry get its turn? | 119 700 | holds |
| `run_loop` | Are drains awaited, iterations clean and ports free, do shutdowns end, whenever signals come? | 174 886 | holds |
| `parts` | Delivery: is a message lost, or claimed twice, and is the outbox implemented? Pages: lock, contexts, failures, buttons. Follow-ups: is one lost or run twice? Restarts: are they in time and never put off? Reloads: is every edit seen? | 382 284 | holds |
| `schedulers` | Is a wake, a slot or a timer lost, does a batch or a job run twice at a time? | 410 089 | holds |
| `run_lanes_restart`, `run_loop_lost_restart`, `delivery_acked_resent`, `voice_session_cleared`, `followup_lost`, `heartbeats_reenabled`, `cron_interrupted_once` | Does the code keep what its comments and documents say? | | violated, see section 4 |

The properties are stated, each with the behaviour of the code it is about, at
the end of the modules.

Some of them hold under a condition, which a history variable records.
`RefusesOnlyInShutdown` needs that no restart signal came during `start()`, and
`StartsOnFreePort` also that `server.close()` did not throw: it awaits
`stopChannel` unguarded (`gw/gateway/server-close.ts:129`) before it closes the
listener, and the run loop logs the error and goes on to the next `start()`
(`run-loop.ts:197`), which then meets the listener of its own process. Both
events are in the run; what they lead to is explored, and the other properties
hold in spite of them. In the same way `LossNeedsCause` names the events after
which the follow-up queue may lose a message, `OneBatchAtATime` excepts a
handler that was replaced during a batch, `EditsAreSeen` edits that the reloader
is bound to overlook, `IntervalIsRearmed` heartbeats that
were disabled, and `CronOneRunAtATime` jobs that were disabled during a run.
`NothingLost` and `OutboxSpec` except the unprotected entries, `LossNeedsCause`
also the messages in `givenUp`, and `MarkedMeansRunning` the markers that a
failing write left behind. In each of these the loss, or the stale marker, is in
the model as it is in the code, and the property says that nothing else goes
wrong. `DueSlotsAreKept` is not about edits and the end of `start()`, which move
slots on (section 4).

### Bounds, and why they are enough

- `command_queue`: three calls in one lane, so that one executes while two wait
  in order; a fourth in another lane, so that completions and waiters of several
  lanes mix; limits 0 and 2, where 0 must become 1; two resets, so that an entry
  may be two generations old. One waiter suffices, since waiters do not meet. The
  three calls are symmetric.
- `embedded_run_lanes`: two runs in one session and a third that belongs to a
  cron job in another session; limits 0 and 2; one reset. `run_lanes_restart`
  gives the third run to a caller, so that it competes for the lane `main`.
- `run_loop`: one lane, two calls and two restarts: the second restart meets
  what the first one left. Waiter *n* is the drain of restart *n*.
- `parts`, delivery: one message, its live call, the startup pass with its
  deferrals and a reconnect pass, `MaxRetries` 2. Messages have separate files
  and meet only in the loop of a pass; the theorems cover any number of them.
- `parts`, pages: a page of each kind and three sentences, so that a question
  may follow a question while the other page posts.
- `parts`, follow-ups: three messages, one with other authorization and one
  from another route, so that a collected batch is split and a drain goes one by
  one; caps 1 and 2, three kinds of settings that may change with each message
  (`summarize` in both modes, and `old`); two queue objects, so that a drain
  outlives its queue; one turn whose run fails or which throws. With a cap of 1
  the second message dropped trims the line of the first. `followup_lost` needs
  one setting and one queue object.
- `parts`, restarts: a cool-down of 3 units against delays of 0 and 2 and a
  longest wait of 2, so that a delay may be shorter or longer than what is left
  of the cool-down. Nothing else is bounded.
- `parts`, reloads: two configurations and the defaults, so that a change reloads
  parts, needs a restart, or needs one that the mode ignores; two changes of the
  file by others, so that one comes during the reload of the other, and one
  failed call. Besides, the reloader's own restores change the file.
- `schedulers`, heartbeats: one target and all agents, two runners and two
  batches, so that a batch of the first runner goes on under the second; delays of
  1 unit against requests without delay.
- `schedulers`, cron: a one-shot job and a recurring one, one run at a time and a
  catch-up of one, so that a second job waits or is deferred; one crash, edit or
  failing write (`MaxChanges`), on top of the initial file, which may be of a crashed
  service. This is enough for the exceptions above: each needs one such event. Cron's
  invariants were also checked with two of them (3.4 million states), and the
  theorems cover any number. Runs and ticks are unbounded. `cron_interrupted_once`
  needs none: it begins with the file of a crashed service.

Deadlock is checked for the command queue, the runs in lanes, and in the
violated runs of lanes, deliveries and pages. In the run loop and the restart
scheduler the process really exits; the follow-up queue, the reloader, the
heartbeats and the cron service may have nothing left to do once their bounds
are spent.

### Fairness, and why the code justifies it

- `EmbeddedRunLanes!Progress`: a promise settles what awaits it, and a run or job
  that occupies a slot of the current generation ends, because a run has a
  timeout. Runs left behind by a reset may hang for ever: the comment on
  `resetAllLanes` says that they do. The timeout of a cron job is not assumed to
  come, for it would hide a deadlock.
- `GatewayRunLoop!LoopFairness`: timers fire, the lock calls return and an
  asynchronous function goes on when what it awaits has settled. Nothing is
  assumed of tasks, embedded runs or `server.close()`; the watchdog ends a
  shutdown that they hold up.
- `VoiceSession!VoiceFairness`: a thread goes on with its request, since the
  calls of the model and most of those to the phone have timeouts, and the browser
  handles a response. The adb shell of the adapters and local speech output have
  no timeout: that they return is an assumption.
- `FollowupQueue!FollowupFairness`: runs and turns of the agent have a timeout,
  and the debounce wait is a timer. A turn need not succeed, and its run may fail.
- `RestartScheduler!RestartFairness`: time passes and timers fire. Nothing is
  assumed of the run loop, nor that the gateway is ever idle.
- `HeartbeatWake!WakeFairness`: timers fire and the runs that a call awaits have a
  timeout. Nothing is assumed of requests, intervals and runners.
- `CronService!CronFairness`: timers fire, awaited operations return, a run ends by
  its timeout at the latest, and markers grow older than two hours. The default
  timeouts justify it; a job whose `timeoutSeconds` is not positive has none
  (`gw/cron/service/timeout-policy.ts:24`), and for such a job it is an assumption
  that its run returns. Writes need not succeed, but `MaxChanges` bounds how often
  they fail.
- `CommandQueue`, `DeliveryQueue` and `ConfigReload` are checked for safety only. A message that
  is never sent because no pass ever comes is within their promise.

`PartsSpec` and `SchedulersSpec` state the same, of the part that moves.

## 4. Where code and comment disagree

Each is a run that TLC finds violated; `PROJECT.json` quotes the lines.

1. `run_lanes_restart`: the documentation says that session lanes guarantee one
   run per session. A reset gives away the slot of a run that still waits in a
   global lane, and preserves that waiting entry.
2. `run_loop_lost_restart`: a restart signal during `start()` drains, closes and
   then finds no iteration to begin; commands stay refused.
3. `delivery_acked_resent`: `failDelivery` reads and writes without a claim and
   may bring back an entry that a pass acknowledged in between.
4. `voice_session_cleared`: switching the language of a page restores the
   question that its user cleared.
5. `followup_lost`: a turn is awaited with its messages still in the queue, and
   afterwards as many leave the front. If the queue overflowed meanwhile, the
   front has moved: a waiting message is removed that was neither run nor
   summarized.
6. `heartbeats_reenabled`: the wake of an interval that fires while heartbeats
   are disabled returns before the code that arms the next interval. Enabling
   them again sets a flag only.
7. `cron_interrupted_once`: a one-shot job that a crash interrupted is kept out
   of the catch-up of the next start, and is run again by the first tick after
   it.

What else was met while modelling, without a run of its own:

- A SIGTERM during a restart is dropped, not remembered (`run-loop.ts:132`).
- A live delivery acknowledges every error with the name `AbortError`
  (`deliver.ts:541`; `isAbortError`, 269, does not ask whose signal it was). A channel
  that gives up its own request throws the same: `fetchWithTimeout`
  (`gw/utils/fetch-timeout.ts:56`), used for example by Signal
  (`extensions/signal/src/client.ts:84`). The message is then neither sent, nor
  withdrawn, nor kept for recovery. A recovery pass counts the same error as a
  failed attempt.
- A follow-up whose agent run fails leaves the queue like one that was answered
  (`followup-runner.ts:291`), and so do the dropped messages it was to report; an
  error before or after the run has the turn repeated. Of the summary only the
  latest lines are kept, as many as the cap (`queue-helpers.ts:103`); of the others
  the prompt tells the number.
- A write of the cron store that fails leaves markers without a run: in memory
  after a reservation (`ops.ts:575`), in the file after a tick's results
  (`timer.ts:811`), from where the next tick loads it. The job does not run for
  up to two hours; in the second case its result is forgotten as well, and it then
  runs again. `ops.ts:510` speaks of the stale marker of a failed reservation. If a write
  of `start()` fails, no timer is armed until an edit or the end of a run does so.
- Failed payloads of a `bestEffort` delivery are tracked only if the caller
  passed `onError`; otherwise the delivery is acknowledged (`deliver.ts:519`).
- A change of the configuration that finds the gateway idle, and every poll,
  emit without regard to the cool-down of which `docs/gateway/configuration.md:591`
  speaks; only the timer keeps it (`TimerRespectsCooldown`).
- A send that kills the process before `failDelivery` leaves the retry count as
  it was, so the entry is replayed at every start
  (`delivery-queue-recovery.ts:366`).
- The reloader moves `currentConfig` before `onHotReload`, which may throw
  (`config-reload.ts:218`, `HotReloadFails`). When the same file is read again,
  because it is saved once more or changed during the failing reload, nothing
  seems to have changed: the parts stay as they were, and the rejected
  configuration becomes the last-known-good copy, although
  `docs/gateway/configuration.md:104` says that promotion follows accepted hot
  reloads.
- An own write may be notified after an external edit that has already been
  reported. The reload that the notice starts applies the write without reading
  the file, uses up the timer of the edit, and its promotion sees that the file
  differs and returns (`config-reload.ts:277`): the edit waits for the next change.
- The restore of the last-known-good copy overwrites whatever the file holds by
  then, a valid edit made during the restore included.
- A restart whose check failed is asked for again only by a further change that
  needs one.
- A follow-up drain outside collect mode that finds dropped messages, no items
  and settings under which no turn reports them leaves its loop with work, so
  its `finally` block schedules it again, and so on (`GoesRound`).
- While a batch of wakes runs, a wake timer without delay arms itself again and
  again. A call that throws puts the whole batch back, the wakes that ran included.
- The last block of cron's `start()` recomputes all next runs, and `add` does the
  same: both move slots on that became due meanwhile, although `timer.ts:1113`
  says that such slots should run in a future tick.
- Disabling a cron job clears its marker, so a job that is enabled again during
  its run may begin a second time.

## 5. What is proved

All theorems hold for every value of the constants that satisfies the named
assumptions of its module (`QueueAssumption`, `RunLoopAssumption`,
`RunLanesAssumption`, `DeliveryAssumption`, `SessionAssumption`,
`FollowupAssumption`, `RestartAssumption`, `ReloadAssumption`, `WakeAssumption`, `CronAssumption`: types of the bounds and
delays, finite sets where the code counts, `None` outside the sets it is added
to). TLC evaluates the assumptions in the runs.

**CommandQueueProofs**: `TypeCorrect`, `NothingStranded`, `SlotsExact` and
`PromisesSettleOnce`. `NoStrandedWork` is not inductive: the pump starts entries
from the queue, so one must know that the queue holds no entry twice, that its
entries still wait, and that the slots are held by entries that execute.
`QueueInv` adds these (`Coherent`: `Typed`, `InQueue`, `Distinct`, `Slots`). The
argument has two parts. First, pumping coherent arguments gives a coherent state
(`PumpCoherent`) and fills its lanes up to their limits, no further
(`PumpFills`, which counts the distinct entries at the head of a queue);
`StrandsNothing` draws the conclusion. Second, each operation, before it pumps,
edits a coherent state into a coherent one (`EnqueueCoherent`,
`CompleteCoherent`, `ResetCoherent`). Each action lemma joins the two.

The second half of the module is what callers rely on: `PromisesQueued`,
`AdmissionBounded`, `FirstInFirstStarted`, `NoWaiterMissed` and `DrainedIsTrue`.
`StepShape` reduces the handlers to two kinds of steps, those that leave the
slots alone (`Still`) and those that pump a coherent edit (`Pumped`).
`WaiterInv` adds to the two statements about waiters that snapshots hold only
entries that have started; then an entry of a snapshot that occupies no slot of
the current generation has settled or was given up. With this every property of
the run `command_queue` is a theorem, and type correctness besides. What a step
guarantees is stated of any step of these two kinds (`ShapeAdmits`,
`ShapeInOrder`) and what a state guarantees of any state with `QueueInv`
(`QueuePromises`), for the modules that compose the queue.

**EmbeddedRunLanesProofs**: `OneRunAtATime`. That a run executes says nothing of
its session by itself; `RunLanesInv` adds that an inner entry which waits or
executes belongs to an outer entry which executes (`HoldsSession`), and that the
lane of a session has one slot and at most one entry in it (`OneSlotEach`). For
the first, every step lets each entry that it is not about stay or leave its
queue (`Advances`); for the second, the pump adds to a lane only up to its
limit. The slots of `QueueInv` join the two. `RunLanesAssumption` says which
lanes and entries the queue has. `RunsKeepQueue` and `RunsStartInOrder` show that
the queue keeps all its promises under runs and jobs. This is no matter of
course: the handler that applies new limits changes two lanes and pumps both,
which no operation of the queue does. It is again a step that pumps
(`RunsShape`).

`NoCircle` is the reason behind `EntriesGetTheirTurn`: whenever an entry waits
for its turn, some entry can take a step of `Progress` (`NoCircularWait`). A full
lane is full of entries of the current generation (`QueuedBehindHolder`); the
holder of a slot awaits another entry, that one executes or waits behind others,
and after at most three such steps there is one that goes on (`ChainEnds`). It
needs that what a current entry awaits is no relic of a reset, which may hang:
an entry starts no earlier than the one that awaits it (`StartsUnderHolder`, from
`ShapeMarks`, and `JobRunBegins` for jobs). `ENABLED` is out of the provers'
reach, so the guards of `Progress` are written out (`SomeEntryGoesOn`).
`NoCircularWait` and `StartsUnderHolder` were checked with TLC on the instance of
the run `embedded_run_lanes`, with two resets, before they were proved.

**DeliveryQueueProofs**: `DeliveryTypeCorrect`, `NoMessageLost`, `ClaimsAreExact` and
`ImplementsOutbox`. `NothingLost` needs that whoever acknowledges, moves or
prunes an entry may let go of it, or that it is unprotected: `AckedAreSettled`
says so for every activity on its way to the unlink, and `ItemsWhileWorking` with `ClaimsExact` ties a pass
to its entry. `DeliveryInv` is their conjunction. The refinement maps the steps
that touch a pending file to `Accept`, `Release` or `FileAsFailed`, the ends of
sends to `Account`, and all others to stutters.

**VoiceSessionProofs**: `SessionTypeCorrect`, `RunLockExact`, `FailureContained`,
`OpeningQuoted` and `LatestQuestion`. `QuotesOpening` needs that contexts name
questions whose first sentence is known, however many questions lie between;
`Conversations` says so, and `Answered` that what a page rendered was answered.
`ButtonIsOwed` is the reason behind `ButtonComesBack`: a page that waits has a
request that was answered or will be, and no step takes it away
(`ButtonAwaitsAnswer`).

**GatewayRunLoopProofs**: `AcceptsAgain`, `PortIsFree`, `DrainsAreAwaited`,
`IterationsStartClean` and `LoopTypeCorrect`. The first two are not inductive.
That a running gateway accepts commands needs that every restart is awaited by
the loop, whose next iteration lifts the refusal (`RestartIsAwaited`); that the
port is free needs that a listener exists only with a server, or in a phase of
the shutdown that closes it (`NoStrayListener`). `LoopInv` joins them. The
others are about the loop and its queue. Each step of the loop is a step of the
queue, or leaves it alone, but for the restart signal, which closes the queue
and takes a snapshot in one (`StepsOfTheQueue`); so the invariants of the queue
and of its waiters hold under the loop as well (`LanesInv`). `DrainInv` adds
that no reset comes between the snapshot of a restart and its end: an entry of
the snapshot that holds no slot has then settled, not been given up. With this
every safety property of the run `run_loop` is a theorem. `LoopKeepsQueue` and
`LoopStartsInOrder` carry the promises of the queue over to the loop: the signal
takes no slot, so it is a step of the first kind (`LoopShapes`).

**FollowupQueueProofs**: `NeverTwice`, `LossHasCause` and
`FollowupTypeCorrect`. The two properties speak of what waits and of what a turn
has now; `FollowupInv` says how the two belong together. A message belongs to
one queue object at most, also when a clear has made a second one whose drain
overlaps with the first. An object and its drain are `Sound`: the queue and the
plan of the drain (the turn's messages and those of later turns) hold no message
twice and none that was run, and items only move forward (`InOrder`), that is,
no message is further back in the queue than in the plan. This is what saves the
end of a turn, which removes as many items as it ran from the front, whatever
is there by then: a message that was run and is still in the queue would have to
be behind that front, further back than in the plan. Losing others is possible,
and `LossHasCause` is about it: as long as none of the three causes has
occurred, the plan is a prefix of the queue and the summary covers what was
dropped and not trimmed (`Faithful`), and the only drain is that of the map's entry, which holds
all that waits (`Together`). `FollowupInv` was checked with TLC as an invariant
before it was proved. `QueueIsComeBackTo` is the reason behind
`QueueIsWorkedOff`: work in the map's queue is under a drain, or an agent run is
active. The drain need not be that of the queue itself (TLC shows a behaviour):
after a clear it may be that of the older object, which schedules the map's entry
when it ends.

**PartsProofs**, restarts and reloads: `CooldownRespected`, `WaitingIsTrue`,
`RestartTypeCorrect`, `EveryEditIsSeen` and `ReloadTypeCorrect`. `AlreadyWaitingIsTrue` speaks of a serving gateway only;
its invariant `PendingHasPoll` speaks of all phases in which there are handlers,
for a request may come before `start()` returns, and needs that a serving
gateway has handlers. The lemma `Emission` says once what an emission does to
all of it. `EditsAreSeen` speaks of a reloader at rest; `EditIsOnItsWay` says for
every step where a change is that has not been applied: in a report, the timer,
the rerun, or a read in progress. It needs that the hash of an own write stands
for what is applied or about to be (`HashIsApplied`), for a read that finds this
hash is dropped, and that a pending notice has a timer or a rerun
(`NoticeIsHandled`).

**SchedulersProofs**, wakes: `BatchesOneByOne`, `NoWakeForgotten`,
`IntervalStaysArmed` and `WakeTypeCorrect`. `WakeIInv` adds that an open batch
keeps `running` set unless its handler was replaced, that the wakes of a batch
left to call are among those it took, and that heartbeats are enabled as long
as they were never disabled. A target that is owed is then either pending or
among the wakes of an open batch.

**SchedulersProofs**, cron: `RunsOnce`, `MarkersHaveOwners`, `NoSlotSkipped` and
`CronTypeCorrect`. What the code guarantees is stated of each store, in memory
and in the file (`StoreOk`): a stored job in use is marked, unless it was disabled
meanwhile, and a marked one is in use or its marker was left behind by a failing
write (`orphaned`). `JobOk` says besides that a job is in use once, unless it was
disabled, that a marker older than two hours is of no run, and that the marker in
the file of a job that memory has lost is accounted for. `CronIInv` adds that a tick's batch
exists only while `ticking`, the catch-up's only in its stage, and nothing while
the service is down. Each step keeps the uses of a job, adds one or ends one, and
builds a store that fits them (`Fits`); `WrittenOrNot` then carries the invariant
over a block whose write succeeds or fails, so that each block is argued once.
The crux is a run by hand, which looks at the marker in two blocks: the second
look keeps the run from being a second one, also when the first write fails.

**Parts side by side**: `PartsTypeCorrect` and `SchedulersTypeCorrect` are the
type invariants of the two composite runs, from the conjunction of the parts'
inductive invariants (`PartsInvariant`, `SchedulersInvariant`).
`PartsMoveAsSpecified` and `SchedulersMoveAsSpecified` say why a run of the
composite is a run of each part: a behaviour of the composite satisfies, but for
fairness, the specification of each part, and the outbox's.

With this every invariant and every action property of a passing run, and the
refinement of the outbox, is a theorem. Only model-checked are the liveness
properties `EntriesGetTheirTurn`, `ShutdownEnds`, `ButtonComesBack`,
`QueueIsWorkedOff`, `EveryRequestRestarts`, `WakesAreWorkedOff` and
`DueJobsGetTheirRun`, since liveness under fairness is beyond the provers used,
as is induction over data. For three of them the state property they rest on is a
theorem (`NoCircle`, `ButtonIsOwed`, `QueueIsComeBackTo`). The violated runs refute a statement; there is nothing
to prove about them.

## 6. Not modelled, and why

Of the components that are modelled:

- ClawEase: rendering, speech, prompts, local intent rules and the phone's screen.
- Runs: what an agent run does inside its slot, its retries with other models,
  and the lane of subagents.
- Deliveries: how a payload is rendered and sent to a channel, and the temporary
  file of an atomic write.
- Follow-ups: the text of prompts, the expiry of recent ids, the refresh of a
  queued session.
- Restarts: hot reloads of parts of the gateway, and the restart by systemd or
  launchd.
- Reloads: the length of the debounce, the diff of two configurations and the
  plan of parts to reload, secrets, the health state and the audit beside the
  last-known-good copy, recoveries at startup, and the backup that a read restores
  over a file which looks damaged (`gw/config/io.ts:1283`).
- Heartbeats: which reason survives a merge, what a heartbeat says and where it
  is sent.
- Cron: the arithmetic of schedules and its errors, reads of the file that fail, a
  marker older than two hours whose run goes on, delivery and alerts, and a service
  that is replaced while its jobs run. (Then a tick that ends arms the timer of the
  stopped service again.) Runs by hand come one at a time: exact as long as
  `maxConcurrentRuns` is 1, its default, for it is also the limit of the lane
  `cron` (`gw/gateway/server-lanes.ts:7`).
- Diagnostics, warnings and log texts everywhere.

Time is abstract: a timer may fire whenever it is armed, or counts a few units.

Most of the repository is outside: client applications, user interfaces,
command-line commands, generated schemas, model providers, tools and the plugins
under `extensions/`. They are input and output, formatting, or calls to external
services, with little order of events of their own. The other components of
section 1 have such an order and are planned.

## 7. Plan

Done, in this order: CommandQueue with its proofs; GatewayRunLoop on top of it;
DeliveryQueue, which implements Outbox, with its proofs; VoiceSession with its
proofs; EmbeddedRunLanes; FollowupQueue; RestartScheduler, HeartbeatWake,
CronService and ConfigReload with their proofs; the proofs of the run loop and of the runs in
lanes; the proofs of the follow-up queue, of the parts side by side, of the
queue's promises under its clients, and of what three liveness properties rest on.

Next, by what depends on it:

1. `GatewayLock` and `FileLock`: two processes, stale owners; mutual exclusion
   as the abstract specification.
2. `ExecApprovals`: timer against answer, one decision that is consumed once.
3. Node sessions and pending work.
4. The draft loop, inbound debounce, and the selectors of `sms.py`.
5. The restart scheduler in place of the signals of GatewayRunLoop and of what
   the reloader asks for, and cron's runs by hand in the lane `cron` of
   EmbeddedRunLanes.

Proofs to come: abstract specifications of the command queue and of cron, with
the modules shown to implement them; each new abstract specification as a
refinement theorem. Runs stay few: parts that share no state
join `MCParts` or `MCSchedulers`.

## Running

    tlc -config MCCommandQueue.cfg MCCommandQueue.tla
    tlapm CommandQueueProofs.tla

`PROJECT.json` lists each run with its module and configuration, and for each
property a mutant of the code that breaks it.
