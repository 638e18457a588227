----------------------------- MODULE PartsProofs -----------------------------
(***************************************************************************)
(* Proofs about the restart scheduler, for every cool-down, every set of   *)
(* delays and every limit on the wait of a deferral; about the             *)
(* configuration reloader, for all configurations and modes and any number *)
(* of writes and failures; and about the parts of MCParts side by side.    *)
(*                                                                         *)
(* What restartPending says is not inductive by itself: between the close  *)
(* of one server and the handlers of the next, it may be left set with no  *)
(* poll. The invariant adds that a serving gateway has its handlers, and   *)
(* speaks of the time before it serves, too. The handlers of a server that *)
(* was closed by half wait in vain, but the gateway never serves again.    *)
(***************************************************************************)
EXTENDS MCParts, DeliveryQueueProofs, VoiceSessionProofs, FollowupQueueProofs, TLAPS

PendingHasPoll ==
  restartPending /\ reloader /\ ~abandoned /\ ~lostInStart =>
    phase \in {"closing", "left"} \/ \E p \in polls : p.owner = "config"

RestartIInv ==
  /\ RestartTypeOK
  /\ TimerRespectsCooldown
  /\ phase = "serving" => reloader /\ ~abandoned
  /\ PendingHasPoll
-----------------------------------------------------------------------------
(***************************************************************************)
(* An emission leaves no timer and no poll behind, and begins a shutdown   *)
(* or is lost in start().                                                  *)
(***************************************************************************)
LEMMA Emission ==
  ASSUME RestartIInv, EmitGatewayRestart,
         work' \in BOOLEAN, restartPending' \in BOOLEAN,
         UNCHANGED <<reloader, abandoned>>
  PROVE  RestartIInv'
<1>1. /\ timer' = NoTimer /\ polls' = {} /\ cooldown' = Cooldown
      /\ phase' = "closing" \/ (phase' = "starting" /\ lostInStart')
  BY DEF EmitGatewayRestart
<1>2. Cooldown \in 0 .. Cooldown
  BY RestartAssumption DEF RestartAssumption
<1>3. RestartTypeOK'
  BY <1>1, <1>2 DEF RestartIInv, RestartTypeOK, EmitGatewayRestart
<1> QED
  BY <1>1, <1>3 DEF RestartIInv, TimerRespectsCooldown, PendingHasPoll

LEMMA RestartInitial == RestartInit => RestartIInv
<1> SUFFICES ASSUME RestartInit PROVE RestartIInv
  OBVIOUS
<1>1. 0 \in 0 .. Cooldown
  BY RestartAssumption DEF RestartAssumption
<1>2. {work, restartPending, reloader, abandoned, lostInStart} \subseteq BOOLEAN
  BY Zenon DEF RestartInit
<1>3. RestartTypeOK
  BY <1>1, <1>2 DEF RestartInit, RestartTypeOK
<1> QED
  BY <1>3 DEF RestartInit, RestartIInv, TimerRespectsCooldown, PendingHasPoll

LEMMA RestartStep == RestartIInv /\ [RestartNext]_restartVars => RestartIInv'
<1> SUFFICES ASSUME RestartIInv, [RestartNext]_restartVars PROVE RestartIInv'
  OBVIOUS
<1> USE DEF RestartIInv, RestartTypeOK, TimerRespectsCooldown, PendingHasPoll
<1>1. ASSUME NEW d \in Nat, phase # "left", Coalesce(d + cooldown),
             UNCHANGED <<cooldown, polls, work, restartPending, reloader, abandoned, phase,
                         lostInStart>>
      PROVE  RestartIInv'
  <2>1. timer' \in {NoTimer} \cup Nat /\ timer' >= cooldown
    BY <1>1 DEF Coalesce, NoTimer
  <2> QED
    BY <1>1, <2>1
<1>2. ASSUME NEW d \in Delays, ScheduleRestart(d) PROVE RestartIInv'
  BY <1>1, <1>2, RestartAssumption DEF ScheduleRestart, RestartAssumption
<1>3. CASE ExternalSigusr1
  BY <1>1, <1>3 DEF ExternalSigusr1, ScheduleRestart
<1>4. ASSUME NEW throws \in BOOLEAN, TimerFires(throws) PROVE RestartIInv'
  <2>1. CASE work /\ ~throws
    <3>1. /\ polls' = polls \cup {[owner |-> "scheduled", waited |-> 0]}
          /\ timer' = NoTimer
          /\ UNCHANGED <<cooldown, phase, lostInStart, work, restartPending, reloader,
                         abandoned>>
      BY <1>4, <2>1 DEF TimerFires
    <3>2. [owner |-> "scheduled", waited |-> 0] \in [owner : Owners, waited : 0 .. MaxWait]
      BY RestartAssumption DEF RestartAssumption, Owners
    <3> QED
      BY <3>1, <3>2
  <2>2. CASE ~(work /\ ~throws)
    <3>1. EmitGatewayRestart /\ UNCHANGED <<work, restartPending, reloader, abandoned>>
      BY <1>4, <2>2 DEF TimerFires
    <3> QED
      BY <3>1, Emission
  <2> QED
    BY <2>1, <2>2
<1>5. ASSUME NEW throws \in BOOLEAN, NEW p \in polls, PollEnds(p, throws)
      PROVE  RestartIInv'
  <2>1. EmitGatewayRestart /\ UNCHANGED <<work, reloader, abandoned>> /\ restartPending' \in BOOLEAN
    BY <1>5 DEF PollEnds
  <2> QED
    BY <2>1, Emission
<1>6. CASE RequestGatewayRestart
  <2>1. CASE ~work
    <3>1. EmitGatewayRestart /\ UNCHANGED <<work, restartPending, reloader, abandoned>>
      BY <1>6, <2>1 DEF RequestGatewayRestart
    <3> QED
      BY <3>1, Emission
  <2>2. CASE work
    <3>1. /\ reloader /\ restartPending' = TRUE
          /\ polls' = IF restartPending THEN polls
                      ELSE polls \cup {[owner |-> "config", waited |-> 0]}
          /\ UNCHANGED <<timer, cooldown, phase, lostInStart, work, reloader, abandoned>>
      BY <1>6, <2>2 DEF RequestGatewayRestart
    <3>2. [owner |-> "config", waited |-> 0] \in [owner : Owners, waited : 0 .. MaxWait]
      BY RestartAssumption DEF RestartAssumption, Owners
    <3>3. polls' \subseteq [owner : Owners, waited : 0 .. MaxWait]
      BY <3>1, <3>2
    <3>4. CASE restartPending
      BY <3>1, <3>4
    <3>5. CASE ~restartPending
      <4>1. [owner |-> "config", waited |-> 0] \in polls'
        BY <3>1, <3>5
      <4> QED
        BY <3>1, <3>3, <4>1
    <3> QED
      BY <3>4, <3>5
  <2> QED
    BY <2>1, <2>2
<1>7. CASE CreateReloadHandlers
  <2>1. polls' \subseteq [owner : Owners, waited : 0 .. MaxWait]
    BY <1>7 DEF CreateReloadHandlers, Owners
  <2> QED
    BY <1>7, <2>1 DEF CreateReloadHandlers
<1>8. CASE StartEnds
  BY <1>8 DEF StartEnds
<1>9. CASE StopSignal
  BY <1>9 DEF StopSignal
<1>10. CASE CloseStopsReloader
  BY <1>10 DEF CloseStopsReloader
<1>11. CASE CloseEnds
  BY <1>11 DEF CloseEnds
<1>15. CASE CloseThrows
  BY <1>15 DEF CloseThrows
<1>12. CASE WorkChanges
  BY <1>12 DEF WorkChanges
<1>13. CASE Tick
  <2>1. /\ timer' \in {NoTimer} \cup Nat
        /\ cooldown' \in 0 .. Cooldown
        /\ timer' # NoTimer => timer' >= cooldown'
    BY <1>13, RestartAssumption DEF Tick, AtLeast0, NoTimer, RestartAssumption
  <2> DEFINE Later(p) == [p EXCEPT !.waited = IF @ < MaxWait THEN @ + 1 ELSE @]
  <2>2. polls' = {Later(p) : p \in polls}
    BY <1>13 DEF Tick
  <2>3. ASSUME NEW p \in polls
        PROVE  Later(p) \in [owner : Owners, waited : 0 .. MaxWait] /\ Later(p).owner = p.owner
    BY RestartAssumption DEF RestartAssumption
  <2>4. polls' \subseteq [owner : Owners, waited : 0 .. MaxWait]
    BY <2>2, <2>3
  <2>5. (\E p \in polls : p.owner = "config") => \E p \in polls' : p.owner = "config"
    BY <2>2, <2>3
  <2> QED
    BY <1>13, <2>1, <2>4, <2>5 DEF Tick
<1>14. CASE UNCHANGED restartVars
  BY <1>14 DEF restartVars
<1> QED
  BY <1>2, <1>3, <1>4, <1>5, <1>6, <1>7, <1>8, <1>9, <1>10, <1>11, <1>12, <1>13, <1>14, <1>15
  DEF RestartNext

(***************************************************************************)
(* The invariant behind the three theorems below.                          *)
(***************************************************************************)
THEOREM RestartInvariant == RestartSpec => []RestartIInv
BY RestartInitial, RestartStep, PTL DEF RestartSpec

(***************************************************************************)
(* Type correctness of the restart scheduler.                              *)
(***************************************************************************)
THEOREM RestartTypeCorrect == RestartSpec => []RestartTypeOK
<1>1. RestartIInv => RestartTypeOK
  BY DEF RestartIInv
<1> QED
  BY <1>1, RestartInvariant, PTL

(***************************************************************************)
(* No interleaving of requests, emissions and in-process restarts lets a   *)
(* scheduled restart fire within the cool-down.                            *)
(***************************************************************************)
THEOREM CooldownRespected == RestartSpec => []TimerRespectsCooldown
<1>1. RestartIInv => TimerRespectsCooldown
  BY DEF RestartIInv
<1> QED
  BY <1>1, RestartInvariant, PTL

(***************************************************************************)
(* A serving gateway that answers "already waiting" polls, unless a signal *)
(* was lost in start().                                                    *)
(***************************************************************************)
THEOREM WaitingIsTrue == RestartSpec => []AlreadyWaitingIsTrue
<1>1. RestartIInv => AlreadyWaitingIsTrue
  BY DEF RestartIInv, PendingHasPoll, AlreadyWaitingIsTrue
<1> QED
  BY <1>1, RestartInvariant, PTL
-----------------------------------------------------------------------------
(***************************************************************************)
(* The reloader. What EditsAreSeen says of a reloader at rest follows from *)
(* what holds at every step: a change of the file that is not known yet is *)
(* on its way as a report, a timer, a rerun or a read in progress.         *)
(***************************************************************************)
StoppedIsQuiet ==
  /\ reloaderStopped => ~watching /\ ~debounceTimer
  /\ fileChanged => watching
  /\ rerun => running

ContentIsKnown ==
  /\ reload.at \in {"read", "reread"} => reload.content \in Contents
  /\ reload.at \in {"applying", "accepted"} => reload.content \in Contents

NoticeIsHandled ==
  pendingInProcessConfig # NoConfig /\ ~reloaderStopped => debounceTimer \/ rerun

(***************************************************************************)
(* The hash of an own write stands for the configuration that is applied,  *)
(* or about to be: a file that has it need not be applied again.           *)
(***************************************************************************)
HashIsApplied ==
  lastAppliedWriteHash # NoConfig =>
    IF pendingInProcessConfig # NoConfig
    THEN pendingInProcessConfig = lastAppliedWriteHash
    ELSE /\ currentConfig = lastAppliedWriteHash
         /\ reload.at \notin {"restoring", "restored", "reread"}

EditIsOnItsWay ==
  watching /\ file \in Configs /\ overlooked = {} =>
    \/ fileChanged \/ debounceTimer \/ rerun
    \/ reload.at = "restored"
    \/ reload.at \in {"read", "reread"} /\ reload.content = file
    \/ reload.at \notin {"read", "reread"} /\ currentConfig = file

ReloadIInv ==
  /\ ReloadTypeOK
  /\ StoppedIsQuiet
  /\ ContentIsKnown
  /\ NoticeIsHandled
  /\ HashIsApplied
  /\ EditIsOnItsWay
-----------------------------------------------------------------------------
LEMMA Stage ==
  ASSUME NEW to \in ReloadStages, NEW source \in {"file", "write"},
         NEW content \in Contents \cup {NoConfig}
  PROVE  /\ At(to, source, content) \in
              [at : ReloadStages, source : {"file", "write"},
               content : Contents \cup {NoConfig}]
         /\ At(to, source, content).at = to
         /\ At(to, source, content).content = content
         /\ to # "idle" => At(to, source, content) # NoReload
BY DEF At, NoReload

LEMMA IdleStage ==
  /\ NoReload \in [at : ReloadStages, source : {"file", "write"},
                   content : Contents \cup {NoConfig}]
  /\ NoReload.at = "idle"
BY DEF At, NoReload, ReloadStages

LEMMA ReloadInitial == ReloadInit => ReloadIInv
<1> SUFFICES ASSUME ReloadInit PROVE ReloadIInv
  OBVIOUS
<1>1. lastGood \in Configs /\ reload = NoReload
  BY DEF ReloadInit
<1>2. {watching, fileChanged, debounceTimer, rerun, reloaderStopped} \subseteq BOOLEAN
  BY Zenon DEF ReloadInit
<1>3. overlooked \subseteq {"startup", "overtaken", "unreadable"}
  BY DEF ReloadInit
<1>4. ReloadTypeOK
  BY <1>1, <1>2, <1>3, IdleStage DEF ReloadInit, ReloadTypeOK, MaxMissingRetries
<1> QED
  BY <1>1, <1>4, IdleStage
  DEF ReloadInit, ReloadIInv, StoppedIsQuiet, ContentIsKnown, NoticeIsHandled,
      HashIsApplied, EditIsOnItsWay

(***************************************************************************)
(* A configuration is applied that the file has, or that was written.      *)
(***************************************************************************)
LEMMA Applied ==
  ASSUME ReloadIInv, NEW source \in {"file", "write"}, NEW content \in Configs \cup {"missing"},
         ApplySnapshot(source, content)
  PROVE  /\ currentConfig' \in Configs
         /\ content \in Configs => currentConfig' = content
         /\ restart' \in {"none", "checking", "requested"}
         /\ reload' \in [at : ReloadStages, source : {"file", "write"},
                         content : Contents \cup {NoConfig}]
         /\ reload'.at \in {"applying", "accepted"}
         /\ reload'.content = content
         /\ reload' # NoReload
<1>1. content \in Contents
  BY DEF Contents
<1>2. \E to \in {"applying", "accepted"} : reload' = At(to, source, content)
  BY DEF ApplySnapshot
<1>3. PICK to \in {"applying", "accepted"} : reload' = At(to, source, content)
  BY <1>2
<1>4. to \in ReloadStages /\ to # "idle"
  BY DEF ReloadStages
<1>5. currentConfig' = ConfigOf(content)
  BY DEF ApplySnapshot
<1>6. /\ ConfigOf(content) \in Configs
      /\ content \in Configs => ConfigOf(content) = content
  BY ReloadAssumption DEF ReloadAssumption, ConfigOf
<1>7. restart' \in {"none", "checking", "requested"}
  BY DEF ApplySnapshot, ReloadIInv, ReloadTypeOK
<1> QED
  BY <1>1, <1>3, <1>4, <1>5, <1>6, <1>7, Stage

(***************************************************************************)
(* A reload that ends leaves the rerun to the timer, unless the reloader   *)
(* has been stopped.                                                       *)
(***************************************************************************)
LEMMA Finished ==
  ASSUME ReloadIInv, FinishReload
  PROVE  /\ reload' = NoReload /\ reload' \in [at : ReloadStages, source : {"file", "write"},
                                           content : Contents \cup {NoConfig}]
         /\ reload'.at = "idle"
         /\ rerun' = FALSE
         /\ debounceTimer' \in BOOLEAN
         /\ (debounceTimer \/ rerun) /\ ~reloaderStopped => debounceTimer'
         /\ reloaderStopped => ~debounceTimer'
BY IdleStage
DEF FinishReload, RunAgainIfPending, ScheduleAfter, ReloadIInv, ReloadTypeOK, StoppedIsQuiet

(***************************************************************************)
(* Every step keeps the invariant: first those of the file and its         *)
(* watchers, then those of a reload.                                       *)
(***************************************************************************)
LEMMA FileStep ==
  ASSUME ReloadIInv,
         \/ \E content \in Contents : EditFile(content)
         \/ \E c \in Configs : WriteConfigFile(c) \/ NotifyCommittedWrite(c) \/ RefreshFails(c)
         \/ WatcherReports \/ WatcherError \/ RestartRequested \/ RestartFails \/ StopReloader
         \/ UNCHANGED reloadVars
  PROVE  ReloadIInv'
<1> USE DEF ReloadIInv, ReloadTypeOK, StoppedIsQuiet, ContentIsKnown, NoticeIsHandled,
            HashIsApplied, EditIsOnItsWay, running,
            fileVars, applyVars, noticeVars, progressVars
<1>1. ASSUME NEW content \in Contents, EditFile(content) PROVE ReloadIInv'
  BY <1>1 DEF EditFile
<1>2. ASSUME NEW c \in Configs, WriteConfigFile(c) PROVE ReloadIInv'
  BY <1>2 DEF WriteConfigFile, Contents
<1>3. ASSUME NEW c \in Configs, NotifyCommittedWrite(c) PROVE ReloadIInv'
  <2>1. CASE reloaderStopped
    BY <1>3, <2>1 DEF NotifyCommittedWrite, ScheduleAfter
  <2>2. CASE ~reloaderStopped
    <3>1. debounceTimer' = TRUE
      BY <1>3, <2>2 DEF NotifyCommittedWrite, ScheduleAfter
    <3> QED
      BY <1>3, <2>2, <3>1 DEF NotifyCommittedWrite
  <2> QED
    BY <2>1, <2>2
<1>4. ASSUME NEW c \in Configs, RefreshFails(c) PROVE ReloadIInv'
  BY <1>4 DEF RefreshFails, Fails
<1>5. CASE WatcherReports
  <2>1. debounceTimer' = TRUE
    BY <1>5 DEF WatcherReports, ScheduleAfter
  <2> QED
    BY <1>5, <2>1 DEF WatcherReports
<1>6. CASE WatcherError
  <2>1. failures' \in Nat
    BY <1>6 DEF WatcherError, Fails
  <2> QED
    BY <1>6, <2>1 DEF WatcherError
<1>7. CASE RestartRequested
  BY <1>7 DEF RestartRequested
<1>8. CASE RestartFails
  BY <1>8 DEF RestartFails, Fails
<1>9. CASE StopReloader
  BY <1>9 DEF StopReloader
<1>10. CASE UNCHANGED reloadVars
  BY <1>10 DEF reloadVars
<1> QED
  BY <1>1, <1>2, <1>3, <1>4, <1>5, <1>6, <1>7, <1>8, <1>9, <1>10

LEMMA RunReloadStep ==
  ASSUME ReloadIInv, RunReload
  PROVE  ReloadIInv'
<1> USE DEF ReloadIInv, ReloadTypeOK, StoppedIsQuiet, ContentIsKnown, NoticeIsHandled,
            HashIsApplied, EditIsOnItsWay, running,
            fileVars, applyVars, noticeVars, progressVars
<1>1. CASE running
  BY <1>1 DEF RunReload
<1>2. CASE ~running /\ pendingInProcessConfig # NoConfig
  <2>1. ApplySnapshot("write", pendingInProcessConfig)
    BY <1>2 DEF RunReload
  <2>2. pendingInProcessConfig \in Configs
    BY <1>2
  <2>3. /\ currentConfig' = pendingInProcessConfig
        /\ restart' \in {"none", "checking", "requested"}
        /\ reload' \in [at : ReloadStages, source : {"file", "write"},
                        content : Contents \cup {NoConfig}]
        /\ reload'.at \in {"applying", "accepted"}
        /\ reload'.content = pendingInProcessConfig
        /\ reload' # NoReload
    BY <2>1, <2>2, Applied
  <2>4. overlooked' = {} => file = pendingInProcessConfig \/ fileChanged
    BY <1>2 DEF RunReload
  <2>5. overlooked' \subseteq {"startup", "overtaken", "unreadable"}
    BY <1>2 DEF RunReload
  <2>6. missingConfigRetries' \in 0 .. MaxMissingRetries
    BY <1>2 DEF RunReload, MaxMissingRetries
  <2>7. /\ pendingInProcessConfig' = NoConfig /\ debounceTimer' = FALSE
        /\ UNCHANGED <<file, watching, fileChanged, writing, lastGood, writes, rerun,
                       lastAppliedWriteHash, reloaderStopped, failures>>
    BY <1>2 DEF RunReload
  <2>8. ReloadTypeOK'
    BY <2>3, <2>5, <2>6, <2>7, <2>2
  <2> QED
    BY <1>2, <2>2, <2>3, <2>4, <2>7, <2>8 DEF Contents
<1>3. CASE ~running /\ pendingInProcessConfig = NoConfig
  <2>1. "read" \in ReloadStages
    BY DEF ReloadStages
  <2>2. reload' = At("read", "file", file)
    BY <1>3 DEF RunReload
  <2>3. /\ reload' \in [at : ReloadStages, source : {"file", "write"},
                        content : Contents \cup {NoConfig}]
        /\ reload'.at = "read"
        /\ reload'.content = file
        /\ reload' # NoReload
    BY <2>1, <2>2, Stage
  <2> QED
    BY <1>3, <2>3 DEF RunReload
<1> QED
  BY <1>1, <1>2, <1>3

LEMMA SnapshotStep ==
  ASSUME ReloadIInv, SnapshotArrives
  PROVE  ReloadIInv'
<1> USE DEF ReloadIInv, ReloadTypeOK, StoppedIsQuiet, ContentIsKnown, NoticeIsHandled,
            HashIsApplied, EditIsOnItsWay, running,
            fileVars, applyVars, noticeVars, progressVars
<1>1. /\ lastAppliedWriteHash' = IF IsOwnWrite THEN lastAppliedWriteHash ELSE NoConfig
      /\ missingConfigRetries' \in 0 .. MaxMissingRetries
      /\ reload.at = "read"
      /\ reload # NoReload
      /\ UNCHANGED <<file, watching, fileChanged, writing, lastGood, writes,
                     pendingInProcessConfig, reloaderStopped, failures, overlooked>>
  BY IdleStage DEF SnapshotArrives, MaxMissingRetries
<1>2. CASE IsOwnWrite /\ FinishReload /\ UNCHANGED applyVars
  BY <1>1, <1>2, Finished DEF IsOwnWrite
<1>3. CASE /\ reload.content = "missing"
           /\ reload' = NoReload
           /\ rerun' = FALSE
           /\ IF rerun \/ missingConfigRetries < MaxMissingRetries
              THEN ScheduleAfter
              ELSE UNCHANGED debounceTimer
           /\ UNCHANGED applyVars
  <2>1. ~IsOwnWrite
    BY <1>3, ReloadAssumption DEF IsOwnWrite, ReloadAssumption
  <2>2. "missing" \notin Configs
    BY ReloadAssumption DEF ReloadAssumption
  <2>3. /\ debounceTimer' \in BOOLEAN
        /\ (debounceTimer \/ rerun) /\ ~reloaderStopped => debounceTimer'
        /\ reloaderStopped => ~debounceTimer'
    BY <1>3 DEF ScheduleAfter
  <2> QED
    BY <1>1, <1>3, <2>1, <2>2, <2>3, IdleStage
<1>4. CASE /\ reload.content = "invalid"
           /\ reload' = At("restoring", "file", "invalid")
           /\ UNCHANGED <<applyVars, debounceTimer, rerun>>
  <2>1. ~IsOwnWrite
    BY <1>4, ReloadAssumption DEF IsOwnWrite, ReloadAssumption
  <2>2. "invalid" \notin Configs
    BY ReloadAssumption DEF ReloadAssumption
  <2>3. "restoring" \in ReloadStages /\ "invalid" \in Contents
    BY DEF ReloadStages, Contents
  <2>4. /\ reload' \in [at : ReloadStages, source : {"file", "write"},
                        content : Contents \cup {NoConfig}]
        /\ reload'.at = "restoring"
        /\ reload' # NoReload
    BY <1>4, <2>3, Stage
  <2> QED
    BY <1>1, <1>4, <2>1, <2>2, <2>4
<1>5. CASE /\ reload.content \in Configs
           /\ ~IsOwnWrite
           /\ ApplySnapshot("file", reload.content)
           /\ UNCHANGED <<debounceTimer, rerun>>
  <2>1. /\ currentConfig' = reload.content
        /\ restart' \in {"none", "checking", "requested"}
        /\ reload' \in [at : ReloadStages, source : {"file", "write"},
                        content : Contents \cup {NoConfig}]
        /\ reload'.at \in {"applying", "accepted"}
        /\ reload'.content = reload.content
        /\ reload' # NoReload
    BY <1>5, Applied
  <2> QED
    BY <1>1, <1>5, <2>1
<1> QED
  BY <1>2, <1>3, <1>4, <1>5 DEF SnapshotArrives

LEMMA RestoreStep ==
  ASSUME ReloadIInv, RestoreLastGood \/ RereadSnapshot \/ RestoredArrives
  PROVE  ReloadIInv'
<1> USE DEF ReloadIInv, ReloadTypeOK, StoppedIsQuiet, ContentIsKnown, NoticeIsHandled,
            HashIsApplied, EditIsOnItsWay, running,
            fileVars, applyVars, noticeVars, progressVars
<1>1. CASE RestoreLastGood
  <2>1. "restored" \in ReloadStages /\ lastGood \in Contents
    BY DEF ReloadStages, Contents
  <2>2. /\ reload' \in [at : ReloadStages, source : {"file", "write"},
                        content : Contents \cup {NoConfig}]
        /\ reload'.at = "restored"
        /\ reload' # NoReload
    BY <1>1, <2>1, Stage DEF RestoreLastGood
  <2> QED
    BY <1>1, <2>1, <2>2 DEF RestoreLastGood
<1>2. CASE RereadSnapshot
  <2>1. "reread" \in ReloadStages
    BY DEF ReloadStages
  <2>2. /\ reload' \in [at : ReloadStages, source : {"file", "write"},
                        content : Contents \cup {NoConfig}]
        /\ reload'.at = "reread"
        /\ reload'.content = file
        /\ reload' # NoReload
    BY <1>2, <2>1, Stage DEF RereadSnapshot
  <2> QED
    BY <1>2, <2>2 DEF RereadSnapshot
<1>3. CASE RestoredArrives
  <2>1. CASE reload.content = "invalid"
    <3>1. "invalid" \notin Configs
      BY ReloadAssumption DEF ReloadAssumption
    <3> QED
      BY <1>3, <2>1, <3>1, Finished DEF RestoredArrives
  <2>2. CASE reload.content # "invalid"
    <3>1. reload.content \in Configs \cup {"missing"}
      BY <1>3, <2>2 DEF RestoredArrives, Contents
    <3>2. /\ currentConfig' \in Configs
          /\ reload.content \in Configs => currentConfig' = reload.content
          /\ restart' \in {"none", "checking", "requested"}
          /\ reload' \in [at : ReloadStages, source : {"file", "write"},
                          content : Contents \cup {NoConfig}]
          /\ reload'.at \in {"applying", "accepted"}
          /\ reload'.content = reload.content
          /\ reload' # NoReload
      BY <1>3, <2>2, <3>1, Applied DEF RestoredArrives
    <3> QED
      BY <1>3, <2>2, <3>1, <3>2, IdleStage DEF RestoredArrives, Contents
  <2> QED
    BY <2>1, <2>2
<1> QED
  BY <1>1, <1>2, <1>3

LEMMA EndStep ==
  ASSUME ReloadIInv,
         ReadFails \/ RestoreFails \/ HotReloadSucceeds \/ HotReloadFails \/ Promote
  PROVE  ReloadIInv'
<1> USE DEF ReloadIInv, ReloadTypeOK, StoppedIsQuiet, ContentIsKnown, NoticeIsHandled,
            HashIsApplied, EditIsOnItsWay, running,
            fileVars, applyVars, noticeVars, progressVars
<1>1. CASE ReadFails
  <2>1. /\ failures' \in Nat
        /\ missingConfigRetries' \in 0 .. MaxMissingRetries
        /\ overlooked' # {} /\ overlooked' \subseteq {"startup", "overtaken", "unreadable"}
    BY <1>1 DEF ReadFails, Fails, MaxMissingRetries
  <2> QED
    BY <1>1, <2>1, Finished DEF ReadFails
<1>2. CASE RestoreFails
  <2>1. failures' \in Nat
    BY <1>2 DEF RestoreFails, Fails
  <2> QED
    BY <1>2, <2>1, Finished DEF RestoreFails
<1>3. CASE HotReloadSucceeds
  <2>1. "accepted" \in ReloadStages
    BY DEF ReloadStages
  <2>2. /\ reload' \in [at : ReloadStages, source : {"file", "write"},
                        content : Contents \cup {NoConfig}]
        /\ reload'.at = "accepted"
        /\ reload'.content = reload.content
    BY <1>3, <2>1 DEF HotReloadSucceeds
  <2> QED
    BY <1>3, <2>2, IdleStage DEF HotReloadSucceeds
<1>4. CASE HotReloadFails
  <2>1. failures' \in Nat
    BY <1>4 DEF HotReloadFails, Fails
  <2> QED
    BY <1>4, <2>1, Finished DEF HotReloadFails
<1>5. CASE Promote
  <2>1. FinishReload /\ lastGood' \in Configs /\ failures' \in Nat
    BY <1>5 DEF Promote, Fails
  <2> QED
    BY <1>5, <2>1, Finished DEF Promote
<1> QED
  BY <1>1, <1>2, <1>3, <1>4, <1>5

(***************************************************************************)
(* The invariant behind the two theorems below.                            *)
(***************************************************************************)
LEMMA ReloadStep == ReloadIInv /\ [ReloadNext]_reloadVars => ReloadIInv'
BY FileStep, RunReloadStep, SnapshotStep, RestoreStep, EndStep DEF ReloadNext

THEOREM ReloadInvariant == ReloadSpec => []ReloadIInv
BY ReloadInitial, ReloadStep, PTL DEF ReloadSpec

(***************************************************************************)
(* Type correctness of the configuration reloader.                         *)
(***************************************************************************)
THEOREM ReloadTypeCorrect == ReloadSpec => []ReloadTypeOK
<1>1. ReloadIInv => ReloadTypeOK
  BY DEF ReloadIInv
<1> QED
  BY <1>1, ReloadInvariant, PTL

(***************************************************************************)
(* A watching reloader at rest has applied every write that was notified,  *)
(* and every valid edit that it was not bound to overlook.                 *)
(***************************************************************************)
THEOREM EveryEditIsSeen == ReloadSpec => []EditsAreSeen
<1>1. ReloadIInv => EditsAreSeen
  <2> SUFFICES ASSUME ReloadIInv PROVE EditsAreSeen
    OBVIOUS
  <2>1. AtRest => ~fileChanged /\ ~debounceTimer /\ ~rerun /\ reload.at = "idle"
    BY IdleStage DEF AtRest, running, ReloadIInv, StoppedIsQuiet
  <2>2. watching => ~reloaderStopped
    BY DEF ReloadIInv, StoppedIsQuiet
  <2> QED
    BY <2>1, <2>2 DEF ReloadIInv, NoticeIsHandled, EditIsOnItsWay, EditsAreSeen
<1> QED
  BY <1>1, ReloadInvariant, PTL

-----------------------------------------------------------------------------
(***************************************************************************)
(* Side by side: of the parts, one moves and the others stay as they       *)
(* began.                                                                  *)
(***************************************************************************)
PartsInv == DeliveryInv /\ SessionInv /\ FollowupInv /\ RestartIInv /\ ReloadIInv

LEMMA PartsStep ==
  PartsInv /\ [PartsNext]_<<part, vars, voiceVars, followupVars, restartVars, reloadVars>>
  => PartsInv'
<1> SUFFICES ASSUME PartsInv,
                    [PartsNext]_<<part, vars, voiceVars, followupVars, restartVars, reloadVars>>
             PROVE  PartsInv'
  OBVIOUS
<1>1. /\ [Next]_vars /\ [VoiceNext]_voiceVars /\ [FollowupNext]_followupVars
      /\ [RestartNext]_restartVars /\ [ReloadNext]_reloadVars
  BY DEF PartsNext
<1>2. DeliveryInv'
  BY <1>1, NextInv DEF PartsInv
<1> QED
  BY <1>1, <1>2, SessionKept, FollowupSteps, RestartStep, ReloadStep DEF PartsInv

THEOREM PartsInvariant == PartsSpec => []PartsInv
<1>1. PartsInit => PartsInv
  BY InitInv, Initially, FollowupStarts, RestartInitial, ReloadInitial DEF PartsInit, PartsInv
<1> QED BY <1>1, PartsStep, PTL DEF PartsSpec

(***************************************************************************)
(* The variables of all parts keep their types, and the invariants of each *)
(* part hold side by side, too.                                            *)
(***************************************************************************)
THEOREM PartsTypeCorrect == PartsSpec => []PartsTypeOK
<1>1. PartsInv => PartsTypeOK
  BY DEF PartsInv, PartsTypeOK, DeliveryInv, SessionInv, FollowupInv, RestartIInv, ReloadIInv
<1> QED BY <1>1, PartsInvariant, PTL

(***************************************************************************)
(* Each part takes side by side the steps that its own module allows, so   *)
(* what is proved from the steps of a part holds of all of them, and the   *)
(* delivery queue implements the outbox.                                   *)
(***************************************************************************)
THEOREM PartsMoveAsSpecified ==
  PartsSpec => /\ Spec /\ OutboxSpec
               /\ VoiceSpec
               /\ FollowupInit /\ [][FollowupNext]_followupVars
               /\ RestartInit /\ [][RestartNext]_restartVars
               /\ ReloadSpec
<1>1. PartsInit => Init /\ VoiceInit /\ FollowupInit /\ RestartInit /\ ReloadInit
  BY DEF PartsInit
<1>2. [PartsNext]_<<part, vars, voiceVars, followupVars, restartVars, reloadVars>> =>
        /\ [Next]_vars /\ [VoiceNext]_voiceVars /\ [FollowupNext]_followupVars
        /\ [RestartNext]_restartVars /\ [ReloadNext]_reloadVars
  BY DEF PartsNext
<1> QED
  BY <1>1, <1>2, ImplementsOutbox, PTL DEF PartsSpec, Spec, VoiceSpec, ReloadSpec
=============================================================================
