---------------------------- MODULE ConfigReload ----------------------------
(***************************************************************************)
(* The configuration reloader of a gateway                                 *)
(* (openclaw/src/gateway/config-reload.ts). A watcher reports changes of   *)
(* the configuration file after a quiet period, OpenClaw's own writes are  *)
(* notified in the process, and both end in one debounce timer. One reload *)
(* runs at a time; what comes meanwhile makes it run again. A reload       *)
(* applies a configuration that was notified, or else the file: it         *)
(* restores the last-known-good copy over an invalid one, compares with    *)
(* the configuration it knows, and reloads parts or asks for a restart.    *)
(*                                                                         *)
(* A handler is cut at its awaits; a file is read at the call of           *)
(* readSnapshot and its content is looked at later. A hash stands for the  *)
(* content it was taken of. Left abstract: the delays of the timer, which  *)
(* may fire at any time; which parts a plan reloads; what becomes of a     *)
(* restart that was asked for (RestartScheduler); secrets, by which a      *)
(* runtime configuration differs from the file it was written to.          *)
(***************************************************************************)
EXTENDS Naturals

CONSTANTS
  Configs,        \* contents of the file that validate
  Defaults,       \* what a missing file is read as
  ModeOf,         \* gateway.reload.mode of each configuration
  RestartPairs,   \* <<c, d>>: the change from c to d needs a restart
  NoConfig,
  MaxWrites,      \* bound: changes of the file by others than the reloader
  MaxFailures     \* bound: awaited calls that fail

ASSUME ReloadAssumption ==
  /\ Defaults \in Configs
  /\ NoConfig \notin Configs
  /\ {"missing", "invalid"} \cap (Configs \cup {NoConfig}) = {}
  /\ ModeOf \in [Configs -> {"off", "restart", "hot", "hybrid"}]
  /\ RestartPairs \subseteq Configs \X Configs
  /\ MaxWrites \in Nat /\ MaxFailures \in Nat

MaxMissingRetries == 2

VARIABLES
  file,           \* the content of the file
  watching,       \* the watcher is open
  fileChanged,    \* the watcher has a change to report
  writing,        \* own writes that are on disk and not notified yet
  lastGood,       \* the last-known-good copy
  currentConfig,
  debounceTimer,
  rerun,          \* the variable pending of the code
  reload,         \* the reload in progress: where it awaits, and for what
  restart,        \* restartQueued, and whether the check before it has passed
  missingConfigRetries,
  pendingInProcessConfig,
  lastAppliedWriteHash,
  reloaderStopped,
  writes, failures,
  overlooked      \* history: why currentConfig may lag behind the file

fileVars == <<file, watching, fileChanged, writing, lastGood, writes>>
applyVars == <<currentConfig, restart>>
noticeVars == <<pendingInProcessConfig, lastAppliedWriteHash>>
progressVars == <<debounceTimer, rerun, reload, missingConfigRetries>>
reloadVars == <<fileVars, applyVars, noticeVars, progressVars,
                reloaderStopped, failures, overlooked>>

Contents == Configs \cup {"missing", "invalid"}
ConfigOf(content) == IF content = "missing" THEN Defaults ELSE content

(***************************************************************************)
(* Where a reload awaits: readSnapshot, recoverSnapshot, then readSnapshot *)
(* once more, onHotReload, or the promotion of what it accepted. content   *)
(* is what it read or was notified of, and source says which.              *)
(***************************************************************************)
ReloadStages == {"idle", "read", "restoring", "restored", "reread", "applying", "accepted"}
At(stage, source, content) == [at |-> stage, source |-> source, content |-> content]
NoReload == At("idle", "file", NoConfig)
running == reload # NoReload
restartQueued == restart # "none"
-----------------------------------------------------------------------------
(***************************************************************************)
(* initialConfig was loaded before the watcher was started, and the        *)
(* watcher does not report what it finds: an edit in between is            *)
(* overlooked. initialInternalWriteHash is that of a write of the startup. *)
(***************************************************************************)
ReloadInit ==
  /\ currentConfig \in Configs
  /\ file \in Contents
  /\ overlooked = IF file = currentConfig THEN {} ELSE {"startup"}
  /\ lastAppliedWriteHash \in {NoConfig, currentConfig}
  /\ lastGood = currentConfig
  /\ watching = TRUE
  /\ reload = NoReload
  /\ restart = "none"
  /\ pendingInProcessConfig = NoConfig
  /\ writing = {}
  /\ fileChanged = FALSE /\ debounceTimer = FALSE /\ rerun = FALSE
  /\ reloaderStopped = FALSE
  /\ missingConfigRetries = 0 /\ writes = 0 /\ failures = 0

ScheduleAfter == debounceTimer' = (debounceTimer \/ ~reloaderStopped)

Fails ==
  /\ failures < MaxFailures
  /\ failures' = failures + 1
-----------------------------------------------------------------------------
(***************************************************************************)
(* The file changes: by an editor, a deletion, another process. A watcher  *)
(* reports a file that is saved again without a change, too.               *)
(***************************************************************************)
EditFile(content) ==
  /\ writes < MaxWrites
  /\ writes' = writes + 1
  /\ file' = content
  /\ fileChanged' = watching
  /\ UNCHANGED <<applyVars, noticeVars, progressVars, watching, writing, lastGood,
                 reloaderStopped, failures, overlooked>>

(***************************************************************************)
(* writeConfigFile in this process. The listener is told after the runtime *)
(* snapshot has been refreshed, if that succeeds.                          *)
(***************************************************************************)
WriteConfigFile(c) ==
  /\ writes < MaxWrites
  /\ c \notin writing
  /\ writes' = writes + 1
  /\ file' = c
  /\ fileChanged' = watching
  /\ writing' = writing \cup {c}
  /\ UNCHANGED <<applyVars, noticeVars, progressVars, watching, lastGood,
                 reloaderStopped, failures, overlooked>>

NotifyCommittedWrite(c) ==
  /\ c \in writing
  /\ writing' = writing \ {c}
  /\ IF reloaderStopped
     THEN UNCHANGED noticeVars
     ELSE /\ pendingInProcessConfig' = c
          /\ lastAppliedWriteHash' = c
  /\ ScheduleAfter
  /\ UNCHANGED <<applyVars, file, watching, fileChanged, lastGood, writes, rerun, reload,
                 missingConfigRetries, reloaderStopped, failures, overlooked>>

RefreshFails(c) ==
  /\ c \in writing
  /\ Fails
  /\ writing' = writing \ {c}
  /\ UNCHANGED <<applyVars, noticeVars, progressVars, file, watching, fileChanged, lastGood,
                 writes, reloaderStopped, overlooked>>

WatcherReports ==
  /\ fileChanged
  /\ fileChanged' = FALSE
  /\ ScheduleAfter
  /\ UNCHANGED <<applyVars, noticeVars, file, watching, writing, lastGood, writes, rerun,
                 reload, missingConfigRetries, reloaderStopped, failures, overlooked>>

WatcherError ==
  /\ watching
  /\ Fails
  /\ watching' = FALSE
  /\ fileChanged' = FALSE
  /\ UNCHANGED <<applyVars, noticeVars, progressVars, file, writing, lastGood, writes,
                 reloaderStopped, overlooked>>
-----------------------------------------------------------------------------
(***************************************************************************)
(* applySnapshot up to its await, and the restart that it may queue.       *)
(***************************************************************************)
ApplySnapshot(source, content) ==
  LET next == ConfigOf(content)
      changes == next # currentConfig
      restarts == \/ ModeOf[next] = "restart"
                  \/ ModeOf[next] = "hybrid" /\ <<currentConfig, next>> \in RestartPairs
      hotReload == /\ ModeOf[next] \in {"hot", "hybrid"}
                   /\ <<currentConfig, next>> \notin RestartPairs
  IN  /\ currentConfig' = next
      /\ restart' = IF changes /\ restarts /\ ~restartQueued THEN "checking" ELSE restart
      /\ reload' = At(IF changes /\ hotReload THEN "applying" ELSE "accepted", source, content)

ForgetPending ==   \* mutant: what came during a reload does not start another
  /\ rerun' = FALSE
  /\ UNCHANGED debounceTimer

(***************************************************************************)
(* The finally block of runReload.                                         *)
(***************************************************************************)
RunAgainIfPending ==
  /\ rerun' = FALSE
  /\ IF rerun THEN ScheduleAfter ELSE UNCHANGED debounceTimer

FinishReload == reload' = NoReload /\ RunAgainIfPending

(***************************************************************************)
(* runReload, when the timer fires. A configuration that was notified goes *)
(* before the file, which then is not read: what the watcher has reported  *)
(* of a later edit is overlooked.                                          *)
(***************************************************************************)
RunReload ==
  /\ debounceTimer
  /\ debounceTimer' = FALSE
  /\ \/ /\ running
        /\ rerun' = TRUE
        /\ UNCHANGED <<applyVars, noticeVars, reload, missingConfigRetries, overlooked>>
     \/ /\ ~running
        /\ pendingInProcessConfig # NoConfig
        /\ pendingInProcessConfig' = NoConfig
        /\ missingConfigRetries' = 0
        /\ ApplySnapshot("write", pendingInProcessConfig)
        /\ overlooked' = IF file = pendingInProcessConfig \/ fileChanged THEN {}
                         ELSE overlooked \cup {"overtaken"}
        /\ UNCHANGED <<lastAppliedWriteHash, rerun>>
     \/ /\ ~running
        /\ pendingInProcessConfig = NoConfig
        /\ reload' = At("read", "file", file)
        /\ overlooked' = {}
        /\ UNCHANGED <<applyVars, noticeVars, rerun, missingConfigRetries>>
  /\ UNCHANGED <<fileVars, reloaderStopped, failures>>

(***************************************************************************)
(* A write of this process that has been notified is not applied again. A  *)
(* file that is missing is looked for twice more.                          *)
(***************************************************************************)
IsOwnWrite == lastAppliedWriteHash # NoConfig /\ reload.content = lastAppliedWriteHash

SnapshotArrives ==
  /\ reload.at = "read"
  /\ lastAppliedWriteHash' = IF IsOwnWrite THEN lastAppliedWriteHash ELSE NoConfig
  /\ missingConfigRetries' = IF IsOwnWrite THEN missingConfigRetries
                             ELSE IF reload.content # "missing" THEN 0
                             ELSE IF missingConfigRetries < MaxMissingRetries
                                  THEN missingConfigRetries + 1
                                  ELSE missingConfigRetries
  /\ \/ /\ IsOwnWrite
        /\ FinishReload
        /\ UNCHANGED applyVars
     \/ /\ reload.content = "missing"
        /\ reload' = NoReload
        /\ rerun' = FALSE
        /\ IF rerun \/ missingConfigRetries < MaxMissingRetries
           THEN ScheduleAfter
           ELSE UNCHANGED debounceTimer
        /\ UNCHANGED applyVars
     \/ /\ reload.content = "invalid"
        /\ reload' = At("restoring", "file", "invalid")
        /\ UNCHANGED <<applyVars, debounceTimer, rerun>>
     \/ /\ reload.content \in Configs
        /\ ~IsOwnWrite
        /\ ApplySnapshot("file", reload.content)
        /\ UNCHANGED <<debounceTimer, rerun>>
  /\ UNCHANGED <<fileVars, pendingInProcessConfig, reloaderStopped, failures, overlooked>>

(***************************************************************************)
(* The file could not be read: its snapshot is invalid, has the hash of a  *)
(* missing file, and nothing is restored over it.                          *)
(***************************************************************************)
ReadFails ==
  /\ reload.at = "read"
  /\ Fails
  /\ lastAppliedWriteHash' = NoConfig
  /\ missingConfigRetries' = 0
  /\ overlooked' = overlooked \cup {"unreadable"}
  /\ FinishReload
  /\ UNCHANGED <<fileVars, applyVars, pendingInProcessConfig, reloaderStopped>>

(***************************************************************************)
(* recoverSnapshot copies the last-known-good file over whatever is there  *)
(* by then, and the file is read again; or it gives up.                    *)
(***************************************************************************)
RestoreLastGood ==
  /\ reload.at = "restoring"
  /\ file' = lastGood
  /\ fileChanged' = watching
  /\ reload' = At("restored", "file", lastGood)
  /\ UNCHANGED <<applyVars, noticeVars, watching, writing, lastGood, writes, debounceTimer,
                 rerun, missingConfigRetries, reloaderStopped, failures, overlooked>>

RestoreFails ==
  /\ reload.at = "restoring"
  /\ Fails
  /\ FinishReload
  /\ UNCHANGED <<fileVars, applyVars, noticeVars, missingConfigRetries, reloaderStopped,
                 overlooked>>

RereadSnapshot ==
  /\ reload.at = "restored"
  /\ reload' = At("reread", "file", file)
  /\ overlooked' = {}
  /\ UNCHANGED <<fileVars, applyVars, noticeVars, debounceTimer, rerun,
                 missingConfigRetries, reloaderStopped, failures>>

(***************************************************************************)
(* What was restored arrives, or what replaced it meanwhile: a missing     *)
(* file is valid here.                                                     *)
(***************************************************************************)
RestoredArrives ==
  /\ reload.at = "reread"
  /\ \/ /\ reload.content = "invalid"
        /\ FinishReload
        /\ UNCHANGED applyVars
     \/ /\ reload.content # "invalid"
        /\ ApplySnapshot("file", reload.content)
        /\ UNCHANGED <<debounceTimer, rerun>>
  /\ UNCHANGED <<fileVars, noticeVars, missingConfigRetries, reloaderStopped, failures,
                 overlooked>>
-----------------------------------------------------------------------------
HotReloadSucceeds ==
  /\ reload.at = "applying"
  /\ reload' = [reload EXCEPT !.at = "accepted"]
  /\ UNCHANGED <<fileVars, applyVars, noticeVars, debounceTimer, rerun,
                 missingConfigRetries, reloaderStopped, failures, overlooked>>

(***************************************************************************)
(* onHotReload throws. currentConfig stays the configuration that was      *)
(* rejected, so that the same file passes as unchanged when it is read     *)
(* again, and is promoted.                                                 *)
(***************************************************************************)
HotReloadFails ==
  /\ reload.at = "applying"
  /\ Fails
  /\ FinishReload
  /\ UNCHANGED <<fileVars, applyVars, noticeVars, missingConfigRetries, reloaderStopped,
                 overlooked>>

(***************************************************************************)
(* The accepted snapshot becomes the last-known-good copy: a file that     *)
(* exists, and a write of this process if it is still what the file holds. *)
(* A failure of the promotion is logged only.                              *)
(***************************************************************************)
Promote ==
  /\ reload.at = "accepted"
  /\ LET promotes == /\ reload.content \in Configs
                     /\ reload.source = "write" => file = reload.content
     IN  \/ /\ promotes
            /\ lastGood' = reload.content
            /\ UNCHANGED failures
         \/ /\ promotes
            /\ Fails
            /\ UNCHANGED lastGood
         \/ /\ ~promotes
            /\ UNCHANGED <<lastGood, failures>>
  /\ FinishReload
  /\ UNCHANGED <<applyVars, noticeVars, file, watching, fileChanged, writing, writes,
                 missingConfigRetries, reloaderStopped, overlooked>>

(***************************************************************************)
(* onRestart: the check of the secrets, then the request of the restart.   *)
(***************************************************************************)
RestartRequested ==
  /\ restart = "checking"
  /\ restart' = "requested"
  /\ UNCHANGED <<fileVars, noticeVars, progressVars, currentConfig, reloaderStopped,
                 failures, overlooked>>

RestartFails ==
  /\ restart = "checking"
  /\ Fails
  /\ restart' = "none"
  /\ UNCHANGED <<fileVars, noticeVars, progressVars, currentConfig, reloaderStopped,
                 overlooked>>

(***************************************************************************)
(* The close of the gateway. A reload in progress goes on to its end.      *)
(***************************************************************************)
StopReloader ==
  /\ ~reloaderStopped
  /\ reloaderStopped' = TRUE
  /\ debounceTimer' = FALSE
  /\ watching' = FALSE /\ fileChanged' = FALSE
  /\ UNCHANGED <<applyVars, noticeVars, file, writing, lastGood, writes, rerun, reload,
                 missingConfigRetries, failures, overlooked>>

ReloadNext ==
  \/ \E content \in Contents : EditFile(content)
  \/ \E c \in Configs : WriteConfigFile(c) \/ NotifyCommittedWrite(c) \/ RefreshFails(c)
  \/ WatcherReports \/ WatcherError
  \/ RunReload \/ SnapshotArrives \/ ReadFails
  \/ RestoreLastGood \/ RestoreFails \/ RereadSnapshot \/ RestoredArrives
  \/ HotReloadSucceeds \/ HotReloadFails
  \/ Promote
  \/ RestartRequested \/ RestartFails
  \/ StopReloader

ReloadSpec == ReloadInit /\ [][ReloadNext]_reloadVars
-----------------------------------------------------------------------------
ReloadTypeOK ==
  /\ file \in Contents
  /\ watching \in BOOLEAN /\ fileChanged \in BOOLEAN
  /\ writing \subseteq Configs
  /\ lastGood \in Configs /\ currentConfig \in Configs
  /\ debounceTimer \in BOOLEAN /\ rerun \in BOOLEAN /\ reloaderStopped \in BOOLEAN
  /\ reload \in [at : ReloadStages, source : {"file", "write"}, content : Contents \cup {NoConfig}]
  /\ restart \in {"none", "checking", "requested"}
  /\ missingConfigRetries \in 0 .. MaxMissingRetries
  /\ pendingInProcessConfig \in Configs \cup {NoConfig}
  /\ lastAppliedWriteHash \in Configs \cup {NoConfig}
  /\ overlooked \subseteq {"startup", "overtaken", "unreadable"}
  /\ writes \in Nat /\ failures \in Nat

AtRest == ~fileChanged /\ writing = {} /\ ~debounceTimer /\ ~running

(***************************************************************************)
(* When a watching reloader has come to rest, it has no write of its own   *)
(* process left to apply, and its configuration is that of the file, if    *)
(* that is valid, except for an edit that was made before the watcher      *)
(* started or could not be read, or one that a notified write overtook.    *)
(* Edits and own writes come at any point of a reload, so this needs the   *)
(* rerun, the hash of own writes and the order of reads to agree.          *)
(***************************************************************************)
EditsAreSeen ==
  (AtRest /\ watching) =>
    /\ pendingInProcessConfig = NoConfig
    /\ (file \in Configs /\ overlooked = {}) => currentConfig = file
=============================================================================
