---------------------------- MODULE DeliveryQueue ----------------------------
(***************************************************************************)
(* The write-ahead queue of outbound deliveries                            *)
(* (openclaw/src/infra/outbound/delivery-queue-storage.ts,                 *)
(* delivery-queue-recovery.ts, and deliverOutboundPayloads in deliver.ts). *)
(*                                                                         *)
(* An entry is one call of deliverOutboundPayloads: persisted, sent, then  *)
(* acknowledged or marked as failed. Recovery passes (one at startup, one  *)
(* per reconnecting account) replay the entries they find on disk. Both    *)
(* work on the same files, suspended at every file operation and during    *)
(* every send, and a crash may come between any two steps; the files       *)
(* survive it. A step is one file operation or one outcome of a send.      *)
(*                                                                         *)
(* Left abstract: the payload and the channel; time, so that an entry with *)
(* a failed attempt may or may not be past its backoff; the order in which *)
(* a pass takes its entries; the temporary file of a write, which appears  *)
(* under its name in one step. Any file operation may fail.                *)
(***************************************************************************)
EXTENDS Integers, FiniteSets

CONSTANTS
  Entries,      \* calls of deliverOutboundPayloads
  Passes,       \* recovery passes, one at a time each
  Startup,      \* the pass that runs within a time budget
  MaxRetries    \* MAX_RETRIES

Absent == -1
None == "none"

ASSUME DeliveryAssumption ==
  /\ None \notin Entries
  /\ Startup \in Passes
  /\ MaxRetries \in Nat \ {0}

VARIABLES
  json,         \* per entry, retryCount in {id}.json, or Absent
  marker,       \* entries with a {id}.delivered file
  failed,       \* entries with a file in failed/
  bestEffort,   \* entries persisted with bestEffort
  at,           \* where each activity is suspended
  copy,         \* per activity, the retryCount that failDelivery has read
  item,         \* per pass, the entry it works on
  todo,         \* per pass, the entries of its snapshot still to come
  entriesInProgress,   \* entries claimed by a pass
  settled,      \* history: entries sent in full, or aborted by their caller
  channelAborted   \* history: entries whose live send the channel aborted

diskVars == <<json, marker, failed, bestEffort>>
passVars == <<item, todo, entriesInProgress>>
history == <<settled, channelAborted>>
vars == <<diskVars, at, copy, passVars, history>>

(***************************************************************************)
(* The activities: the live call of an entry, a recovery pass, and the     *)
(* deferral of an entry by a startup pass that is out of time.             *)
(***************************************************************************)
Live(e)  == <<"live", e>>
Defer(e) == <<"defer", e>>
Pass(r)  == <<"pass", r>>

Activities == ({"live", "defer"} \X Entries) \cup ({"pass"} \X Passes)

IsPass(p) == p[1] = "pass"
EntryOf(p) == IF IsPass(p) THEN item[p[2]] ELSE p[2]

Goto(p, place) == at' = [at EXCEPT ![p] = place]

(***************************************************************************)
(* A retryCount at or over the limit only has to stay there.               *)
(***************************************************************************)
Bump(n) == IF n > MaxRetries THEN n ELSE n + 1

(***************************************************************************)
(* An activity is done with its entry. A pass releases its claim and goes  *)
(* on with its loop.                                                       *)
(***************************************************************************)
FinishKeepingClaim(p) ==   \* mutant: the finally block is missing
  /\ Goto(p, CASE p[1] = "live"  -> "done"
               [] p[1] = "defer" -> "idle"
               [] p[1] = "pass"  -> "looping")
  /\ copy' = [copy EXCEPT ![p] = 0]
  /\ item' = IF IsPass(p) THEN [item EXCEPT ![p[2]] = None] ELSE item
  /\ UNCHANGED entriesInProgress

Finish(p) ==
  /\ Goto(p, CASE p[1] = "live"  -> "done"
               [] p[1] = "defer" -> "idle"
               [] p[1] = "pass"  -> "looping")
  /\ copy' = [copy EXCEPT ![p] = 0]
  /\ IF IsPass(p)
     THEN /\ entriesInProgress' = entriesInProgress \ {item[p[2]]}
          /\ item' = [item EXCEPT ![p[2]] = None]
     ELSE UNCHANGED <<entriesInProgress, item>>
-----------------------------------------------------------------------------
Init ==
  /\ json = [e \in Entries |-> Absent]
  /\ marker = {}
  /\ failed = {}
  /\ bestEffort = {}
  /\ at = [p \in Activities |-> IF p[1] = "live" THEN "new" ELSE "idle"]
  /\ copy = [p \in Activities |-> 0]
  /\ item = [r \in Passes |-> None]
  /\ todo = [r \in Passes |-> {}]
  /\ entriesInProgress = {}
  /\ settled = {}
  /\ channelAborted = {}

(***************************************************************************)
(* The live call persists its entry before it sends; with bestEffort       *)
(* failed payloads will not throw. If the write fails the call sends all   *)
(* the same, and nothing it does later concerns the queue.                 *)
(***************************************************************************)
EnqueueDelivery(e) ==
  /\ at[Live(e)] = "new"
  /\ \/ /\ json' = [json EXCEPT ![e] = 0]
        /\ bestEffort' \in {bestEffort, bestEffort \cup {e}}
        /\ Goto(Live(e), "sending")
     \/ /\ Goto(Live(e), "unqueued")
        /\ UNCHANGED <<json, bestEffort>>
  /\ UNCHANGED <<marker, failed, copy, passVars, history>>

AckEveryOutcome(p) ==   \* mutant: a failure is acknowledged as well
  LET e == EntryOf(p)
  IN  /\ at[p] = "sending"
      /\ settled' \in {settled, settled \cup {e}}
      /\ Goto(p, "acking")
      /\ UNCHANGED <<diskVars, copy, passVars, channelAborted>>

(***************************************************************************)
(* A send ends: in full; aborted by the live caller; with an error, or     *)
(* with failed payloads that the live call noticed, possibly after the     *)
(* last payload; or, under bestEffort without an onError callback, which a *)
(* recovery pass never has, with failed payloads that nobody noticed.      *)
(*                                                                         *)
(* The live call acknowledges every error with the name AbortError. That   *)
(* is also what a channel throws that gives up its own request, such as    *)
(* fetchWithTimeout: the entry is acknowledged, though it was neither sent *)
(* nor withdrawn. A pass counts the same error as a failure.               *)
(***************************************************************************)
Attempt(p) ==
  LET e == EntryOf(p)
  IN  /\ at[p] = "sending"
      /\ \/ /\ settled' = settled \cup {e}
            /\ Goto(p, "acking")
            /\ UNCHANGED channelAborted
         \/ /\ e \in bestEffort
            /\ Goto(p, "acking")
            /\ UNCHANGED history
         \/ /\ p[1] = "live"
            /\ channelAborted' = channelAborted \cup {e}
            /\ Goto(p, "acking")
            /\ UNCHANGED settled
         \/ /\ settled' \in {settled, settled \cup {e}}
            /\ \/ Goto(p, "failing")
               \/ IsPass(p) /\ Goto(p, "moving")     \* a permanent error
            /\ UNCHANGED channelAborted
      /\ UNCHANGED <<diskVars, copy, passVars>>
-----------------------------------------------------------------------------
(***************************************************************************)
(* ackDelivery, phase 1: {id}.json becomes {id}.delivered. If it is gone a *)
(* leftover marker is removed; if the rename fails a live call ignores it  *)
(* and a pass counts the attempt as failed.                                *)
(***************************************************************************)
AckRename(p) ==
  LET e == EntryOf(p)
  IN  /\ at[p] = "acking"
      /\ \/ /\ json[e] # Absent
            /\ json' = [json EXCEPT ![e] = Absent]
            /\ marker' = marker \cup {e}
            /\ Goto(p, "unlinking")
            /\ UNCHANGED <<copy, item, entriesInProgress>>
         \/ /\ json[e] = Absent
            /\ Goto(p, "unlinking")
            /\ UNCHANGED <<json, marker, copy, item, entriesInProgress>>
         \/ /\ IF IsPass(p)
               THEN /\ Goto(p, "failing")
                    /\ UNCHANGED <<copy, item, entriesInProgress>>
               ELSE Finish(p)
            /\ UNCHANGED <<json, marker>>
      /\ UNCHANGED <<failed, bestEffort, todo, history>>

(***************************************************************************)
(* ackDelivery, phase 2: the marker is removed, if that succeeds.          *)
(***************************************************************************)
AckUnlink(p) ==
  /\ at[p] = "unlinking"
  /\ marker' \in {marker, marker \ {EntryOf(p)}}
  /\ Finish(p)
  /\ UNCHANGED <<json, failed, bestEffort, todo, history>>

(***************************************************************************)
(* failDelivery reads the entry, and writes it back one await later.       *)
(***************************************************************************)
FailRead(p) ==
  LET e == EntryOf(p)
  IN  /\ at[p] = "failing"
      /\ \/ /\ json[e] # Absent
            /\ copy' = [copy EXCEPT ![p] = json[e]]
            /\ Goto(p, "writing")
            /\ UNCHANGED <<item, entriesInProgress>>
         \/ Finish(p)
      /\ UNCHANGED <<diskVars, todo, history>>

FailWrite(p) ==
  /\ at[p] = "writing"
  /\ json' \in {json, [json EXCEPT ![EntryOf(p)] = Bump(copy[p])]}
  /\ Finish(p)
  /\ UNCHANGED <<marker, failed, bestEffort, todo, history>>

MoveWithoutFile(p) ==   \* mutant: moveToFailed unlinks instead of renaming
  /\ at[p] = "moving"
  /\ json' = [json EXCEPT ![EntryOf(p)] = Absent]
  /\ Finish(p)
  /\ UNCHANGED <<marker, failed, bestEffort, todo, history>>

(***************************************************************************)
(* moveToFailed after a permanent error; it may find no file, or fail.     *)
(***************************************************************************)
MoveToFailed(p) ==
  LET e == EntryOf(p)
  IN  /\ at[p] = "moving"
      /\ \/ /\ json[e] # Absent
            /\ json' = [json EXCEPT ![e] = Absent]
            /\ failed' = failed \cup {e}
         \/ UNCHANGED <<json, failed>>
      /\ Finish(p)
      /\ UNCHANGED <<marker, bestEffort, todo, history>>
-----------------------------------------------------------------------------
(***************************************************************************)
(* A pass begins: it removes the markers it can and takes a snapshot of    *)
(* the entries it can read and selects. A pass in progress is not begun    *)
(* again.                                                                  *)
(***************************************************************************)
LoadPendingDeliveries(r) ==
  /\ at[Pass(r)] = "idle"
  /\ \E left \in SUBSET marker : marker' = left
  /\ \E found \in SUBSET {e \in Entries : json[e] # Absent} :
       todo' = [todo EXCEPT ![r] = found]
  /\ Goto(Pass(r), "looping")
  /\ UNCHANGED <<json, failed, bestEffort, copy, item, entriesInProgress, history>>

(***************************************************************************)
(* The loop claims its next entry, or skips it if another pass holds it.   *)
(***************************************************************************)
ClaimRecoveryEntry(r, e) ==
  /\ at[Pass(r)] = "looping"
  /\ e \in todo[r]
  /\ todo' = [todo EXCEPT ![r] = @ \ {e}]
  /\ IF e \in entriesInProgress
     THEN UNCHANGED <<at, item, entriesInProgress>>
     ELSE /\ entriesInProgress' = entriesInProgress \cup {e}
          /\ item' = [item EXCEPT ![r] = e]
          /\ Goto(Pass(r), "loading")
  /\ UNCHANGED <<diskVars, copy, history>>

(***************************************************************************)
(* The file is read again after the claim: it is gone, out of retries, not *)
(* yet past its backoff, or ready to be sent; the first replay never waits *)
(* for a backoff. A read error ends the pass.                              *)
(***************************************************************************)
LoadPendingDelivery(r) ==
  LET n == json[item[r]]
  IN  /\ at[Pass(r)] = "loading"
      /\ \/ /\ n = Absent \/ n \in 1 .. MaxRetries - 1
            /\ Finish(Pass(r))
            /\ UNCHANGED todo
         \/ /\ n >= MaxRetries
            /\ Goto(Pass(r), "pruning")
            /\ UNCHANGED <<copy, passVars>>
         \/ /\ n \in 0 .. MaxRetries - 1
            /\ Goto(Pass(r), "sending")
            /\ UNCHANGED <<copy, passVars>>
         \/ /\ Finish(Pass(r))
            /\ todo' = [todo EXCEPT ![r] = {}]
      /\ UNCHANGED <<diskVars, history>>

(***************************************************************************)
(* moveToFailed after too many retries. An error other than a missing file *)
(* ends a reconnect pass; the startup pass logs it.                        *)
(***************************************************************************)
Prune(r) ==
  LET e == item[r]
  IN  /\ at[Pass(r)] = "pruning"
      /\ \/ /\ json[e] # Absent
            /\ json' = [json EXCEPT ![e] = Absent]
            /\ failed' = failed \cup {e}
            /\ UNCHANGED todo
         \/ /\ json[e] # Absent
            /\ todo' = IF r = Startup THEN todo ELSE [todo EXCEPT ![r] = {}]
            /\ UNCHANGED <<json, failed>>
         \/ /\ json[e] = Absent
            /\ UNCHANGED <<json, failed, todo>>
      /\ Finish(Pass(r))
      /\ UNCHANGED <<marker, bestEffort, history>>

(***************************************************************************)
(* The startup pass is out of time: it marks all the entries that are left *)
(* as failed, together, without claiming them, and waits for the writes.   *)
(***************************************************************************)
DeferRemainingEntries ==
  /\ at[Pass(Startup)] = "looping"
  /\ todo[Startup] # {}
  /\ at' = [p \in Activities |->
              IF p = Pass(Startup) THEN "deferring"
              ELSE IF p[1] = "defer" /\ p[2] \in todo[Startup] THEN "failing"
              ELSE at[p]]
  /\ todo' = [todo EXCEPT ![Startup] = {}]
  /\ UNCHANGED <<diskVars, copy, item, entriesInProgress, history>>

EndPass(r) ==
  /\ \/ at[Pass(r)] = "looping" /\ todo[r] = {}
     \/ at[Pass(r)] = "deferring" /\ \A e \in Entries : at[Defer(e)] = "idle"
  /\ Goto(Pass(r), "idle")
  /\ UNCHANGED <<diskVars, copy, passVars, history>>

(***************************************************************************)
(* The process dies and starts again: only the files survive.              *)
(***************************************************************************)
Crash ==
  /\ at' = [p \in Activities |->
              IF p[1] # "live" THEN "idle"
              ELSE IF at[p] \in {"new", "unqueued"} THEN at[p] ELSE "done"]
  /\ copy' = [p \in Activities |-> 0]
  /\ item' = [r \in Passes |-> None]
  /\ todo' = [r \in Passes |-> {}]
  /\ entriesInProgress' = {}
  /\ UNCHANGED <<diskVars, history>>

Next ==
  \/ \E e \in Entries : EnqueueDelivery(e)
  \/ \E p \in Activities :
       \/ Attempt(p)
       \/ AckRename(p)
       \/ AckUnlink(p)
       \/ FailRead(p)
       \/ FailWrite(p)
       \/ MoveToFailed(p)
  \/ \E r \in Passes :
       \/ LoadPendingDeliveries(r)
       \/ \E e \in Entries : ClaimRecoveryEntry(r, e)
       \/ LoadPendingDelivery(r)
       \/ Prune(r)
       \/ EndPass(r)
  \/ DeferRemainingEntries
  \/ Crash

Spec == Init /\ [][Next]_vars
-----------------------------------------------------------------------------
Places == {"new", "idle", "sending", "acking", "unlinking", "failing", "writing",
           "moving", "unqueued", "looping", "loading", "pruning", "deferring", "done"}

TypeOK ==
  /\ json \in [Entries -> {Absent} \cup 0 .. MaxRetries + 1]
  /\ marker \subseteq Entries
  /\ failed \subseteq Entries
  /\ bestEffort \subseteq Entries
  /\ at \in [Activities -> Places]
  /\ copy \in [Activities -> 0 .. MaxRetries + 1]
  /\ item \in [Passes -> Entries \cup {None}]
  /\ todo \in [Passes -> SUBSET Entries]
  /\ entriesInProgress \subseteq Entries
  /\ settled \subseteq Entries
  /\ channelAborted \subseteq Entries

(***************************************************************************)
(* The entries that were persisted, and those accounted for: every payload *)
(* was sent, the caller withdrew it, or it is filed in failed/. The code   *)
(* does not protect an entry with bestEffort, nor one whose live send the  *)
(* channel aborted.                                                        *)
(***************************************************************************)
Taken == {e \in Entries : at[Live(e)] \notin {"new", "unqueued"}}
Accounted == settled \cup failed
Unprotected == bestEffort \cup channelAborted

(***************************************************************************)
(* No message is lost but the unprotected ones: an entry that was          *)
(* persisted is pending on disk until it is accounted for, whatever        *)
(* crashes, file errors and concurrent passes come between. A marker does  *)
(* not count as pending, since the next scan removes it unsent.            *)
(***************************************************************************)
NothingLost ==
  \A e \in Taken \ Unprotected : json[e] # Absent \/ e \in Accounted

(***************************************************************************)
(* Claims are exact: two passes never work on one entry, and a claim       *)
(* without a pass that works on the entry, which would keep the entry from *)
(* every later pass of the process, does not exist.                        *)
(***************************************************************************)
ClaimsExact ==
  /\ \A r, s \in Passes : r # s /\ item[r] # None => item[r] # item[s]
  /\ entriesInProgress = {item[r] : r \in Passes} \ {None}

(***************************************************************************)
(* The queue implements an outbox for the protected messages: a pending    *)
(* file holds the message, and no step lets go of it before it is          *)
(* accounted for. The outbox says nothing of the unprotected ones: they    *)
(* are taken as held until then, whatever becomes of their files.          *)
(***************************************************************************)
Box == INSTANCE Outbox WITH
         Messages  <- Entries,
         held      <- {e \in Taken : json[e] # Absent \/ e \in Unprotected},
         accounted <- Accounted

OutboxSpec == Box!Spec
=============================================================================
