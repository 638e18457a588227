---------------------------- MODULE FollowupQueue ----------------------------
(***************************************************************************)
(* The queue of follow-up messages of one session                          *)
(* (openclaw/src/auto-reply/reply/queue and src/utils/queue-helpers.ts):   *)
(* messages that arrive while an agent run is active are queued up to a    *)
(* cap, and drained by turns of the agent when the run is over.            *)
(*                                                                         *)
(* A drain suspends in the debounce wait and in each turn. It works on a   *)
(* queue object that enqueues change meanwhile, and that a clear replaces  *)
(* in the map of queues: at its end the drain deletes or schedules by key. *)
(*                                                                         *)
(* A message stands for its id, its route and the authorization of its     *)
(* sender, and in summaryLines for its line. Left out: the text of         *)
(* prompts, the expiry of the recent ids and restartIfIdle, which the only *)
(* caller (agent-runner.ts) sets to false. lastRun is left out too: it is  *)
(* set whenever something is queued. So is droppedCount: caps are          *)
(* positive, so that it is positive exactly when there are lines.          *)
(***************************************************************************)
EXTENDS Naturals, Sequences, FiniteSets, SequencesExt

CONSTANTS
  Messages,       \* inbound messages, each with an id of its own
  AuthOf,         \* the authorization key of a message's sender
  RouteOf,        \* where a message came from
  QueueSettings,  \* the settings an enqueue may bring
  MaxQueues,      \* bound: queue objects created
  MaxTurnFailures \* bound: turns that fail

QueueIds == 1 .. MaxQueues
NoEntry == 0

ASSUME FollowupAssumption ==
  /\ QueueSettings \subseteq [mode : {"collect", "followup"}, cap : Nat \ {0},
                              dropPolicy : {"summarize", "old", "new"}]
  /\ MaxQueues \in Nat /\ MaxTurnFailures \in Nat

VARIABLES
  queues,       \* the queue objects: items, settings, and messages to summarize
  entry,        \* the object FOLLOWUP_QUEUES holds for the session
  created,      \* queue objects created
  drain,        \* the drain of an object: where it is suspended
  recentIds,    \* ids of the messages that were accepted
  runActive,    \* an agent run outside the drains is active
  turnFailures, \* turns that failed
  answered,     \* history: messages whose text a successful turn had
  accounted,    \* history: reported in a summary, dropped by policy, or cleared
  givenUp,      \* history: run or reported by a failed run, or trimmed unreported
  causes        \* history: events after which other messages may be lost

followupHistory == <<answered, accounted, givenUp, causes>>
followupVars == <<queues, entry, created, drain, recentIds, runActive,
                  turnFailures, followupHistory>>

Objects == [items : Seq(Messages), summaryLines : Seq(Messages),
            mode : {"collect", "followup"}, cap : Nat \ {0},
            dropPolicy : {"summarize", "old", "new"}]

(***************************************************************************)
(* A drain in a turn has a batch of messages to run, the summary that goes *)
(* with it, and the messages of later turns that are planned already.      *)
(***************************************************************************)
Drains == [at : {"idle", "debounce", "turn"}, forced : BOOLEAN,
           kind : {"none", "items", "summaryOnly", "summaryTurn"},
           batch : Seq(Messages), summary : SUBSET Messages, later : Seq(Messages)]

NewQueue == [items |-> <<>>, summaryLines |-> <<>>, mode |-> "collect", cap |-> 1,
             dropPolicy |-> "summarize"]
WithSettings(o, s) ==
  [o EXCEPT !.mode = s.mode, !.cap = s.cap, !.dropPolicy = s.dropPolicy]

Idle == [at |-> "idle", forced |-> FALSE, kind |-> "none",
         batch |-> <<>>, summary |-> {}, later |-> <<>>]
Debouncing(forced) == [Idle EXCEPT !.at = "debounce", !.forced = forced]

FirstOf(items, n) == SubSeq(items, 1, n)
After(items, n) == SubSeq(items, n + 1, Len(items))
HasWork(o) == o.items # <<>> \/ o.summaryLines # <<>>
Dropped(o) == ToSet(o.summaryLines)
Summary(o) == IF o.dropPolicy = "summarize" THEN Dropped(o) ELSE {}
CrossChannel(items) == \E m, n \in ToSet(items) : RouteOf[m] # RouteOf[n]
Active == runActive \/ \E q \in QueueIds : drain[q].at = "turn"
-----------------------------------------------------------------------------
FollowupInit ==
  /\ queues = [q \in QueueIds |-> NewQueue]
  /\ entry = NoEntry
  /\ created = 0
  /\ drain = [q \in QueueIds |-> Idle]
  /\ recentIds = {}
  /\ runActive = FALSE
  /\ turnFailures = 0
  /\ answered = {}
  /\ accounted = {}
  /\ givenUp = {}
  /\ causes = {}

(***************************************************************************)
(* scheduleFollowupDrain on the map's entry e, with queues Q and drains D: *)
(* a queue that is being drained is left alone, and an empty one is        *)
(* deleted by the finally block of the drain that finds it empty.          *)
(***************************************************************************)
ScheduleFollowupDrain(Q, D, e) ==
  IF e = NoEntry \/ (e # NoEntry /\ D[e].at # "idle")
  THEN drain' = D /\ entry' = e
  ELSE IF HasWork(Q[e])
       THEN drain' = [D EXCEPT ![e] = Debouncing(FALSE)] /\ entry' = e
       ELSE drain' = D /\ entry' = NoEntry

EndWithoutSchedule(q, Q) ==   \* mutant: the finally block schedules no further drain
  /\ drain' = [drain EXCEPT ![q] = Idle]
  /\ entry' = IF HasWork(Q[q]) THEN entry ELSE NoEntry

(***************************************************************************)
(* The finally block of q's drain, which deletes or schedules whatever the *)
(* map holds for the key.                                                  *)
(***************************************************************************)
EndDrain(q, Q) ==
  LET D == [drain EXCEPT ![q] = Idle]
  IN  IF HasWork(Q[q])
      THEN ScheduleFollowupDrain(Q, D, entry)
      ELSE drain' = D /\ entry' = NoEntry

LoopAgain(q, Q, forced) ==
  IF HasWork(Q[q])
  THEN drain' = [drain EXCEPT ![q] = Debouncing(forced)] /\ UNCHANGED entry
  ELSE EndDrain(q, Q)
-----------------------------------------------------------------------------
(***************************************************************************)
(* applyQueueDropPolicy before m is pushed. The lines of the messages that *)
(* are dropped join the summary, of which the latest stay, up to the cap;  *)
(* the lines before them are gone, and only a number tells of them.        *)
(***************************************************************************)
Overflow(o) == IF Len(o.items) < o.cap THEN 0 ELSE Len(o.items) - o.cap + 1
Latest(lines, cap) == IF Len(lines) <= cap THEN lines ELSE After(lines, Len(lines) - cap)
LinesWith(o) == o.summaryLines \o FirstOf(o.items, Overflow(o))

Summarized(o) ==
  IF o.dropPolicy = "summarize" /\ Overflow(o) > 0
  THEN Latest(LinesWith(o), o.cap) ELSE o.summaryLines
Trimmed(o) ==
  IF o.dropPolicy = "summarize" /\ Overflow(o) > 0
  THEN ToSet(LinesWith(o)) \ ToSet(Summarized(o)) ELSE {}

SlicedItem(o, m) ==   \* mutant: the dropped items are copied, not spliced out
  [o EXCEPT !.items = Append(@, m), !.summaryLines = Summarized(o)]

WithItem(o, m) ==
  [o EXCEPT !.items = Append(After(@, Overflow(o)), m),
            !.summaryLines = Summarized(o)]

(***************************************************************************)
(* enqueueFollowupRun with the queue's settings of this message, and the   *)
(* caller's check that the run is still active: if not, it schedules the   *)
(* drain itself.                                                           *)
(***************************************************************************)
EnqueueFollowupRun(m, s) ==
  LET fresh == entry = NoEntry
      q     == IF fresh THEN created + 1 ELSE entry
      old   == WithSettings(IF fresh THEN NewQueue ELSE queues[q], s)
      full  == Overflow(old) > 0
      Q(o)  == [queues EXCEPT ![q] = o]
      Leave(o) == /\ queues' = Q(o)
                  /\ IF Active THEN entry' = q /\ UNCHANGED drain
                               ELSE ScheduleFollowupDrain(Q(o), drain, q)
  IN  /\ fresh => created < MaxQueues
      /\ created' = IF fresh THEN created + 1 ELSE created
      /\ IF m \in recentIds \/ (full /\ old.dropPolicy = "new")
         THEN /\ Leave(old)
              /\ UNCHANGED <<recentIds, accounted, givenUp, causes>>
         ELSE /\ Leave(WithItem(old, m))
              /\ recentIds' = recentIds \cup {m}
              /\ accounted' = IF old.dropPolicy = "old"
                              THEN accounted \cup ToSet(FirstOf(old.items, Overflow(old)))
                              ELSE accounted
              /\ givenUp' = givenUp \cup Trimmed(old)
              /\ causes' = IF full /\ drain[q].at = "turn"
                           THEN causes \cup {"dropInTurn"} ELSE causes
      /\ UNCHANGED <<runActive, turnFailures, answered>>

(***************************************************************************)
(* clearSessionQueues: a stop or a reset of the session.                   *)
(***************************************************************************)
ClearFollowupQueue ==
  /\ entry # NoEntry
  /\ accounted' = accounted \cup ToSet(queues[entry].items) \cup Dropped(queues[entry])
  /\ queues' = [queues EXCEPT ![entry].items = <<>>, ![entry].summaryLines = <<>>]
  /\ causes' = IF drain[entry].at # "idle" THEN causes \cup {"clearInDrain"} ELSE causes
  /\ entry' = NoEntry
  /\ UNCHANGED <<created, drain, recentIds, runActive, turnFailures, answered, givenUp>>

RunBegins ==
  /\ ~Active
  /\ runActive' = TRUE
  /\ UNCHANGED <<queues, entry, created, drain, recentIds, turnFailures, followupHistory>>

(***************************************************************************)
(* finalizeWithFollowup at the end of a run.                               *)
(***************************************************************************)
ActiveRunEnds ==
  /\ runActive
  /\ runActive' = FALSE
  /\ ScheduleFollowupDrain(queues, drain, entry)
  /\ UNCHANGED <<queues, created, recentIds, turnFailures, followupHistory>>
-----------------------------------------------------------------------------
(***************************************************************************)
(* splitCollectItemsByAuthorization: groups of neighbours with one key.    *)
(* Each turn takes the first group of what the plan has left.              *)
(***************************************************************************)
GroupSize(items) ==
  Cardinality({i \in 1 .. Len(items) :
                 \A j \in 1 .. i : AuthOf[items[j]] = AuthOf[items[1]]})

Turn(forced, kind, batch, summary, later) ==
  [at |-> "turn", forced |-> forced, kind |-> kind, batch |-> batch,
   summary |-> summary, later |-> later]

(***************************************************************************)
(* What the loop's body of the drain runs next on queue object o; Idle     *)
(* where it leaves the loop. Outside collect mode the turn of an overflow  *)
(* summary takes the place of the next item's turn.                        *)
(***************************************************************************)
NextTurn(o, forced) ==
  LET individually == o.mode = "collect" /\ (forced \/ CrossChannel(o.items))
      next == FirstOf(o.items, 1)
      n == GroupSize(o.items)
  IN  IF o.items = <<>>
      THEN IF o.mode = "collect" /\ Summary(o) # {}
           THEN Turn(forced, "summaryOnly", <<>>, Summary(o), <<>>)
           ELSE Idle
      ELSE IF individually THEN Turn(TRUE, "items", next, {}, <<>>)
      ELSE IF o.mode = "collect"
           THEN Turn(FALSE, "items", FirstOf(o.items, n), Summary(o), After(o.items, n))
      ELSE IF Summary(o) # {} THEN Turn(forced, "summaryTurn", next, Summary(o), <<>>)
      ELSE Turn(forced, "items", next, {}, <<>>)

(***************************************************************************)
(* The debounce wait is over.                                              *)
(***************************************************************************)
QuietPeriodEnds(q) ==
  LET t == NextTurn(queues[q], drain[q].forced)
  IN  /\ drain[q].at = "debounce"
      /\ IF t = Idle
         THEN EndDrain(q, queues)
         ELSE drain' = [drain EXCEPT ![q] = t] /\ UNCHANGED entry
      /\ UNCHANGED <<queues, created, recentIds, runActive, turnFailures, followupHistory>>

RemainingAfterLastGroup(o, t) ==   \* mutant: the batch is spliced at its end only
  IF t.later = <<>> THEN After(o.items, Len(t.batch)) ELSE o.items

Remaining(o, t) == After(o.items, Len(t.batch))

(***************************************************************************)
(* The turn of q's drain returns: as many items as it had leave the front  *)
(* of the queue, and its summary is done with; then the next group's turn. *)
(***************************************************************************)
TurnReturns(q) ==
  LET t == drain[q]
      Done(o) == [o EXCEPT !.items = Remaining(o, t),
                           !.summaryLines = IF t.summary # {} THEN <<>> ELSE @]
      Q == [queues EXCEPT ![q] = Done(@)]
  IN  /\ t.at = "turn"
      /\ queues' = Q
      /\ IF t.later # <<>>
         THEN /\ drain' = [drain EXCEPT ![q].batch = FirstOf(t.later, GroupSize(t.later)),
                                        ![q].later = After(t.later, GroupSize(t.later)),
                                        ![q].summary = {}]
              /\ UNCHANGED entry
         ELSE LoopAgain(q, Q, t.forced)
      /\ causes' = IF t.kind = "summaryTurn" THEN causes \cup {t.kind} ELSE causes
      /\ UNCHANGED <<created, recentIds, runActive>>

Ran(t) == IF t.kind = "items" THEN ToSet(t.batch) ELSE {}

TurnSucceeds(q) ==
  /\ TurnReturns(q)
  /\ answered' = answered \cup Ran(drain[q])
  /\ accounted' = accounted \cup drain[q].summary
  /\ UNCHANGED <<turnFailures, givenUp>>

AnotherFailure ==
  /\ turnFailures < MaxTurnFailures
  /\ turnFailures' = turnFailures + 1

(***************************************************************************)
(* The agent's run of a turn fails, which followup-runner.ts catches: the  *)
(* turn returns, and the drain takes it for done.                          *)
(***************************************************************************)
RunFails(q) ==
  /\ AnotherFailure
  /\ TurnReturns(q)
  /\ givenUp' = givenUp \cup Ran(drain[q]) \cup drain[q].summary
  /\ UNCHANGED <<answered, accounted>>

TakesItemsFirst(q) ==   \* mutant: the items leave the queue before the turn, which throws
  /\ drain[q].at = "turn"
  /\ AnotherFailure
  /\ queues' = [queues EXCEPT ![q].items = After(@, Len(drain[q].batch))]
  /\ EndDrain(q, queues')
  /\ UNCHANGED <<created, recentIds, runActive, followupHistory>>

(***************************************************************************)
(* The turn throws into the drain: before the agent's run, where the turn  *)
(* is configured or the session compacted, or after it, where the use is   *)
(* saved or the replies are sent. The drain keeps its items, and they run  *)
(* again.                                                                  *)
(***************************************************************************)
TurnThrows(q) ==
  /\ drain[q].at = "turn"
  /\ AnotherFailure
  /\ EndDrain(q, queues)
  /\ UNCHANGED <<queues, created, recentIds, runActive, followupHistory>>

TurnEnds(q) == TurnSucceeds(q) \/ RunFails(q) \/ TurnThrows(q)

FollowupNext ==
  \/ \E m \in Messages, s \in QueueSettings : EnqueueFollowupRun(m, s)
  \/ ClearFollowupQueue
  \/ RunBegins
  \/ ActiveRunEnds
  \/ \E q \in QueueIds : QuietPeriodEnds(q) \/ TurnEnds(q)

(***************************************************************************)
(* Runs and turns of the agent have a timeout, and so end, in one way or   *)
(* another.                                                                *)
(***************************************************************************)
FollowupFairness ==
  /\ WF_followupVars(ActiveRunEnds)
  /\ \A q \in QueueIds : WF_followupVars(QuietPeriodEnds(q) \/ TurnEnds(q))

FollowupSpec ==
  FollowupInit /\ [][FollowupNext]_followupVars /\ FollowupFairness
-----------------------------------------------------------------------------
FollowupTypeOK ==
  /\ queues \in [QueueIds -> Objects]
  /\ drain \in [QueueIds -> Drains]
  /\ \A q \in QueueIds :
       /\ IsInjective(queues[q].items)
       /\ ToSet(queues[q].items) \cap Dropped(queues[q]) = {}
       /\ drain[q].at = "turn" <=> drain[q].kind # "none"
  /\ entry \in {NoEntry} \cup 1 .. created
  /\ created \in 0 .. MaxQueues
  /\ runActive \in BOOLEAN
  /\ turnFailures \in 0 .. MaxTurnFailures
  /\ answered \cup accounted \cup givenUp \subseteq recentIds
  /\ causes \subseteq {"dropInTurn", "clearInDrain", "summaryTurn"}

(***************************************************************************)
(* A message that was accepted waits in a queue that the map still holds   *)
(* or that is being drained, or in the plan of a drain, or was run, or is  *)
(* accounted for.                                                          *)
(***************************************************************************)
Waits(m) ==
  \E q \in QueueIds :
    \/ /\ q = entry \/ drain[q].at # "idle"
       /\ m \in ToSet(queues[q].items) \cup Dropped(queues[q])
    \/ /\ drain[q].kind = "items"
       /\ m \in ToSet(drain[q].batch) \cup ToSet(drain[q].later)

NothingQueuedIsLost == \A m \in recentIds \ (answered \cup accounted) : Waits(m)

(***************************************************************************)
(* Without an overflow in a turn, the turn of a summary outside collect    *)
(* mode and a clear during a drain, no message that was accepted is lost   *)
(* but those whose own run failed, or the run that was to report them, and *)
(* those whose lines were trimmed: in whatever order messages, changed     *)
(* settings, runs, throwing turns and the ends of drains come.             *)
(***************************************************************************)
LossNeedsCause ==
  causes = {} => \A m \in recentIds \ (answered \cup accounted \cup givenUp) : Waits(m)

(***************************************************************************)
(* No message is run twice, though it may be delivered again by its        *)
(* channel, turns fail and are repeated, the front of the queue is dropped *)
(* while it is in a turn, and two drains of one session may overlap.       *)
(***************************************************************************)
NoSecondTurn ==
  \A q \in QueueIds :
    drain[q].at = "turn" /\ drain[q].kind = "items" =>
      ToSet(drain[q].batch) \cap answered = {}

(***************************************************************************)
(* A queue with work is worked off: whatever waits in the map's queue is   *)
(* gone some day, unless the drain goes round for ever with nothing but    *)
(* dropped messages and settings under which no turn reports them.         *)
(***************************************************************************)
GoesRound ==
  \E q \in QueueIds :
    /\ drain[q].at = "debounce"
    /\ queues[q].items = <<>> /\ queues[q].summaryLines # <<>>
    /\ NextTurn(queues[q], drain[q].forced) = Idle

QueueIsWorkedOff ==
  entry # NoEntry /\ HasWork(queues[entry])
    ~> \/ entry = NoEntry \/ (entry # NoEntry /\ ~HasWork(queues[entry]))
       \/ GoesRound
=============================================================================
