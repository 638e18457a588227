-------------------------- MODULE SchedulersProofs --------------------------
(***************************************************************************)
(* Proofs about the heartbeat wake, for any targets and delays and any     *)
(* number of runners and of batches at a time; about the cron service, for *)
(* any jobs, any limits on concurrent runs and on the catch-up, and any    *)
(* number of edits, crashes and writes that fail; and about the two side   *)
(* by side.                                                                *)
(*                                                                         *)
(* Of the wake: one batch at a time needs that running is set while a      *)
(* batch is open, as long as no new runner reset it; that an interval is   *)
(* armed again needs that heartbeats are enabled until they are first      *)
(* disabled.                                                               *)
(*                                                                         *)
(* Of cron the invariant says the same of memory and of the file           *)
(* (StoreOk), and of what uses each job (JobOk). A job that was disabled   *)
(* during a run has lost its marker, and a write that failed leaves one    *)
(* that no run will clear: of both it says less. Every block rewrites a    *)
(* store, marks jobs of it, or applies results to it, and its write is     *)
(* done or fails (WrittenOrNot).                                           *)
(***************************************************************************)
EXTENDS MCSchedulers, TLAPS, FiniteSetTheorems

Batches == [by : Nat, all : SUBSET Targets, rest : SUBSET Targets,
            current : Targets, delay : Nat]

Typed ==
  /\ batches \in [Slots -> Batches]
  /\ wakeTimer \in [left : Nat, delay : Nat, kind : {"none", "normal", "retry"}]
  /\ wakeTimer.left <= wakeTimer.delay
  /\ wakeTimer.kind = "none" => wakeTimer = NoWakeTimer
  /\ runners \in Nat
  /\ {running, scheduled, heartbeatsEnabled} \subseteq BOOLEAN
  /\ pendingWakes \subseteq Targets /\ owed \subseteq Targets
  /\ handler \in {NoHandler} \cup (1 .. runners \ stopped)
  /\ stopped \subseteq 1 .. runners
  /\ armed \subseteq 1 .. runners \ stopped

BatchesWithin ==
  \A b \in Open :
    /\ batches[b].by \in 1 .. runners
    /\ batches[b].rest \cup {batches[b].current} \subseteq batches[b].all

RunningIsKept ==
  "replaced" \notin wakeCauses =>
    /\ Open # {} => running
    /\ OneBatchAtATime

EnabledAtFirst == "disabled" \notin wakeCauses => heartbeatsEnabled

WakeIInv ==
  Typed /\ BatchesWithin /\ RunningIsKept /\ EnabledAtFirst
  /\ WakesReachARunner /\ IntervalIsRearmed
-----------------------------------------------------------------------------
LEMMA TimerRecords ==
  /\ NoWakeTimer \in [left : Nat, delay : Nat, kind : {"none", "normal", "retry"}]
  /\ NoWakeTimer.left = 0 /\ NoWakeTimer.delay = 0 /\ NoWakeTimer.kind = "none"
BY DEF NoWakeTimer

LEMMA NoBatchRecord ==
  NoBatch \in Batches /\ NoBatch.by = NoHandler /\ NoBatch.rest = {}
BY WakeAssumption DEF WakeAssumption, NoBatch, Batches, NoHandler

(***************************************************************************)
(* The timers that the code sets are well formed.                          *)
(***************************************************************************)
GoodTimer(tm) ==
  /\ tm \in [left : Nat, delay : Nat, kind : {"none", "normal", "retry"}]
  /\ tm.left <= tm.delay
  /\ tm.kind = "none" => tm = NoWakeTimer

LEMMA ScheduleGood ==
  ASSUME NEW tm, GoodTimer(tm), NEW delay \in Nat, NEW kind \in {"normal", "retry"}
  PROVE  GoodTimer(Schedule(tm, delay, kind))
BY DEF GoodTimer, Schedule
-----------------------------------------------------------------------------
LEMMA WakeInitial == WakeInit => WakeIInv
<1> SUFFICES ASSUME WakeInit PROVE WakeIInv
  OBVIOUS
<1>1. {running, scheduled, heartbeatsEnabled} \subseteq BOOLEAN
  BY Zenon DEF WakeInit
<1>2. Open = {}
  BY NoBatchRecord DEF WakeInit, Open
<1>3. Typed
  BY <1>1, TimerRecords, NoBatchRecord DEF WakeInit, Typed
<1> QED
  BY <1>2, <1>3 DEF WakeInit, WakeIInv, BatchesWithin, RunningIsKept, OneBatchAtATime,
     EnabledAtFirst, WakesReachARunner, IntervalIsRearmed, HeartbeatsRecur

(***************************************************************************)
(* Steps that leave the batches alone: what must hold of them.             *)
(***************************************************************************)
LEMMA QuietStep ==
  ASSUME WakeIInv, UNCHANGED batches, Typed',
         runners' \in Nat, runners <= runners',
         wakeCauses \subseteq wakeCauses',
         "replaced" \in wakeCauses' \/ Open = {} \/ running' = running,
         EnabledAtFirst',
         pendingWakes \subseteq pendingWakes',
         owed' \subseteq owed \cup pendingWakes',
         \/ "disabled" \in wakeCauses'
         \/ handler' = NoHandler
         \/ handler' \in armed'
         \/ Untargeted \in pendingWakes'
         \/ handler' = handler /\ (handler \in armed => handler \in armed')
  PROVE  WakeIInv'
<1>1. Open' = Open
  BY DEF Open
<1>2. BatchesWithin'
  BY <1>1 DEF WakeIInv, BatchesWithin, Typed
<1>3. RunningIsKept'
  BY <1>1 DEF WakeIInv, RunningIsKept, OneBatchAtATime
<1>4. WakesReachARunner'
  BY <1>1 DEF WakeIInv, WakesReachARunner
<1>5. IntervalIsRearmed'
  <2> SUFFICES ASSUME "disabled" \notin wakeCauses', handler' # NoHandler,
                      handler' \notin armed', Untargeted \notin pendingWakes'
               PROVE  \E b \in Open' : batches'[b].by = handler' /\
                        Untargeted \in {batches'[b].current} \cup batches'[b].rest
    BY DEF IntervalIsRearmed, HeartbeatsRecur
  <2>1. handler' = handler /\ handler \notin armed /\ Untargeted \notin pendingWakes
        /\ "disabled" \notin wakeCauses
    OBVIOUS
  <2>2. heartbeatsEnabled
    BY <2>1 DEF WakeIInv, EnabledAtFirst
  <2> QED
    BY <1>1, <2>1, <2>2 DEF WakeIInv, IntervalIsRearmed, HeartbeatsRecur
<1> QED
  BY <1>2, <1>3, <1>4, <1>5 DEF WakeIInv

LEMMA RequestStep ==
  ASSUME WakeIInv, NEW t \in Targets, NEW d \in Nat, RequestHeartbeatNow(t, d),
         armed' \subseteq armed, t = Untargeted \/ armed' = armed
  PROVE  WakeIInv'
<1>1. GoodTimer(wakeTimer')
  BY ScheduleGood DEF RequestHeartbeatNow, WakeIInv, Typed, GoodTimer
<1>2. Typed'
  BY <1>1 DEF RequestHeartbeatNow, WakeIInv, Typed, GoodTimer
<1>3. EnabledAtFirst'
  BY DEF RequestHeartbeatNow, WakeIInv, EnabledAtFirst
<1>4. runners \in Nat
  BY DEF WakeIInv, Typed
<1> QED
  BY <1>2, <1>3, <1>4, QuietStep DEF RequestHeartbeatNow

(***************************************************************************)
(* A batch begins: it takes all pending wakes, so what was pending is in   *)
(* its rest or called.                                                     *)
(***************************************************************************)
LEMMA BeginStep ==
  ASSUME WakeIInv, NEW b \in Slots, BeginBatch(b)
  PROVE  WakeIInv'
<1> USE DEF WakeIInv
<1>1. /\ wakeTimer' = NoWakeTimer /\ scheduled' = FALSE /\ pendingWakes' = {}
      /\ handler # NoHandler /\ ~running /\ batches[b] = NoBatch
      /\ UNCHANGED <<handler, runners, stopped, armed, heartbeatsEnabled, wakeCauses>>
  BY DEF BeginBatch, BatchMayBegin
<1>2. b \notin Open
  BY <1>1, NoBatchRecord DEF Open
<1>3. EnabledAtFirst'
  BY <1>1 DEF EnabledAtFirst
<1>4. CASE ~(heartbeatsEnabled /\ pendingWakes # {})
  <2>1. owed' = owed \ pendingWakes /\ UNCHANGED <<batches, running>>
    BY <1>4 DEF BeginBatch
  <2>2. Typed'
    <3>1. {running, scheduled, heartbeatsEnabled}' \subseteq BOOLEAN
      BY <1>1, <2>1 DEF Typed
    <3> QED
      BY <1>1, <2>1, <3>1, TimerRecords DEF Typed
  <2>3. Open' = Open
    BY <2>1 DEF Open
  <2>4. BatchesWithin' /\ RunningIsKept'
    BY <1>1, <2>1, <2>3 DEF BatchesWithin, RunningIsKept, OneBatchAtATime
  <2>5. WakesReachARunner'
    BY <1>1, <2>1, <2>3 DEF WakesReachARunner
  <2>6. IntervalIsRearmed'
    <3> SUFFICES ASSUME "disabled" \notin wakeCauses
                 PROVE  HeartbeatsRecur'
      BY <1>1 DEF IntervalIsRearmed
    <3>1. pendingWakes = {}
      BY <1>4 DEF EnabledAtFirst
    <3> QED
      BY <1>1, <2>1, <2>3, <3>1 DEF IntervalIsRearmed, HeartbeatsRecur
  <2> QED
    BY <1>3, <2>2, <2>4, <2>5, <2>6
<1>5. ASSUME heartbeatsEnabled, NEW t \in pendingWakes, NEW r,
             r = [by |-> handler, all |-> pendingWakes, current |-> t,
                  rest |-> pendingWakes \ {t}, delay |-> wakeTimer.delay],
             batches' = [batches EXCEPT ![b] = r],
             running' = TRUE, owed' = owed \ {t}
      PROVE  WakeIInv'
  <2>1. r \in Batches /\ r.by = handler /\ r.rest = pendingWakes \ {t} /\ r.current = t
        /\ r.all = pendingWakes
    BY <1>5, <1>1 DEF Typed, Batches, NoHandler
  <2>2. /\ batches' \in [Slots -> Batches]
        /\ batches'[b] = r
        /\ \A c \in Slots \ {b} : batches'[c] = batches[c]
    BY <1>5, <2>1 DEF Typed
  <2>3. Open' = Open \cup {b}
    BY <1>1, <2>1, <2>2 DEF Open
  <2>4. Typed'
    <3>1. {running, scheduled, heartbeatsEnabled}' \subseteq BOOLEAN
      BY <1>1, <1>5 DEF Typed
    <3> QED
      BY <1>1, <1>5, <2>2, <3>1, TimerRecords DEF Typed
  <2>5. BatchesWithin'
    <3>1. \A c \in Open : c \in Slots
      BY DEF Open
    <3> QED
      BY <1>1, <1>2, <2>1, <2>2, <2>3, <3>1 DEF BatchesWithin, Typed, NoHandler
  <2>6. RunningIsKept'
    BY <1>1, <1>5, <2>3 DEF RunningIsKept, OneBatchAtATime
  <2>7. WakesReachARunner'
    <3> SUFFICES ASSUME NEW u \in owed, u # t
                 PROVE  \E c \in Open' : u \in batches'[c].rest
      BY <1>5 DEF WakesReachARunner
    <3>1. CASE u \in pendingWakes
      BY <2>1, <2>2, <2>3, <3>1
    <3>2. CASE u \notin pendingWakes
      <4>1. PICK c \in Open : u \in batches[c].rest
        BY <3>2 DEF WakesReachARunner
      <4> QED
        BY <1>2, <2>2, <2>3, <4>1 DEF Open
    <3> QED
      BY <3>1, <3>2
  <2>8. IntervalIsRearmed'
    <3> SUFFICES ASSUME "disabled" \notin wakeCauses, handler \notin armed
                 PROVE  \E c \in Open' : batches'[c].by = handler /\
                          Untargeted \in {batches'[c].current} \cup batches'[c].rest
      BY <1>1 DEF IntervalIsRearmed, HeartbeatsRecur
    <3>1. CASE Untargeted \in pendingWakes
      BY <2>1, <2>2, <2>3, <3>1
    <3>2. CASE Untargeted \notin pendingWakes
      <4>1. PICK c \in Open : batches[c].by = handler /\
                   Untargeted \in {batches[c].current} \cup batches[c].rest
        BY <1>1, <1>5, <3>2 DEF IntervalIsRearmed, HeartbeatsRecur
      <4> QED
        BY <1>2, <2>2, <2>3, <4>1 DEF Open
    <3> QED
      BY <3>1, <3>2
  <2> QED
    BY <1>3, <2>4, <2>5, <2>6, <2>7, <2>8
<1> QED
  BY <1>4, <1>5 DEF BeginBatch

(***************************************************************************)
(* The timer after an answer, and after the end of a batch.                *)
(***************************************************************************)
LEMMA TimerAfterCall ==
  ASSUME WakeIInv, NEW b \in Slots, NEW outcome \in Outcomes, CallEnds(b, outcome)
  PROVE  GoodTimer(wakeTimer')
<1> DEFINE tm == IF outcome = "done" THEN wakeTimer
                 ELSE Schedule(wakeTimer, RetryDelay, "retry")
<1>1. GoodTimer(wakeTimer)
  BY DEF WakeIInv, Typed, GoodTimer
<1>2. GoodTimer(tm)
  BY <1>1, ScheduleGood, WakeAssumption DEF WakeAssumption
<1>3. batches[b].delay \in Nat
  BY DEF WakeIInv, Typed, Batches
<1>4. GoodTimer(Schedule(tm, batches[b].delay, "normal"))
  BY <1>2, <1>3, ScheduleGood
<1>5. wakeTimer' = tm \/ wakeTimer' = Schedule(tm, batches[b].delay, "normal")
  BY Zenon DEF CallEnds, NextCall, Finally
<1> HIDE DEF tm
<1> QED
  BY <1>2, <1>4, <1>5

(***************************************************************************)
(* A call ends: the batch goes on with the next call, or it is over.       *)
(***************************************************************************)
LEMMA CallStep ==
  ASSUME WakeIInv, NEW b \in Slots, NEW outcome \in Outcomes, CallEnds(b, outcome)
  PROVE  WakeIInv'
<1> USE DEF WakeIInv
<1> DEFINE c == batches[b]
           again == CASE outcome = "done" -> {}
                      [] outcome = "busy" -> {c.current}
                      [] outcome = "throws" -> c.all
<1>1. /\ b \in Open /\ c \in Batches /\ c.by # NoHandler
      /\ c.rest \cup {c.current} \subseteq c.all
  BY DEF CallEnds, Open, Typed, BatchesWithin
<1>2. /\ pendingWakes' = pendingWakes \cup again
      /\ owed' = (owed \cup again) \ (Answered(b, c, outcome) \ pendingWakes')
      /\ UNCHANGED <<handler, scheduled, runners, stopped, heartbeatsEnabled, wakeCauses>>
  BY Zenon DEF CallEnds
<1>3. ScheduleNext(c, outcome)
  BY Zenon DEF CallEnds
<1>4. /\ again \subseteq c.all /\ again \subseteq Targets
      /\ outcome = "throws" => again = c.all
      /\ outcome = "busy" => c.current \in again
  BY <1>1 DEF Outcomes, Batches
<1>5. pendingWakes' \subseteq Targets /\ owed' \subseteq Targets
  BY <1>2, <1>4 DEF Typed
<1>6. armed \subseteq armed' /\ armed' \subseteq 1 .. runners' \ stopped'
  BY <1>1, <1>2, <1>3 DEF ScheduleNext, Typed, BatchesWithin
<1>7. Untargeted \in pendingWakes' \/ c.by \in armed' \/ c.by # handler
  BY <1>1, <1>2, <1>3, <1>4 DEF ScheduleNext, Typed
<1>8. EnabledAtFirst'
  BY <1>2 DEF EnabledAtFirst
<1> HIDE DEF again
<1>9. ASSUME batches' \in [Slots -> Batches],
             \A d \in Slots \ {b} : batches'[d] = batches[d],
             batches'[b].by # NoHandler =>
               /\ batches'[b].by = c.by /\ running' = running
               /\ batches'[b].all = c.all
               /\ batches'[b].rest \cup {batches'[b].current} \subseteq batches'[b].all,
             batches'[b].by = NoHandler => running' = FALSE,
             NEW gone, owed' = (owed \cup again) \ (gone \ pendingWakes'),
             c.rest \subseteq pendingWakes' \cup gone
               \/ (batches'[b].by # NoHandler /\ c.rest \subseteq batches'[b].rest \cup gone)
      PROVE  WakeIInv'
  <2>1. /\ \A d \in Open : d \in Slots
        /\ Open' = IF batches'[b].by # NoHandler THEN Open ELSE Open \ {b}
    BY <1>1, <1>9 DEF Open
  <2>2. Typed'
    <3>1. GoodTimer(wakeTimer')
      BY TimerAfterCall
    <3>2. {running, scheduled, heartbeatsEnabled}' \subseteq BOOLEAN
      BY <1>2, <1>9 DEF Typed
    <3> QED
      BY <1>2, <1>5, <1>6, <1>9, <3>1, <3>2 DEF Typed, GoodTimer
  <2>3. BatchesWithin'
    BY <1>1, <1>2, <1>9, <2>1 DEF BatchesWithin
  <2>4. RunningIsKept'
    BY <1>1, <1>2, <1>9, <2>1 DEF RunningIsKept, OneBatchAtATime
  <2>5. WakesReachARunner'
    <3> SUFFICES ASSUME NEW u \in owed', u \notin pendingWakes'
                 PROVE  \E d \in Open' : u \in batches'[d].rest
      BY DEF WakesReachARunner
    <3>1. u \in owed /\ u \notin pendingWakes /\ u \notin gone
      BY <1>2, <1>9
    <3>2. PICK d \in Open : u \in batches[d].rest
      BY <3>1 DEF WakesReachARunner
    <3>3. CASE d = b
      BY <1>1, <1>9, <2>1, <3>1, <3>2, <3>3
    <3>4. CASE d # b
      BY <1>9, <2>1, <3>2, <3>4
    <3> QED
      BY <3>3, <3>4
  <2>6. IntervalIsRearmed'
    <3> SUFFICES ASSUME "disabled" \notin wakeCauses, handler # NoHandler,
                        handler \notin armed', Untargeted \notin pendingWakes'
                 PROVE  \E d \in Open' : batches'[d].by = handler /\
                          Untargeted \in {batches'[d].current} \cup batches'[d].rest
      BY <1>2 DEF IntervalIsRearmed, HeartbeatsRecur
    <3>1. PICK d \in Open : batches[d].by = handler /\
                 Untargeted \in {batches[d].current} \cup batches[d].rest
      BY <1>2, <1>6 DEF IntervalIsRearmed, HeartbeatsRecur, EnabledAtFirst
    <3>2. d # b
      BY <1>7, <3>1
    <3> QED
      BY <1>9, <2>1, <3>1, <3>2
  <2> QED
    BY <1>8, <2>2, <2>3, <2>4, <2>5, <2>6
<1>10. CASE batches' = [batches EXCEPT ![b] = NoBatch] /\ running' = FALSE
  <2>1. Answered(b, c, outcome) = IF outcome = "throws" THEN {} ELSE c.rest
    BY <1>1, <1>10 DEF Answered, Typed
  <2>2. c.rest \subseteq pendingWakes' \cup Answered(b, c, outcome)
    BY <1>1, <1>2, <1>4, <2>1
  <2> QED
    BY <1>2, <1>9, <1>10, <2>2, NoBatchRecord DEF Typed
<1>11. ASSUME NEW t \in c.rest,
              batches' = [batches EXCEPT ![b].current = t, ![b].rest = @ \ {t}],
              UNCHANGED running
       PROVE  WakeIInv'
  <2>1. /\ batches' \in [Slots -> Batches]
        /\ \A d \in Slots \ {b} : batches'[d] = batches[d]
        /\ batches'[b].by = c.by /\ batches'[b].all = c.all
        /\ batches'[b].current = t /\ batches'[b].rest = c.rest \ {t}
    BY <1>1, <1>11 DEF Typed, Batches
  <2>2. batches'[b] # NoBatch
    BY <1>1, <2>1, NoBatchRecord
  <2>3. Answered(b, c, outcome) = {t}
    BY <2>1, <2>2 DEF Answered
  <2> QED
    BY <1>1, <1>2, <1>9, <1>11, <2>1, <2>3
<1> QED
  <2>1. \/ batches' = [batches EXCEPT ![b] = NoBatch] /\ running' = FALSE
        \/ \E t \in c.rest :
             /\ batches' = [batches EXCEPT ![b].current = t, ![b].rest = @ \ {t}]
             /\ UNCHANGED running
    BY Zenon DEF CallEnds, NextCall, Finally
  <2> QED
    BY <1>10, <1>11, <2>1
-----------------------------------------------------------------------------
LEMMA WakeStep == WakeIInv /\ [WakeNext]_wakeVars => WakeIInv'
<1> SUFFICES ASSUME WakeIInv, [WakeNext]_wakeVars PROVE WakeIInv'
  OBVIOUS
<1>0. Typed /\ EnabledAtFirst /\ runners \in Nat
  BY DEF WakeIInv, Typed
<1>1. ASSUME NEW t \in Targets, NEW d \in CoalesceDelays, Request(t, d) PROVE WakeIInv'
  BY <1>1, RequestStep, WakeAssumption DEF Request, WakeAssumption
<1>2. ASSUME NEW g \in 1 .. runners, IntervalDue(g) PROVE WakeIInv'
  BY <1>2, RequestStep, WakeAssumption DEF IntervalDue, WakeAssumption
<1>3. ASSUME NEW g \in 1 .. runners, StopRunner(g) PROVE WakeIInv'
  <2>1. Typed'
    BY <1>0, <1>3 DEF StopRunner, Typed
  <2> QED
    BY <1>0, <1>3, <2>1, QuietStep DEF StopRunner, EnabledAtFirst
<1>4. ASSUME NEW g \in 1 .. runners, UpdateConfig(g) PROVE WakeIInv'
  <2>1. Typed'
    BY <1>0, <1>4 DEF UpdateConfig, Typed
  <2> QED
    BY <1>0, <1>4, <2>1, QuietStep DEF UpdateConfig, EnabledAtFirst
<1>5. CASE TimerFiresWithoutHandler
  <2>1. {running, scheduled, heartbeatsEnabled}' \subseteq BOOLEAN
    BY <1>0, <1>5 DEF TimerFiresWithoutHandler, Typed
  <2>2. Typed'
    BY <1>0, <1>5, <2>1, TimerRecords DEF TimerFiresWithoutHandler, Typed
  <2> QED
    BY <1>0, <1>5, <2>2, QuietStep DEF TimerFiresWithoutHandler, EnabledAtFirst
<1>6. CASE TimerFiresWhileRunning
  <2>1. {running, scheduled, heartbeatsEnabled}' \subseteq BOOLEAN
    BY <1>0, <1>6 DEF TimerFiresWhileRunning, Typed
  <2>2. Typed'
    BY <1>0, <1>6, <2>1 DEF TimerFiresWhileRunning, Typed
  <2> QED
    BY <1>0, <1>6, <2>2, QuietStep DEF TimerFiresWhileRunning, EnabledAtFirst
<1>7. ASSUME NEW b \in Slots, BeginBatch(b) PROVE WakeIInv'
  BY <1>7, BeginStep
<1>8. ASSUME NEW b \in Slots, NEW outcome \in Outcomes, CallEnds(b, outcome)
      PROVE  WakeIInv'
  BY <1>8, CallStep
<1>9. CASE StartRunner
  <2>1. {running, scheduled, heartbeatsEnabled}' \subseteq BOOLEAN
    BY <1>0, <1>9 DEF StartRunner, Typed
  <2>2. GoodTimer(wakeTimer')
    <3>1. GoodTimer(NoWakeTimer)
      BY TimerRecords DEF GoodTimer
    <3> QED
      BY <1>9, <3>1, ScheduleGood, WakeAssumption
      DEF StartRunner, TimerOfNewHandler, WakeAssumption
  <2>3. Typed'
    BY <1>0, <1>9, <2>1, <2>2 DEF StartRunner, Typed, GoodTimer
  <2> QED
    BY <1>0, <1>9, <2>3, QuietStep DEF StartRunner, EnabledAtFirst
<1>10. CASE SetHeartbeatsEnabled
  <2>1. {running, scheduled, heartbeatsEnabled}' \subseteq BOOLEAN
    BY <1>0, <1>10 DEF SetHeartbeatsEnabled, Typed
  <2>2. Typed'
    BY <1>0, <1>10, <2>1 DEF SetHeartbeatsEnabled, Typed
  <2> QED
    BY <1>0, <1>10, <2>2, QuietStep DEF SetHeartbeatsEnabled, EnabledAtFirst
<1>11. CASE WakeTick
  <2>1. Typed'
    BY <1>0, <1>11, TimerRecords DEF WakeTick, Typed
  <2> QED
    BY <1>0, <1>11, <2>1, QuietStep DEF WakeTick, EnabledAtFirst
<1>12. CASE UNCHANGED wakeVars
  <2>1. Typed'
    BY <1>0, <1>12 DEF wakeVars, Typed
  <2> QED
    BY <1>0, <1>12, <2>1, QuietStep DEF wakeVars, EnabledAtFirst
<1> QED
  BY <1>1, <1>2, <1>3, <1>4, <1>5, <1>6, <1>7, <1>8, <1>9, <1>10, <1>11, <1>12
  DEF WakeNext, AnyTimerFires

(***************************************************************************)
(* The invariant behind the theorems below.                                *)
(***************************************************************************)
THEOREM WakeInvariant == WakeSpec => []WakeIInv
BY WakeInitial, WakeStep, PTL DEF WakeSpec

LEMMA WakeTypes == WakeIInv => WakeTypeOK
<1> SUFFICES ASSUME WakeIInv PROVE WakeTypeOK
  OBVIOUS
<1>1. Typed /\ BatchesWithin
  BY DEF WakeIInv
<1>2. \A b \in Open : batches[b].all \subseteq Targets
  BY <1>1 DEF Typed, Batches, Open
<1>3. wakeTimer = NoWakeTimer \/ (wakeTimer.kind \in {"normal", "retry"}
                                 /\ wakeTimer.left \in 0 .. wakeTimer.delay)
  BY <1>1 DEF Typed
<1> QED
  BY <1>1, <1>2, <1>3 DEF WakeTypeOK, Typed, BatchesWithin

(***************************************************************************)
(* Type correctness of the heartbeat wake.                                 *)
(***************************************************************************)
THEOREM WakeTypeCorrect == WakeSpec => []WakeTypeOK
BY WakeTypes, WakeInvariant, PTL

(***************************************************************************)
(* Whatever targets are busy and calls fail, no second batch begins while  *)
(* calls of the first are awaited, unless a new runner was registered.     *)
(***************************************************************************)
THEOREM BatchesOneByOne == WakeSpec => []OneBatchAtATime
<1>1. WakeIInv => OneBatchAtATime
  BY DEF WakeIInv, RunningIsKept, OneBatchAtATime
<1> QED
  BY <1>1, WakeInvariant, PTL

(***************************************************************************)
(* No wake is forgotten, across failures, busy targets and new runners.    *)
(***************************************************************************)
THEOREM NoWakeForgotten == WakeSpec => []WakesReachARunner
<1>1. WakeIInv => WakesReachARunner
  BY DEF WakeIInv
<1> QED
  BY <1>1, WakeInvariant, PTL

(***************************************************************************)
(* Until heartbeats are first disabled, the interval of the current runner *)
(* is armed, or a wake is on its way that will arm it.                     *)
(***************************************************************************)
THEOREM IntervalStaysArmed == WakeSpec => []IntervalIsRearmed
<1>1. WakeIInv => IntervalIsRearmed
  BY DEF WakeIInv
<1> QED
  BY <1>1, WakeInvariant, PTL
-----------------------------------------------------------------------------
AllRuns == planned \cup doing \cup done
UsesOf(j) == {r \in AllRuns : r[2] = j}

(***************************************************************************)
(* What is said of a job's record r, in memory and in the file alike:      *)
(* used tells whether a run uses the job, exempt whether it was disabled   *)
(* while one did, and lost whether a marker may have no owner.             *)
(***************************************************************************)
RecordOk(r, used, exempt, lost) ==
  /\ r.skipped # "never"
  /\ r.stored = "never" => ~r.marked
  /\ r.stored = "yes" /\ used /\ ~exempt => r.marked /\ r.enabled
  /\ r.stored = "yes" /\ r.marked /\ ~lost => used

Lost(j) == j \in orphaned \/ startStage = "down"

StoreOk(f) ==
  /\ f \in [CronJobs -> Job]
  /\ \A j \in CronJobs : RecordOk(f[j], UsesOf(j) # {}, j \in unmarked, Lost(j))

(***************************************************************************)
(* A job has one use, unless it is exempt; its marker grows old only when  *)
(* it has none; and a marker in the file of a job that memory has lost,    *)
(* and that no result will clear, is accounted for.                        *)
(***************************************************************************)
JobOk(j) ==
  /\ j \notin unmarked => \A r, s \in UsesOf(j) : r = s
  /\ j \in stuck => UsesOf(j) = {}
  /\ j \in MarkedIn(onDisk) /\ jobs[j].stored # "yes" => Lost(j)

(***************************************************************************)
(* A service that is down has nothing in progress.                         *)
(***************************************************************************)
DownIsIdle ==
  startStage = "down" =>
    AllRuns = {} /\ manual = {} /\ ~timerArmed /\ ~ticking /\ unmarked = {}

(***************************************************************************)
(* Each kind of run has one batch at a time.                               *)
(***************************************************************************)
OneBatchOfAKind ==
  /\ planned \cap doing = {}
  /\ \A r \in planned \cup (doing \cap done) : r[1] # "manual"
  /\ Runs("tick") # {} => ticking
  /\ Runs("catchup") # {} => startStage = "catchup"
  /\ \A r, s \in AllRuns : r[1] = "manual" /\ s[1] = "manual" => r = s
  /\ \A i, j \in manual : i = j
  /\ manual # {} => \A r \in AllRuns : r[1] # "manual"

CronIInv ==
  /\ CronTypeOK
  /\ DownIsIdle
  /\ OneBatchOfAKind
  /\ StoreOk(jobs)
  /\ StoreOk(onDisk)
  /\ \A j \in CronJobs : JobOk(j)
-----------------------------------------------------------------------------
(***************************************************************************)
(* What the operators on a store leave alone: the recomputations change    *)
(* no job's stored and enabled, and clear the marker of a disabled job or  *)
(* one that is stuck; a result clears the marker of its job.               *)
(***************************************************************************)
SlotsKept(f) == \A j \in CronJobs : f[j].skipped # "never"

OnlyRecomputed(f, g) ==
  \A j \in CronJobs :
    /\ g[j].stored = f[j].stored /\ g[j].enabled = f[j].enabled
    /\ g[j].marked = (f[j].marked /\ f[j].enabled /\ j \notin stuck)

LEMMA NormalizedJob ==
  ASSUME NEW j \in CronJobs, NEW r \in Job
  PROVE  /\ Normalized(j, r) \in Job
         /\ Normalized(j, r).stored = r.stored /\ Normalized(j, r).enabled = r.enabled
         /\ Normalized(j, r).marked = (r.marked /\ r.enabled /\ j \notin stuck)
         /\ Normalized(j, r).skipped = r.skipped
<1> DEFINE m == r.marked /\ j \notin stuck
<1>1. m \in BOOLEAN
  BY DEF Job
<1>2. Normalized(j, r) = IF r.enabled THEN [r EXCEPT !.marked = m]
                         ELSE [r EXCEPT !.next = "none", !.marked = FALSE]
  BY DEF Normalized, Job
<1>3. m = (r.marked /\ j \notin stuck)
  OBVIOUS
<1> HIDE DEF m
<1>4. CASE r.enabled
  <2>1. Normalized(j, r) = [r EXCEPT !.marked = m]
    BY <1>2, <1>4
  <2> QED
    BY <1>1, <1>3, <1>4, <2>1 DEF Job
<1>5. CASE ~r.enabled
  <2>1. Normalized(j, r) = [r EXCEPT !.next = "none", !.marked = FALSE]
    BY <1>2, <1>5
  <2> QED
    BY <1>5, <2>1 DEF Job
<1> QED
  BY <1>4, <1>5

LEMMA RecomputedJob ==
  ASSUME NEW j \in CronJobs, NEW r \in Job, NEW by \in {"maybe", "never"}
  PROVE  /\ Recomputed(j, r, by) \in Job
         /\ Recomputed(j, r, by).stored = r.stored
         /\ Recomputed(j, r, by).enabled = r.enabled
         /\ Recomputed(j, r, by).marked = r.marked
         /\ \/ Recomputed(j, r, by).skipped = r.skipped
            \/ r.next = "due" /\ Recomputed(j, r, by).skipped = by
BY DEF Recomputed, Next1, Job

LEMMA Maintained ==
  ASSUME NEW f \in [CronJobs -> Job], SlotsKept(f)
  PROVE  LET g == RecomputeNextRunsForMaintenance(f)
         IN g \in [CronJobs -> Job] /\ SlotsKept(g) /\ OnlyRecomputed(f, g)
<1> DEFINE g == RecomputeNextRunsForMaintenance(f)
           N(j) == Normalized(j, f[j])
           R(j) == Recomputed(j, N(j), "never")
<1>1. \A j \in CronJobs : g[j] = IF N(j).enabled /\ N(j).next = "none" THEN R(j) ELSE N(j)
  BY DEF RecomputeNextRunsForMaintenance
<1>2. ASSUME NEW j \in CronJobs
      PROVE  /\ N(j) \in Job /\ N(j).stored = f[j].stored /\ N(j).enabled = f[j].enabled
             /\ N(j).marked = (f[j].marked /\ f[j].enabled /\ j \notin stuck)
             /\ N(j).skipped = f[j].skipped
  BY NormalizedJob
<1>3. ASSUME NEW j \in CronJobs
      PROVE  /\ R(j) \in Job /\ R(j).stored = N(j).stored /\ R(j).enabled = N(j).enabled
             /\ R(j).marked = N(j).marked
             /\ N(j).next = "none" => R(j).skipped = N(j).skipped
  BY <1>2, RecomputedJob
<1>4. ASSUME NEW j \in CronJobs
      PROVE  /\ g[j] \in Job /\ g[j].stored = f[j].stored /\ g[j].enabled = f[j].enabled
             /\ g[j].marked = (f[j].marked /\ f[j].enabled /\ j \notin stuck)
             /\ g[j].skipped = f[j].skipped
  <2> HIDE DEF g, N, R
  <2>1. CASE N(j).enabled /\ N(j).next = "none"
    <3>1. g[j] = R(j)
      BY <1>1, <2>1
    <3> QED
      BY <3>1, <1>2, <1>3, <2>1
  <2>2. CASE ~(N(j).enabled /\ N(j).next = "none")
    <3>1. g[j] = N(j)
      BY <1>1, <2>2
    <3> QED
      BY <3>1, <1>2
  <2> QED
    BY <2>1, <2>2
<1>5. g \in [CronJobs -> Job]
  <2>1. \A j \in CronJobs : g[j] \in Job
    BY <1>4
  <2>2. g = [j \in CronJobs |-> g[j]]
    BY DEF RecomputeNextRunsForMaintenance
  <2> HIDE DEF g
  <2> QED
    BY <2>1, <2>2
<1> HIDE DEF g
<1>6. SlotsKept(g) /\ OnlyRecomputed(f, g)
  BY <1>4 DEF SlotsKept, OnlyRecomputed
<1> QED
  BY <1>5, <1>6 DEF g

LEMMA MaybeMoved ==
  ASSUME NEW f \in [CronJobs -> Job], SlotsKept(f)
  PROVE  LET g == RecomputeNextRuns(f, "maybe")
         IN g \in [CronJobs -> Job] /\ SlotsKept(g) /\ OnlyRecomputed(f, g)
<1> DEFINE g == RecomputeNextRuns(f, "maybe")
           N(j) == Normalized(j, f[j])
           R(j) == Recomputed(j, N(j), "maybe")
<1>1. \A j \in CronJobs : g[j] = IF N(j).enabled /\ N(j).next # "later" THEN R(j) ELSE N(j)
  BY DEF RecomputeNextRuns
<1>2. ASSUME NEW j \in CronJobs
      PROVE  /\ N(j) \in Job /\ N(j).stored = f[j].stored /\ N(j).enabled = f[j].enabled
             /\ N(j).marked = (f[j].marked /\ f[j].enabled /\ j \notin stuck)
             /\ N(j).skipped = f[j].skipped
  BY NormalizedJob
<1>3. ASSUME NEW j \in CronJobs
      PROVE  /\ R(j) \in Job /\ R(j).stored = N(j).stored /\ R(j).enabled = N(j).enabled
             /\ R(j).marked = N(j).marked
             /\ R(j).skipped \in {N(j).skipped, "maybe"}
  BY <1>2, RecomputedJob
<1>4. ASSUME NEW j \in CronJobs
      PROVE  /\ g[j] \in Job /\ g[j].stored = f[j].stored /\ g[j].enabled = f[j].enabled
             /\ g[j].marked = (f[j].marked /\ f[j].enabled /\ j \notin stuck)
             /\ g[j].skipped \in {f[j].skipped, "maybe"}
  <2> HIDE DEF g, N, R
  <2>1. CASE N(j).enabled /\ N(j).next # "later"
    <3>1. g[j] = R(j)
      BY <1>1, <2>1
    <3> QED
      BY <3>1, <1>2, <1>3
  <2>2. CASE ~(N(j).enabled /\ N(j).next # "later")
    <3>1. g[j] = N(j)
      BY <1>1, <2>2
    <3> QED
      BY <3>1, <1>2
  <2> QED
    BY <2>1, <2>2
<1>5. g \in [CronJobs -> Job]
  <2>1. \A j \in CronJobs : g[j] \in Job
    BY <1>4
  <2>2. g = [j \in CronJobs |-> g[j]]
    BY DEF RecomputeNextRuns
  <2> HIDE DEF g
  <2> QED
    BY <2>1, <2>2
<1> HIDE DEF g
<1>6. SlotsKept(g) /\ OnlyRecomputed(f, g)
  BY <1>4 DEF SlotsKept, OnlyRecomputed
<1> QED
  BY <1>5, <1>6 DEF g

LEMMA AppliedResult ==
  ASSUME NEW j \in CronJobs, NEW r \in Job, r.stored = "yes", NEW status \in Statuses
  PROVE  LET a == ApplyJobResult(j, r, status)
         IN /\ a \in Job /\ a.stored \in {"yes", "removed"}
            /\ ~a.marked /\ a.skipped = "no"
<1> DEFINE s == [r EXCEPT !.marked = FALSE, !.ran = TRUE, !.skipped = "no"]
           a == ApplyJobResult(j, r, status)
<1>1. s \in Job /\ s.stored = "yes" /\ ~s.marked /\ s.skipped = "no"
  BY DEF Job
<1>2. \/ a = [s EXCEPT !.next = IF r.enabled THEN "later" ELSE "none"]
      \/ a = [s EXCEPT !.stored = "removed", !.next = "none", !.marked = FALSE]
      \/ a = [s EXCEPT !.next = "later"]
      \/ a = [s EXCEPT !.enabled = FALSE, !.next = "none"]
  BY Zenon DEF ApplyJobResult, Removed
<1> HIDE DEF s, a
<1>3. a \in Job /\ a.stored \in {"yes", "removed"} /\ ~a.marked /\ a.skipped = "no"
  BY <1>1, <1>2 DEF Job
<1> QED
  BY <1>3 DEF a
-----------------------------------------------------------------------------
LEMMA UsedIsInUse == ASSUME NEW j PROVE InUse(j) <=> UsesOf(j) # {}
BY DEF InUse, UsesOf, AllRuns

LEMMA ArmIsBoolean == \A f : ArmTimer(f) \in BOOLEAN
BY DEF ArmTimer

LEMMA SlotsOf ==
  ASSUME NEW f, StoreOk(f)
  PROVE  f \in [CronJobs -> Job] /\ SlotsKept(f) /\ \A j \in CronJobs : f[j] \in Job
BY DEF StoreOk, SlotsKept, RecordOk

(***************************************************************************)
(* A record that keeps what the recomputations keep stays in order.        *)
(***************************************************************************)
LEMMA RecordKept ==
  ASSUME NEW r, NEW s, NEW used, NEW exempt, NEW lost, NEW old,
         RecordOk(r, used, exempt, lost), r.marked \in BOOLEAN, r.enabled \in BOOLEAN,
         s.stored = r.stored, s.enabled = r.enabled, s.skipped # "never",
         s.marked = (r.marked /\ r.enabled /\ ~old), old => ~used
  PROVE  RecordOk(s, used, exempt, lost)
BY DEF RecordOk

LEMMA StoreRecomputed ==
  ASSUME CronIInv, NEW f, NEW g \in [CronJobs -> Job], StoreOk(f), SlotsKept(g),
         OnlyRecomputed(f, g)
  PROVE  StoreOk(g)
<1>1. ASSUME NEW j \in CronJobs
      PROVE  RecordOk(g[j], UsesOf(j) # {}, j \in unmarked, Lost(j))
  <2>1. /\ RecordOk(f[j], UsesOf(j) # {}, j \in unmarked, Lost(j))
        /\ f[j] \in Job /\ (j \in stuck => UsesOf(j) = {})
    BY DEF StoreOk, CronIInv, JobOk
  <2>2. /\ f[j].marked \in BOOLEAN /\ f[j].enabled \in BOOLEAN
    BY <2>1 DEF Job
  <2>3. /\ g[j].stored = f[j].stored /\ g[j].enabled = f[j].enabled
        /\ g[j].marked = (f[j].marked /\ f[j].enabled /\ j \notin stuck)
        /\ g[j].skipped # "never"
    BY DEF OnlyRecomputed, SlotsKept
  <2> QED
    BY <2>1, <2>2, <2>3 DEF RecordOk
<1> QED
  BY <1>1 DEF StoreOk

LEMMA MaintainedStore ==
  ASSUME CronIInv, NEW f, StoreOk(f)
  PROVE  LET g == RecomputeNextRunsForMaintenance(f)
         IN StoreOk(g) /\ \A j \in CronJobs : g[j].stored = f[j].stored
<1>1. f \in [CronJobs -> Job] /\ SlotsKept(f)
  BY SlotsOf
<1> DEFINE g == RecomputeNextRunsForMaintenance(f)
<1>2. g \in [CronJobs -> Job] /\ SlotsKept(g) /\ OnlyRecomputed(f, g)
  BY <1>1, Maintained
<1> HIDE DEF g
<1>3. StoreOk(g) /\ \A j \in CronJobs : g[j].stored = f[j].stored
  BY <1>2, StoreRecomputed DEF OnlyRecomputed
<1> QED
  BY <1>3 DEF g

LEMMA MovedStore ==
  ASSUME CronIInv, NEW f, StoreOk(f)
  PROVE  LET g == RecomputeNextRuns(f, "maybe")
         IN StoreOk(g) /\ \A j \in CronJobs : g[j].stored = f[j].stored
<1>1. f \in [CronJobs -> Job] /\ SlotsKept(f)
  BY SlotsOf
<1> DEFINE g == RecomputeNextRuns(f, "maybe")
<1>2. g \in [CronJobs -> Job] /\ SlotsKept(g) /\ OnlyRecomputed(f, g)
  BY <1>1, MaybeMoved
<1> HIDE DEF g
<1>3. StoreOk(g) /\ \A j \in CronJobs : g[j].stored = f[j].stored
  BY <1>2, StoreRecomputed DEF OnlyRecomputed
<1> QED
  BY <1>3 DEF g
-----------------------------------------------------------------------------
(***************************************************************************)
(* Writing a store f whose records fit what is in use after the step.      *)
(***************************************************************************)
Fits(f, j) == RecordOk(f[j], UsesOf(j)' # {}, j \in unmarked', j \in orphaned)

LEMMA WrittenStores ==
  ASSUME NEW f \in [CronJobs -> Job], Writes(f), startStage' # "down",
         orphaned \subseteq CronJobs, stuck \subseteq CronJobs,
         \A j \in CronJobs : Fits(f, j),
         \A j \in CronJobs : j \notin unmarked' => \A r, s \in UsesOf(j)' : r = s
  PROVE  /\ StoreOk(jobs)' /\ StoreOk(onDisk)'
         /\ orphaned' \subseteq CronJobs /\ stuck' \subseteq CronJobs
         /\ \A j \in CronJobs : JobOk(j)'
<1>1. /\ jobs' = f /\ onDisk' = f
      /\ stuck' = {j \in stuck \cap MarkedIn(f) : ~InUse(j)'}
      /\ orphaned' = {j \in orphaned \cap MarkedIn(f) : ~InUse(j)'}
  BY DEF Writes
<1>2. \A j \in CronJobs : InUse(j)' <=> UsesOf(j)' # {}
  BY DEF InUse, UsesOf, AllRuns
<1>3. ASSUME NEW j \in CronJobs
      PROVE  RecordOk(f[j], UsesOf(j)' # {}, j \in unmarked', Lost(j)')
  <2>1. j \in orphaned' <=> j \in orphaned /\ f[j].stored = "yes" /\ f[j].marked
                            /\ UsesOf(j)' = {}
    BY <1>1, <1>2 DEF MarkedIn
  <2>2. Lost(j)' <=> j \in orphaned'
    BY DEF Lost
  <2>3. Fits(f, j)
    OBVIOUS
  <2> QED
    BY <2>1, <2>2, <2>3 DEF Fits, RecordOk
<1>4. ASSUME NEW j \in CronJobs PROVE JobOk(j)'
  <2>1. j \in stuck' => UsesOf(j)' = {}
    BY <1>1, <1>2
  <2>2. ~(j \in MarkedIn(onDisk)' /\ jobs'[j].stored # "yes")
    BY <1>1 DEF MarkedIn
  <2> QED
    BY <2>1, <2>2 DEF JobOk
<1> QED
  BY <1>1, <1>3, <1>4 DEF StoreOk

(***************************************************************************)
(* A write of f that fails. Memory must fit with what is lost, and so must *)
(* the file, as it was.                                                    *)
(***************************************************************************)
FitsLost(f, j, lost) ==
  RecordOk(f[j], UsesOf(j)' # {}, j \in unmarked', j \in orphaned \/ j \in lost)

LEMMA UnwrittenStores ==
  ASSUME NEW f \in [CronJobs -> Job], NEW lost \in SUBSET CronJobs, WriteFails(f, lost),
         startStage' # "down", orphaned \subseteq CronJobs, stuck \subseteq CronJobs,
         onDisk \in [CronJobs -> Job],
         \A j \in CronJobs : FitsLost(f, j, lost) /\ FitsLost(onDisk, j, lost),
         \A j \in CronJobs : j \notin unmarked' => \A r, s \in UsesOf(j)' : r = s,
         \A j \in stuck \ lost : UsesOf(j)' = {},
         \A j \in MarkedIn(onDisk) :
           f[j].stored # "yes" => j \in orphaned \/ j \in lost
  PROVE  /\ StoreOk(jobs)' /\ StoreOk(onDisk)'
         /\ orphaned' \subseteq CronJobs /\ stuck' \subseteq CronJobs
         /\ \A j \in CronJobs : JobOk(j)'
<1>1. /\ jobs' = f /\ onDisk' = onDisk /\ stuck' = stuck \ lost
      /\ orphaned' = orphaned \cup lost
  BY DEF WriteFails
<1>2. \A j \in CronJobs : Lost(j)' <=> j \in orphaned \/ j \in lost
  BY <1>1 DEF Lost
<1>3. ASSUME NEW j \in CronJobs
      PROVE  /\ RecordOk(f[j], UsesOf(j)' # {}, j \in unmarked', Lost(j)')
             /\ RecordOk(onDisk[j], UsesOf(j)' # {}, j \in unmarked', Lost(j)')
  BY <1>2 DEF FitsLost, RecordOk
<1>4. ASSUME NEW j \in CronJobs PROVE JobOk(j)'
  <2>1. j \in stuck' => UsesOf(j)' = {}
    BY <1>1
  <2>2. j \in MarkedIn(onDisk)' => j \in MarkedIn(onDisk)
    BY <1>1 DEF MarkedIn
  <2> QED
    BY <1>1, <1>2, <2>1, <2>2 DEF JobOk
<1> QED
  BY <1>1, <1>3, <1>4 DEF StoreOk

(***************************************************************************)
(* The two together, for a block of a service that is up: the write of f   *)
(* that fits, where a failure loses the owners that the step ends.         *)
(***************************************************************************)
LEMMA WrittenOrNot ==
  ASSUME CronIInv, NEW f \in [CronJobs -> Job], NEW lost \in SUBSET CronJobs,
         Writes(f) \/ WriteFails(f, lost), startStage # "down", startStage' # "down",
         \A j \in CronJobs :
           /\ Fits(f, j)
           /\ UsesOf(j)' \subseteq UsesOf(j)
           /\ UsesOf(j)' = UsesOf(j) \/ j \in lost
           /\ j \in unmarked' \/ j \notin unmarked \/ UsesOf(j)' = {}
           /\ f[j].stored # "yes" => \/ jobs[j].stored # "yes" \/ onDisk[j].stored # "yes"
                                     \/ UsesOf(j) = {} \/ j \in lost
  PROVE  /\ StoreOk(jobs)' /\ StoreOk(onDisk)'
         /\ orphaned' \subseteq CronJobs /\ stuck' \subseteq CronJobs
         /\ \A j \in CronJobs : JobOk(j)'
<1>1. /\ orphaned \subseteq CronJobs /\ stuck \subseteq CronJobs
      /\ onDisk \in [CronJobs -> Job] /\ \A j \in CronJobs : JobOk(j)
      /\ \A j \in CronJobs : RecordOk(onDisk[j], UsesOf(j) # {}, j \in unmarked, Lost(j))
  BY DEF CronIInv, CronTypeOK, StoreOk
<1>2. ASSUME NEW j \in CronJobs
      PROVE  j \notin unmarked' => \A r, s \in UsesOf(j)' : r = s
  <2>1. JobOk(j)
    BY <1>1
  <2> QED
    BY <2>1 DEF JobOk
<1>3. CASE Writes(f)
  BY <1>1, <1>2, <1>3, WrittenStores
<1>4. CASE WriteFails(f, lost)
  <2>1. ASSUME NEW j \in CronJobs PROVE FitsLost(f, j, lost) /\ FitsLost(onDisk, j, lost)
    <3>1. Fits(f, j) /\ (Lost(j) <=> j \in orphaned)
      BY DEF Lost
    <3>2. RecordOk(onDisk[j], UsesOf(j) # {}, j \in unmarked, Lost(j))
      BY <1>1
    <3>3. FitsLost(f, j, lost)
      BY <3>1 DEF Fits, FitsLost, RecordOk
    <3>4. /\ UsesOf(j)' # {} => UsesOf(j) # {}
          /\ UsesOf(j)' = {} => UsesOf(j) = {} \/ j \in lost
          /\ j \in unmarked => j \in unmarked' \/ UsesOf(j)' = {}
      OBVIOUS
    <3>5. FitsLost(onDisk, j, lost)
      BY <3>1, <3>2, <3>4 DEF FitsLost, RecordOk
    <3> QED
      BY <3>3, <3>5
  <2>2. \A j \in stuck \ lost : UsesOf(j)' = {}
    BY <1>1 DEF JobOk
  <2>3. ASSUME NEW j \in MarkedIn(onDisk), f[j].stored # "yes"
        PROVE  j \in orphaned \/ j \in lost
    <3>1. /\ j \in CronJobs /\ onDisk[j].stored = "yes" /\ onDisk[j].marked
          /\ (Lost(j) <=> j \in orphaned)
      BY <2>3 DEF MarkedIn, Lost
    <3>2. JobOk(j) /\ RecordOk(onDisk[j], UsesOf(j) # {}, j \in unmarked, Lost(j))
      BY <1>1, <3>1
    <3>3. jobs[j].stored # "yes" \/ UsesOf(j) = {} \/ j \in lost
      BY <2>3, <3>1
    <3> QED
      BY <2>3, <3>1, <3>2, <3>3 DEF JobOk, RecordOk
  <2> QED
    BY <1>1, <1>2, <1>4, <2>1, <2>2, <2>3, UnwrittenStores
<1> QED
  BY <1>3, <1>4

(***************************************************************************)
(* Blocks that change no use of any job.                                   *)
(***************************************************************************)
LEMMA WrittenTypes ==
  ASSUME CronIInv, NEW f \in [CronJobs -> Job], NEW lost \in SUBSET CronJobs,
         Persists(f) \/ PersistThrows(f, lost)
  PROVE  /\ Writes(f) \/ WriteFails(f, lost)
         /\ jobs' \in [CronJobs -> Job] /\ onDisk' \in [CronJobs -> Job]
         /\ changes' \in 0 .. MaxChanges
BY CronAssumption
   DEF Persists, PersistThrows, Change, Writes, WriteFails, CronIInv, CronTypeOK,
       CronAssumption

LEMMA KeptUses ==
  ASSUME CronIInv, UNCHANGED <<planned, doing, done, unmarked>>,
         startStage # "down", NEW f, StoreOk(f)
  PROVE  \A j \in CronJobs :
           /\ Fits(f, j)
           /\ UsesOf(j)' = UsesOf(j)
           /\ j \in unmarked' \/ j \notin unmarked \/ UsesOf(j)' = {}
<1>1. \A j \in CronJobs : UsesOf(j)' = UsesOf(j) /\ (Lost(j) <=> j \in orphaned)
  BY DEF UsesOf, AllRuns, Lost
<1> QED
  BY <1>1 DEF StoreOk, Fits, RecordOk

LEMMA RewrittenStore ==
  ASSUME CronIInv, NEW f, StoreOk(f), UNCHANGED <<planned, doing, done, unmarked>>,
         startStage # "down", startStage' # "down",
         \A j \in CronJobs : f[j].stored = jobs[j].stored \/ f[j].stored = onDisk[j].stored,
         NEW lost \in SUBSET CronJobs, Persists(f) \/ PersistThrows(f, lost)
  PROVE  /\ StoreOk(jobs)' /\ StoreOk(onDisk)' /\ \A j \in CronJobs : JobOk(j)'
         /\ orphaned' \subseteq CronJobs /\ stuck' \subseteq CronJobs
         /\ jobs' \in [CronJobs -> Job] /\ onDisk' \in [CronJobs -> Job]
         /\ changes' \in 0 .. MaxChanges
<1>1. f \in [CronJobs -> Job]
  BY SlotsOf
<1>2. /\ Writes(f) \/ WriteFails(f, lost)
      /\ jobs' \in [CronJobs -> Job] /\ onDisk' \in [CronJobs -> Job]
      /\ changes' \in 0 .. MaxChanges
  BY <1>1, WrittenTypes
<1>3. \A j \in CronJobs :
        /\ Fits(f, j)
        /\ UsesOf(j)' = UsesOf(j)
        /\ j \in unmarked' \/ j \notin unmarked \/ UsesOf(j)' = {}
  BY KeptUses
<1>4. ASSUME NEW j \in CronJobs, f[j].stored # "yes"
      PROVE  jobs[j].stored # "yes" \/ onDisk[j].stored # "yes"
  BY <1>4
<1> QED
  BY <1>1, <1>2, <1>3, <1>4, WrittenOrNot

LEMMA RewritingStep ==
  ASSUME CronIInv, NEW f, StoreOk(f), UNCHANGED <<planned, doing, done, unmarked>>,
         startStage # "down",
         \A j \in CronJobs : f[j].stored = jobs[j].stored \/ f[j].stored = onDisk[j].stored,
         NEW lost \in SUBSET CronJobs, Persists(f) \/ PersistThrows(f, lost),
         UNCHANGED <<interrupted, deferred, ticking, manual>>, timerArmed' \in BOOLEAN,
         \/ startStage' = startStage
         \/ startStage = "caughtUp" /\ startStage' \in {"started", "failed"}
  PROVE  CronIInv'
<1>1. /\ StoreOk(jobs)' /\ StoreOk(onDisk)' /\ \A j \in CronJobs : JobOk(j)'
      /\ orphaned' \subseteq CronJobs /\ stuck' \subseteq CronJobs
      /\ jobs' \in [CronJobs -> Job] /\ onDisk' \in [CronJobs -> Job]
      /\ changes' \in 0 .. MaxChanges
  BY RewrittenStore
<1>2. CronTypeOK'
  BY <1>1 DEF CronIInv, CronTypeOK
<1>3. AllRuns' = AllRuns
  BY DEF AllRuns
<1>4. DownIsIdle' /\ OneBatchOfAKind'
  BY <1>3 DEF CronIInv, DownIsIdle, OneBatchOfAKind, Runs
<1> QED
  BY <1>1, <1>2, <1>4 DEF CronIInv

LEMMA StoresOk ==
  ASSUME CronIInv PROVE StoreOk(jobs) /\ StoreOk(onDisk)
BY DEF CronIInv

LEMMA FinishStartStep ==
  ASSUME CronIInv, FinishStart
  PROVE  CronIInv'
<1> DEFINE f == RecomputeNextRuns(jobs, "maybe")
<1>1. StoreOk(f) /\ \A j \in CronJobs : f[j].stored = jobs[j].stored
  BY StoresOk, MovedStore
<1>2. /\ startStage = "caughtUp" /\ startStage' \in {"started", "failed"}
      /\ UNCHANGED <<interrupted, deferred, ticking, planned, doing, done, manual, unmarked>>
  BY DEF FinishStart, runVars
<1>3. timerArmed' \in BOOLEAN
  BY ArmIsBoolean DEF FinishStart, CronIInv, CronTypeOK
<1>4. \/ Persists(f) \/ PersistThrows(f, {})
      \/ UNCHANGED <<jobs, onDisk, stuck, orphaned, changes>>
  BY DEF FinishStart, storeVars
<1> HIDE DEF f
<1>5. CASE Persists(f) \/ PersistThrows(f, {})
  <2>1. startStage # "down" /\ {} \in SUBSET CronJobs
    BY <1>2
  <2> QED
    BY <1>1, <1>2, <1>3, <1>5, <2>1, RewritingStep
<1>6. CASE UNCHANGED <<jobs, onDisk, stuck, orphaned, changes>>
  <2>1. CronTypeOK'
    BY <1>2, <1>3, <1>6 DEF CronIInv, CronTypeOK
  <2>2. DownIsIdle' /\ OneBatchOfAKind'
    BY <1>2, <1>6 DEF CronIInv, DownIsIdle, OneBatchOfAKind, Runs, AllRuns
  <2>3. \A j \in CronJobs : UsesOf(j)' = UsesOf(j) /\ (Lost(j)' <=> Lost(j))
    BY <1>2, <1>6 DEF UsesOf, AllRuns, Lost
  <2>4. StoreOk(jobs)' /\ StoreOk(onDisk)'
    BY <1>2, <1>6, <2>3 DEF CronIInv, StoreOk, RecordOk
  <2>5. \A j \in CronJobs : JobOk(j)'
    BY <1>2, <1>6, <2>3 DEF CronIInv, JobOk, MarkedIn
  <2> QED
    BY <2>1, <2>2, <2>4, <2>5 DEF CronIInv
<1> QED
  BY <1>4, <1>5, <1>6

LEMMA ReadStoreStep ==
  ASSUME CronIInv, ReadStore
  PROVE  CronIInv'
<1> DEFINE f == RecomputeNextRunsForMaintenance(jobs)
<1>1. StoreOk(f) /\ \A j \in CronJobs : f[j].stored = jobs[j].stored
  BY StoresOk, MaintainedStore
<1>2. /\ startStage # "down" /\ timerArmed' \in BOOLEAN
      /\ UNCHANGED <<startStage, interrupted, deferred, ticking, planned, doing, done, manual,
                     unmarked>>
      /\ Persists(f) \/ PersistThrows(f, {})
  BY DEF ReadStore, runVars, CronIInv, CronTypeOK
<1> HIDE DEF f
<1> QED
  BY <1>1, <1>2, RewritingStep

LEMMA NothingDueStep ==
  ASSUME CronIInv, NothingDue
  PROVE  CronIInv'
<1> DEFINE f == RecomputeNextRunsForMaintenance(onDisk)
<1>1. StoreOk(f) /\ \A j \in CronJobs : f[j].stored = onDisk[j].stored
  BY StoresOk, MaintainedStore
<1>2. /\ startStage # "down" /\ timerArmed' \in BOOLEAN
      /\ UNCHANGED <<startStage, interrupted, deferred, ticking, planned, doing, done, manual,
                     unmarked>>
      /\ Persists(f) \/ PersistThrows(f, {})
  BY ArmIsBoolean DEF NothingDue, runVars, CronIInv, DownIsIdle
<1> HIDE DEF f
<1> QED
  BY <1>1, <1>2, RewritingStep

LEMMA MemoryStep ==
  ASSUME CronIInv, NEW f, StoreOk(f), \A j \in CronJobs : f[j].stored = jobs[j].stored,
         jobs' = f, UNCHANGED <<onDisk, stuck, orphaned, startStage, unmarked>>,
         AllRuns' = AllRuns
  PROVE  /\ StoreOk(jobs)' /\ StoreOk(onDisk)' /\ \A j \in CronJobs : JobOk(j)'
         /\ jobs' \in [CronJobs -> Job]
<1>1. \A j \in CronJobs : UsesOf(j)' = UsesOf(j) /\ (Lost(j)' <=> Lost(j))
  BY DEF UsesOf, Lost
<1>2. StoreOk(jobs)' /\ StoreOk(onDisk)'
  BY <1>1 DEF CronIInv, StoreOk, RecordOk
<1>3. \A j \in CronJobs : JobOk(j)'
  BY <1>1 DEF CronIInv, JobOk, MarkedIn
<1> QED
  BY <1>2, <1>3, SlotsOf

LEMMA InspectStep ==
  ASSUME CronIInv, NEW i \in CronJobs, NEW mode \in {"due", "force"},
         InspectManualRun(i, mode)
  PROVE  CronIInv'
<1> DEFINE f == RecomputeNextRunsForMaintenance(jobs)
<1>1. StoreOk(f) /\ \A j \in CronJobs : f[j].stored = jobs[j].stored
  BY StoresOk, MaintainedStore
<1>2. /\ startStage # "down" /\ jobs' = f /\ manual = {} /\ manual' = {i}
      /\ UNCHANGED <<onDisk, startStage, interrupted, deferred, timerArmed, ticking,
                     planned, doing, done, stuck, unmarked, orphaned, changes>>
  BY DEF InspectManualRun, runVars
<1> HIDE DEF f
<1>3. AllRuns' = AllRuns
  BY <1>2 DEF AllRuns
<1>4. \A r \in AllRuns : r[1] # "manual"
  <2>1. \A r \in done : r[1] # "manual"
    <3>1. \A r \in done : r[2] \in CronJobs /\ r = <<r[1], r[2]>>
      BY DEF CronIInv, CronTypeOK
    <3> QED
      BY <3>1 DEF InspectManualRun, Ended
  <2> QED
    BY <2>1 DEF InspectManualRun, AllRuns, Runs
<1>5. /\ StoreOk(jobs)' /\ StoreOk(onDisk)' /\ \A j \in CronJobs : JobOk(j)'
      /\ jobs' \in [CronJobs -> Job]
  BY <1>1, <1>2, <1>3, MemoryStep
<1>6. CronTypeOK'
  BY <1>2, <1>5 DEF CronIInv, CronTypeOK
<1>7. DownIsIdle' /\ OneBatchOfAKind'
  BY <1>2, <1>3, <1>4 DEF CronIInv, DownIsIdle, OneBatchOfAKind, Runs
<1> QED
  BY <1>5, <1>6, <1>7 DEF CronIInv

LEMMA TimePassesStep ==
  ASSUME CronIInv, NEW i \in CronJobs, TimePasses(i)
  PROVE  CronIInv'
<1>1. ASSUME NEW r \in Job
      PROVE  /\ Passed(i, r) \in Job /\ Passed(i, r).stored = r.stored
             /\ Passed(i, r).marked = r.marked /\ Passed(i, r).enabled = r.enabled
             /\ Passed(i, r).skipped = r.skipped
  <2> DEFINE at == IF i \in OneShots THEN "due" ELSE r.at
             next == IF r.next = "later" THEN "due" ELSE r.next
             p == Passed(i, r)
  <2>1. at \in {"later", "due"} /\ next \in {"none", "later", "due"}
    BY DEF Job
  <2>2. p = r \/ p = [r EXCEPT !.at = at, !.next = next]
    BY DEF Passed, Job
  <2> HIDE DEF at, next, p
  <2>3. /\ p \in Job /\ p.stored = r.stored /\ p.marked = r.marked
        /\ p.enabled = r.enabled /\ p.skipped = r.skipped
    BY <2>1, <2>2 DEF Job
  <2> QED
    BY <2>3 DEF p
<1>2. /\ jobs' = [jobs EXCEPT ![i] = Passed(i, jobs[i])]
      /\ onDisk' = [onDisk EXCEPT ![i] = Passed(i, onDisk[i])]
      /\ UNCHANGED <<startStage, interrupted, deferred, timerArmed, ticking, planned, doing,
                     done, manual, stuck, unmarked, orphaned, changes>>
  BY DEF TimePasses, runVars
<1>3. ASSUME NEW f, NEW g, StoreOk(f), g = [f EXCEPT ![i] = Passed(i, f[i])]
      PROVE  StoreOk(g) /\ \A j \in CronJobs : g[j].stored = f[j].stored
                                               /\ g[j].marked = f[j].marked
  <2> HIDE DEF Passed
  <2>1. f \in [CronJobs -> Job] /\ g \in [CronJobs -> Job]
    BY <1>1, <1>3, SlotsOf
  <2>2. \A j \in CronJobs : /\ g[j].stored = f[j].stored /\ g[j].marked = f[j].marked
                            /\ g[j].enabled = f[j].enabled /\ g[j].skipped = f[j].skipped
    BY <1>1, <1>3, <2>1
  <2> QED
    BY <1>3, <2>1, <2>2 DEF StoreOk, RecordOk
<1>4. /\ StoreOk(jobs) /\ StoreOk(onDisk)
  BY StoresOk
<1>5. \A j \in CronJobs : UsesOf(j)' = UsesOf(j) /\ (Lost(j)' <=> Lost(j))
  BY <1>2 DEF UsesOf, AllRuns, Lost
<1> DEFINE f == [jobs EXCEPT ![i] = Passed(i, jobs[i])]
           g == [onDisk EXCEPT ![i] = Passed(i, onDisk[i])]
<1>6. StoreOk(f) /\ \A j \in CronJobs : f[j].stored = jobs[j].stored
  BY <1>3, <1>4
<1>7. StoreOk(g) /\ \A j \in CronJobs : g[j].stored = onDisk[j].stored
                                        /\ g[j].marked = onDisk[j].marked
  BY <1>3, <1>4
<1>8. jobs' = f /\ onDisk' = g
  BY <1>2
<1> HIDE DEF f, g
<1>9. StoreOk(jobs)' /\ StoreOk(onDisk)'
  BY <1>2, <1>5, <1>6, <1>7, <1>8 DEF StoreOk, RecordOk
<1>10. \A j \in CronJobs : JobOk(j)'
  BY <1>2, <1>5, <1>6, <1>7, <1>8 DEF CronIInv, JobOk, MarkedIn
<1>11. CronTypeOK'
  BY <1>2, <1>6, <1>7, <1>8, SlotsOf DEF CronIInv, CronTypeOK
<1>12. DownIsIdle' /\ OneBatchOfAKind'
  BY <1>2 DEF CronIInv, DownIsIdle, OneBatchOfAKind, Runs, AllRuns
<1> QED
  BY <1>9, <1>10, <1>11, <1>12 DEF CronIInv

LEMMA MarkerAgesStep ==
  ASSUME CronIInv, NEW i \in CronJobs, MarkerAges(i)
  PROVE  CronIInv'
<1>1. /\ stuck' = stuck \cup {i} /\ UsesOf(i) = {}
      /\ UNCHANGED <<jobs, onDisk, orphaned, changes, startStage, interrupted, deferred,
                     timerArmed, ticking, planned, doing, done, manual, unmarked>>
  BY UsedIsInUse DEF MarkerAges, runVars
<1>2. \A j \in CronJobs : UsesOf(j)' = UsesOf(j) /\ (Lost(j)' <=> Lost(j))
  BY <1>1 DEF UsesOf, AllRuns, Lost
<1>3. StoreOk(jobs)' /\ StoreOk(onDisk)'
  BY <1>1, <1>2 DEF CronIInv, StoreOk, RecordOk
<1>4. \A j \in CronJobs : JobOk(j)'
  BY <1>1, <1>2 DEF CronIInv, JobOk, MarkedIn
<1>5. CronTypeOK'
  BY <1>1 DEF CronIInv, CronTypeOK
<1>6. DownIsIdle' /\ OneBatchOfAKind'
  BY <1>1 DEF CronIInv, DownIsIdle, OneBatchOfAKind, Runs, AllRuns
<1> QED
  BY <1>3, <1>4, <1>5, <1>6 DEF CronIInv
-----------------------------------------------------------------------------
LEMMA CronInitial == CronInit => CronIInv
<1> SUFFICES ASSUME CronInit PROVE CronIInv
  OBVIOUS
<1>1. /\ jobs \in [CronJobs -> Job] /\ onDisk = jobs /\ startStage = "down"
      /\ \A j \in CronJobs : /\ jobs[j].skipped = "no"
                             /\ jobs[j].marked => jobs[j].stored = "yes"
  BY DEF CronInit
<1>2. AllRuns = {} /\ \A j \in CronJobs : UsesOf(j) = {}
  BY DEF CronInit, AllRuns, UsesOf
<1>t. timerArmed \in BOOLEAN /\ ticking \in BOOLEAN
  BY Zenon DEF CronInit
<1>3. CronTypeOK
  BY <1>1, <1>t, CronAssumption DEF CronInit, CronTypeOK, CronAssumption
<1>4. DownIsIdle /\ OneBatchOfAKind
  BY <1>2 DEF CronInit, DownIsIdle, OneBatchOfAKind, Runs
<1>5. StoreOk(jobs) /\ StoreOk(onDisk)
  BY <1>1, <1>2 DEF StoreOk, RecordOk, Lost
<1>6. \A j \in CronJobs : JobOk(j)
  BY <1>1, <1>2 DEF JobOk, Lost
<1> QED
  BY <1>3, <1>4, <1>5, <1>6 DEF CronIInv

LEMMA BeginRunStep ==
  ASSUME CronIInv, NEW who \in Who, NEW i \in CronJobs, BeginRun(who, i)
  PROVE  CronIInv'
<1> DEFINE u == <<who, i>>
<1>1. u \in planned /\ u \in UsesOf(i)
  BY DEF BeginRun, UsesOf, AllRuns
<1>2. /\ AllRuns' = AllRuns
      /\ UNCHANGED <<onDisk, startStage, interrupted, deferred, timerArmed, ticking, done,
                     manual, stuck, unmarked, orphaned, changes>>
  BY <1>1 DEF BeginRun, AllRuns
<1>3. \/ jobs' = jobs
      \/ jobs[i].stored = "yes" /\ ~jobs[i].marked
         /\ jobs' = [jobs EXCEPT ![i].marked = TRUE]
  BY DEF BeginRun
<1>4. StoreOk(jobs) /\ jobs \in [CronJobs -> Job]
  BY StoresOk, SlotsOf
<1>5. /\ StoreOk(jobs') /\ \A j \in CronJobs : jobs'[j].stored = jobs[j].stored
  <2>1. CASE jobs' = jobs
    <3>1. \A f : f = jobs => StoreOk(f) /\ \A j \in CronJobs : f[j].stored = jobs[j].stored
      BY <1>4
    <3> QED
      BY <2>1, <3>1
  <2>2. CASE /\ jobs[i].stored = "yes" /\ ~jobs[i].marked
             /\ jobs' = [jobs EXCEPT ![i].marked = TRUE]
    <3> DEFINE r == [jobs[i] EXCEPT !.marked = TRUE]
               f == [jobs EXCEPT ![i] = r]
    <3>1. /\ r \in Job /\ r.stored = "yes" /\ r.marked
          /\ r.enabled = jobs[i].enabled /\ r.skipped = jobs[i].skipped
      BY <1>4, <2>2 DEF Job
    <3>2. jobs' = f
      BY <1>4, <2>2
    <3> HIDE DEF r
    <3>3. f \in [CronJobs -> Job] /\ f[i] = r /\ \A j \in CronJobs : j # i => f[j] = jobs[j]
      BY <1>4, <3>1
    <3>4. ASSUME NEW j \in CronJobs
          PROVE  RecordOk(f[j], UsesOf(j) # {}, j \in unmarked, Lost(j))
      <4>1. RecordOk(jobs[j], UsesOf(j) # {}, j \in unmarked, Lost(j))
        BY <1>4 DEF StoreOk
      <4> HIDE DEF f, u
      <4>2. CASE j = i
        BY <1>1, <2>2, <3>1, <3>3, <4>1, <4>2 DEF RecordOk
      <4>3. CASE j # i
        BY <3>3, <4>1, <4>3 DEF RecordOk
      <4> QED
        BY <4>2, <4>3
    <3> HIDE DEF f
    <3>5. StoreOk(f) /\ \A j \in CronJobs : f[j].stored = jobs[j].stored
      BY <2>2, <3>1, <3>3, <3>4 DEF StoreOk
    <3> QED
      BY <3>2, <3>5
  <2> QED
    BY <1>3, <2>1, <2>2
<1>6. /\ StoreOk(jobs)' /\ StoreOk(onDisk)' /\ \A j \in CronJobs : JobOk(j)'
      /\ jobs' \in [CronJobs -> Job]
  <2>1. \A j \in CronJobs : UsesOf(j)' = UsesOf(j) /\ (Lost(j)' <=> Lost(j))
    BY <1>2 DEF UsesOf, Lost
  <2>2. StoreOk(jobs)' /\ StoreOk(onDisk)' /\ jobs' \in [CronJobs -> Job]
    BY <1>2, <1>5, <2>1 DEF CronIInv, StoreOk, RecordOk
  <2>3. \A j \in CronJobs : JobOk(j)'
    BY <1>2, <1>5, <2>1 DEF CronIInv, JobOk, MarkedIn
  <2> QED
    BY <2>2, <2>3
<1>7. CronTypeOK'
  BY <1>1, <1>2, <1>6 DEF CronIInv, CronTypeOK, BeginRun
<1>8. DownIsIdle' /\ OneBatchOfAKind'
  <2>1. Runs("tick")' = Runs("tick") /\ Runs("catchup")' = Runs("catchup")
    BY <1>1 DEF BeginRun, Runs
  <2>2. planned' \cap doing' = {}
    BY DEF CronIInv, OneBatchOfAKind, BeginRun
  <2> QED
    BY <1>2, <2>1, <2>2 DEF CronIInv, DownIsIdle, OneBatchOfAKind, BeginRun
<1> QED
  BY <1>6, <1>7, <1>8 DEF CronIInv

LEMMA EndRunStep ==
  ASSUME CronIInv, NEW who \in Who, NEW i \in CronJobs, EndRun(who, i)
  PROVE  CronIInv'
<1>1. /\ AllRuns' = AllRuns /\ <<who, i>> \in Who \X CronJobs
      /\ UNCHANGED <<jobs, onDisk, stuck, orphaned, changes, startStage, interrupted, deferred,
                     timerArmed, ticking, planned, manual, unmarked>>
  BY DEF EndRun, AllRuns, storeVars
<1>2. CronTypeOK'
  BY <1>1 DEF CronIInv, CronTypeOK, EndRun
<1>3. DownIsIdle' /\ OneBatchOfAKind'
  <2>1. Runs("tick")' \subseteq Runs("tick") /\ Runs("catchup")' \subseteq Runs("catchup")
    BY DEF EndRun, Runs
  <2>2. planned' \cap doing' = {}
    BY DEF CronIInv, OneBatchOfAKind, EndRun
  <2> QED
    BY <1>1, <2>1, <2>2 DEF CronIInv, DownIsIdle, OneBatchOfAKind, EndRun
<1>4. /\ StoreOk(jobs)' /\ StoreOk(onDisk)' /\ \A j \in CronJobs : JobOk(j)'
  BY <1>1, StoresOk, MemoryStep
<1> QED
  BY <1>2, <1>3, <1>4 DEF CronIInv

LEMMA LoadStoreStep ==
  ASSUME CronIInv, LoadStore
  PROVE  CronIInv'
<1> DEFINE f == ClearMarkers
<1>1. /\ f \in [CronJobs -> Job]
      /\ \A j \in CronJobs : /\ f[j].stored = onDisk[j].stored /\ ~f[j].marked
                             /\ f[j].skipped # "never"
  <2>1. onDisk \in [CronJobs -> Job] /\ \A j \in CronJobs : onDisk[j].skipped # "never"
    BY StoresOk, SlotsOf DEF SlotsKept
  <2>2. f = [j \in CronJobs |-> f[j]]
        /\ \A j \in CronJobs : f[j] = [onDisk[j] EXCEPT !.marked = FALSE]
    BY DEF ClearMarkers
  <2> HIDE DEF f
  <2>3. ASSUME NEW j \in CronJobs
        PROVE  /\ f[j] \in Job /\ f[j].stored = onDisk[j].stored /\ ~f[j].marked
               /\ f[j].skipped = onDisk[j].skipped
    <3>1. onDisk[j] \in Job /\ f[j] = [onDisk[j] EXCEPT !.marked = FALSE]
      BY <2>1, <2>2
    <3> QED
      BY <3>1 DEF Job
  <2> QED
    BY <2>1, <2>2, <2>3
<1>2. /\ AllRuns = {} /\ AllRuns' = {} /\ manual' = {} /\ unmarked' = {} /\ unmarked = {}
      /\ planned' = {} /\ doing' = {} /\ done' = {}
      /\ startStage' \in {"loaded", "failed"}
      /\ UNCHANGED <<deferred, timerArmed, ticking>> /\ interrupted' \subseteq OneShots
  BY DEF CronIInv, DownIsIdle, LoadStore, AllRuns, runVars
<1>3. \A j \in CronJobs : UsesOf(j)' = {}
  BY <1>2 DEF UsesOf
<1>4. /\ MarkedIn(onDisk) \in SUBSET CronJobs
      /\ Persists(f) \/ PersistThrows(f, MarkedIn(onDisk))
  BY DEF LoadStore, MarkedIn
<1> HIDE DEF f
<1>5. /\ Writes(f) \/ WriteFails(f, MarkedIn(onDisk))
      /\ jobs' \in [CronJobs -> Job] /\ onDisk' \in [CronJobs -> Job]
      /\ changes' \in 0 .. MaxChanges
  BY <1>1, <1>4, WrittenTypes
<1>6. orphaned \subseteq CronJobs /\ stuck \subseteq CronJobs /\ onDisk \in [CronJobs -> Job]
      /\ startStage' # "down"
  BY <1>2 DEF CronIInv, CronTypeOK
<1>7. /\ StoreOk(jobs)' /\ StoreOk(onDisk)' /\ \A j \in CronJobs : JobOk(j)'
      /\ orphaned' \subseteq CronJobs /\ stuck' \subseteq CronJobs
  <2>1. \A j \in CronJobs : Fits(f, j) /\ FitsLost(f, j, MarkedIn(onDisk))
    BY <1>1, <1>3 DEF Fits, FitsLost, RecordOk
  <2>2. \A j \in CronJobs : FitsLost(onDisk, j, MarkedIn(onDisk))
    BY <1>3, StoresOk DEF FitsLost, RecordOk, StoreOk, MarkedIn
  <2>3. CASE Writes(f)
    BY <1>1, <1>3, <1>6, <2>1, <2>3, WrittenStores
  <2>4. CASE WriteFails(f, MarkedIn(onDisk))
    BY <1>1, <1>3, <1>4, <1>6, <2>1, <2>2, <2>4, UnwrittenStores
  <2> QED
    BY <1>5, <2>3, <2>4
<1>8. CronTypeOK'
  BY <1>2, <1>5, <1>7 DEF CronIInv, CronTypeOK
<1>9. DownIsIdle' /\ OneBatchOfAKind'
  BY <1>2 DEF DownIsIdle, OneBatchOfAKind, Runs
<1> QED
  BY <1>7, <1>8, <1>9 DEF CronIInv
-----------------------------------------------------------------------------
(***************************************************************************)
(* Three blocks mark jobs of a store b, in memory or from the file, that   *)
(* are not marked in it, for runs that then begin or wait.                 *)
(***************************************************************************)
Markable(b, now) ==
  /\ b = jobs \/ b = onDisk
  /\ now \subseteq CronJobs
  /\ \A j \in now : b[j].stored = "yes" /\ ~b[j].marked

LEMMA MarkedStore ==
  ASSUME CronIInv, NEW b, NEW now, Markable(b, now)
  PROVE  /\ StoreOk(b)
         /\ Marking(b, now) \in [CronJobs -> Job]
         /\ \A j \in CronJobs :
              LET r == Marking(b, now)[j]
              IN /\ r.stored = b[j].stored /\ r.enabled = b[j].enabled
                 /\ r.skipped = b[j].skipped /\ r.marked = (b[j].marked \/ j \in now)
<1> DEFINE f == Marking(b, now)
<1>1. StoreOk(b)
  BY StoresOk DEF Markable
<1>2. b \in [CronJobs -> Job] /\ now \subseteq CronJobs
  BY <1>1, SlotsOf DEF Markable
<1>3. f = [j \in CronJobs |-> f[j]]
      /\ \A j \in CronJobs : f[j] = [b[j] EXCEPT !.marked = @ \/ j \in now]
  BY DEF Marking
<1> HIDE DEF f
<1>4. ASSUME NEW j \in CronJobs
      PROVE  /\ f[j] \in Job
             /\ f[j].stored = b[j].stored /\ f[j].enabled = b[j].enabled
             /\ f[j].skipped = b[j].skipped /\ f[j].marked = (b[j].marked \/ j \in now)
  <2> DEFINE m == b[j].marked \/ j \in now
  <2>1. b[j] \in Job /\ m \in BOOLEAN
    BY <1>2 DEF Job
  <2>2. f[j] = [b[j] EXCEPT !.marked = m]
    BY <1>3, <2>1 DEF Job
  <2>3. m = (b[j].marked \/ j \in now)
    OBVIOUS
  <2> HIDE DEF m
  <2> QED
    BY <2>1, <2>2, <2>3 DEF Job
<1>5. f \in [CronJobs -> Job]
  BY <1>3, <1>4
<1> QED
  BY <1>1, <1>4, <1>5 DEF f

LEMMA MarksWritten ==
  ASSUME CronIInv, NEW b, NEW now, Markable(b, now), NEW who \in Who,
         Writes(Marking(b, now)), startStage # "down", startStage' # "down",
         AllRuns' = AllRuns \cup In(who, now),
         \A j \in CronJobs : j \in unmarked' <=> j \in unmarked \/ (j \in now /\ ~b[j].enabled)
  PROVE  /\ StoreOk(jobs)' /\ StoreOk(onDisk)' /\ \A j \in CronJobs : JobOk(j)'
         /\ orphaned' \subseteq CronJobs /\ stuck' \subseteq CronJobs
<1> DEFINE f == Marking(b, now)
<1>1. /\ StoreOk(b) /\ f \in [CronJobs -> Job]
      /\ \A j \in CronJobs :
           /\ f[j].stored = b[j].stored /\ f[j].enabled = b[j].enabled
           /\ f[j].skipped = b[j].skipped /\ f[j].marked = (b[j].marked \/ j \in now)
  BY MarkedStore
<1>2. /\ orphaned \subseteq CronJobs /\ stuck \subseteq CronJobs /\ Writes(f)
  BY DEF CronIInv, CronTypeOK
<1> HIDE DEF f
<1>3. \A j \in CronJobs :
        UsesOf(j)' = IF j \in now THEN UsesOf(j) \cup {<<who, j>>} ELSE UsesOf(j)
  BY DEF UsesOf, In
<1>4. ASSUME NEW j \in CronJobs
      PROVE  Fits(f, j) /\ (j \notin unmarked' => \A r, s \in UsesOf(j)' : r = s)
  <2>1. /\ RecordOk(b[j], UsesOf(j) # {}, j \in unmarked, Lost(j))
        /\ (Lost(j) <=> j \in orphaned)
    BY <1>1 DEF StoreOk, Lost
  <2>2. JobOk(j)
    BY DEF CronIInv
  <2>3. CASE j \in now
    <3>1. b[j].stored = "yes" /\ ~b[j].marked
      BY <2>3 DEF Markable
    <3>2. UsesOf(j)' = UsesOf(j) \cup {<<who, j>>} /\ UsesOf(j)' # {}
      BY <1>3, <2>3
    <3>3. j \notin unmarked => UsesOf(j) = {}
      BY <2>1, <3>1 DEF RecordOk
    <3>4. Fits(f, j)
      BY <1>1, <2>1, <2>3, <3>1, <3>2 DEF Fits, RecordOk
    <3> QED
      BY <2>3, <3>2, <3>3, <3>4
  <2>4. CASE j \notin now
    <3>1. UsesOf(j)' = UsesOf(j) /\ (j \in unmarked' <=> j \in unmarked)
      BY <1>3, <2>4
    <3>2. f[j].marked <=> b[j].marked
      BY <1>1, <2>4
    <3>3. Fits(f, j)
      BY <1>1, <2>1, <3>1, <3>2 DEF Fits, RecordOk
    <3> QED
      BY <2>2, <3>1, <3>3 DEF JobOk
  <2> QED
    BY <2>3, <2>4
<1> QED
  BY <1>1, <1>2, <1>4, WrittenStores

LEMMA MarksNotWritten ==
  ASSUME CronIInv, NEW b, NEW now, Markable(b, now), WriteFails(Marking(b, now), now),
         startStage # "down", startStage' # "down",
         UNCHANGED <<planned, doing, done, unmarked>>
  PROVE  /\ StoreOk(jobs)' /\ StoreOk(onDisk)' /\ \A j \in CronJobs : JobOk(j)'
         /\ orphaned' \subseteq CronJobs /\ stuck' \subseteq CronJobs
<1> DEFINE f == Marking(b, now)
<1>1. /\ StoreOk(b) /\ f \in [CronJobs -> Job]
      /\ \A j \in CronJobs :
           /\ f[j].stored = b[j].stored /\ f[j].enabled = b[j].enabled
           /\ f[j].skipped = b[j].skipped /\ f[j].marked = (b[j].marked \/ j \in now)
  BY MarkedStore
<1>2. /\ orphaned \subseteq CronJobs /\ stuck \subseteq CronJobs /\ WriteFails(f, now)
      /\ onDisk \in [CronJobs -> Job] /\ StoreOk(onDisk) /\ now \in SUBSET CronJobs
      /\ \A j \in CronJobs : JobOk(j)
  BY DEF CronIInv, CronTypeOK, Markable
<1> HIDE DEF f
<1>3. \A j \in CronJobs : UsesOf(j)' = UsesOf(j) /\ (Lost(j) <=> j \in orphaned)
  BY DEF UsesOf, AllRuns, Lost
<1>4. ASSUME NEW j \in CronJobs
      PROVE  FitsLost(f, j, now) /\ FitsLost(onDisk, j, now)
  <2>1. /\ RecordOk(b[j], UsesOf(j) # {}, j \in unmarked, Lost(j))
        /\ RecordOk(onDisk[j], UsesOf(j) # {}, j \in unmarked, Lost(j))
    BY <1>1, <1>2 DEF StoreOk
  <2>2. j \in now => b[j].stored = "yes" /\ ~b[j].marked
    BY DEF Markable
  <2>3. f[j].marked <=> b[j].marked \/ j \in now
    BY <1>1
  <2>4. FitsLost(onDisk, j, now)
    BY <1>3, <2>1 DEF FitsLost, RecordOk
  <2>5. FitsLost(f, j, now)
    BY <1>1, <1>3, <2>1, <2>2, <2>3 DEF FitsLost, RecordOk
  <2> QED
    BY <2>4, <2>5
<1>5. \A j \in CronJobs : j \notin unmarked' => \A r, s \in UsesOf(j)' : r = s
  BY <1>2, <1>3 DEF JobOk
<1>6. \A j \in stuck \ now : UsesOf(j)' = {}
  BY <1>2, <1>3 DEF JobOk
<1>7. ASSUME NEW j \in MarkedIn(onDisk), f[j].stored # "yes"
      PROVE  j \in orphaned \/ j \in now
  <2>1. j \in CronJobs /\ onDisk[j].stored = "yes"
    BY DEF MarkedIn
  <2>2. jobs[j].stored # "yes"
    BY <1>1, <1>7, <2>1 DEF Markable
  <2> QED
    BY <1>2, <1>3, <2>1, <2>2 DEF JobOk
<1> QED
  BY <1>1, <1>2, <1>4, <1>5, <1>6, <1>7, UnwrittenStores

LEMMA MarkingTypes ==
  ASSUME CronIInv, NEW b, NEW now, Markable(b, now),
         Persists(Marking(b, now)) \/ PersistThrows(Marking(b, now), now)
  PROVE  /\ jobs' \in [CronJobs -> Job] /\ onDisk' \in [CronJobs -> Job]
         /\ changes' \in 0 .. MaxChanges
<1>1. Marking(b, now) \in [CronJobs -> Job] /\ now \in SUBSET CronJobs
  BY MarkedStore DEF Markable
<1> QED
  BY <1>1, WrittenTypes

(***************************************************************************)
(* The batches that two of these blocks plan: nothing of the kind was      *)
(* planned or running.                                                     *)
(***************************************************************************)
LEMMA PlansRuns ==
  ASSUME CronIInv, NEW who \in {"tick", "catchup"}, Runs(who) = {},
         NEW now \in SUBSET CronJobs,
         planned' = planned \cup In(who, now), UNCHANGED <<doing, done>>
  PROVE  /\ AllRuns' = AllRuns \cup In(who, now)
         /\ planned' \subseteq Who \X CronJobs
         /\ planned' \cap doing' = {}
         /\ \A r \in planned' \cup (doing' \cap done') : r[1] # "manual"
         /\ \A r, s \in AllRuns' : r[1] = "manual" /\ s[1] = "manual" => r = s
         /\ (\A r \in AllRuns : r[1] # "manual") => \A r \in AllRuns' : r[1] # "manual"
         /\ \A k \in Who \ {who} : Runs(k)' = Runs(k)
         /\ Runs(who)' # {} => now # {}
<1>1. \A r \in In(who, now) : r[1] = who /\ r \in Who \X CronJobs
  BY DEF In, Who
<1>2. AllRuns' = AllRuns \cup In(who, now)
  BY DEF AllRuns
<1>3. planned \subseteq Who \X CronJobs /\ doing \subseteq Who \X CronJobs
      /\ planned \cap doing = {}
  BY DEF CronIInv, CronTypeOK, OneBatchOfAKind
<1>4. planned' \cap doing' = {}
  BY <1>1, <1>3 DEF Runs
<1>5. \A r \in planned' \cup (doing' \cap done') : r[1] # "manual"
  BY <1>1 DEF CronIInv, OneBatchOfAKind
<1>6. \A r, s \in AllRuns' : r[1] = "manual" /\ s[1] = "manual" => r = s
  BY <1>1, <1>2 DEF CronIInv, OneBatchOfAKind
<1>7. \A k \in Who \ {who} : Runs(k)' = Runs(k)
  BY <1>1 DEF Runs
<1>8. Runs(who)' # {} => now # {}
  BY DEF Runs, In
<1> QED
  BY <1>1, <1>2, <1>3, <1>4, <1>5, <1>6, <1>7, <1>8

LEMMA PlanStep ==
  ASSUME CronIInv, PlanStartupCatchup
  PROVE  CronIInv'
<1>1. PICK more \in SUBSET MaybeMissed : \E now \in SUBSET (Missed \cup more) :
        \/ /\ planned' = planned \cup In("catchup", now)
           /\ deferred' = (Missed \cup more) \ now
           /\ startStage' = IF Missed \cup more = {} THEN "caughtUp" ELSE "catchup"
           /\ UNCHANGED <<doing, done>>
           /\ Persists(Marking(jobs, now))
        \/ /\ PersistThrows(Marking(jobs, now), now)
           /\ startStage' = "failed"
           /\ UNCHANGED <<deferred, planned, doing, done>>
  BY Zenon DEF PlanStartupCatchup, runVars
<1>2. PICK now \in SUBSET (Missed \cup more) :
        \/ /\ planned' = planned \cup In("catchup", now)
           /\ deferred' = (Missed \cup more) \ now
           /\ startStage' = IF Missed \cup more = {} THEN "caughtUp" ELSE "catchup"
           /\ UNCHANGED <<doing, done>>
           /\ Persists(Marking(jobs, now))
        \/ /\ PersistThrows(Marking(jobs, now), now)
           /\ startStage' = "failed"
           /\ UNCHANGED <<deferred, planned, doing, done>>
  BY <1>1
<1>3. /\ startStage = "loaded"
      /\ UNCHANGED <<interrupted, timerArmed, ticking, manual, unmarked>>
  BY DEF PlanStartupCatchup
<1>4. /\ Missed \cup more \subseteq CronJobs /\ now \in SUBSET CronJobs
      /\ \A j \in now : jobs[j].stored = "yes" /\ jobs[j].enabled /\ ~jobs[j].marked
  BY DEF Missed, MaybeMissed, Idle, Enabled
<1>5. Runs("catchup") = {} /\ Markable(jobs, now)
      /\ startStage # "down" /\ startStage' # "down"
  BY <1>2, <1>3, <1>4 DEF CronIInv, OneBatchOfAKind, Markable
<1>6. /\ jobs' \in [CronJobs -> Job] /\ onDisk' \in [CronJobs -> Job]
      /\ changes' \in 0 .. MaxChanges
  BY <1>2, <1>5, MarkingTypes
<1>7. ASSUME planned' = planned \cup In("catchup", now),
             deferred' = (Missed \cup more) \ now,
             startStage' = IF Missed \cup more = {} THEN "caughtUp" ELSE "catchup",
             UNCHANGED <<doing, done>>, Persists(Marking(jobs, now))
      PROVE  CronIInv'
  <2>1. /\ AllRuns' = AllRuns \cup In("catchup", now)
        /\ planned' \subseteq Who \X CronJobs
        /\ planned' \cap doing' = {}
        /\ \A r \in planned' \cup (doing' \cap done') : r[1] # "manual"
        /\ \A r, s \in AllRuns' : r[1] = "manual" /\ s[1] = "manual" => r = s
        /\ (\A r \in AllRuns : r[1] # "manual") => \A r \in AllRuns' : r[1] # "manual"
        /\ \A k \in Who \ {"catchup"} : Runs(k)' = Runs(k)
        /\ Runs("catchup")' # {} => now # {}
    BY <1>4, <1>5, <1>7, PlansRuns
  <2>2. Writes(Marking(jobs, now)) /\ "catchup" \in Who /\ "tick" \in Who \ {"catchup"}
    BY <1>7 DEF Persists, Who
  <2>3. \A j \in CronJobs :
          j \in unmarked' <=> j \in unmarked \/ (j \in now /\ ~jobs[j].enabled)
    BY <1>3, <1>4
  <2>4. /\ StoreOk(jobs)' /\ StoreOk(onDisk)' /\ \A j \in CronJobs : JobOk(j)'
        /\ orphaned' \subseteq CronJobs /\ stuck' \subseteq CronJobs
    BY <1>5, <2>1, <2>2, <2>3, MarksWritten
  <2>5. CronTypeOK'
    BY <1>3, <1>4, <1>6, <1>7, <2>1, <2>4 DEF CronIInv, CronTypeOK
  <2>6. now # {} => startStage' = "catchup"
    BY <1>7
  <2>7. OneBatchOfAKind'
    BY <1>3, <2>1, <2>2, <2>6 DEF CronIInv, OneBatchOfAKind
  <2> QED
    BY <1>5, <2>4, <2>5, <2>7 DEF CronIInv, DownIsIdle
<1>8. ASSUME PersistThrows(Marking(jobs, now), now), startStage' = "failed",
             UNCHANGED <<deferred, planned, doing, done>>
      PROVE  CronIInv'
  <2>1. /\ StoreOk(jobs)' /\ StoreOk(onDisk)' /\ \A j \in CronJobs : JobOk(j)'
        /\ orphaned' \subseteq CronJobs /\ stuck' \subseteq CronJobs
    BY <1>3, <1>5, <1>8, MarksNotWritten DEF PersistThrows
  <2>2. CronTypeOK'
    BY <1>3, <1>6, <1>8, <2>1 DEF CronIInv, CronTypeOK
  <2>3. Runs("tick")' = Runs("tick") /\ Runs("catchup")' = {} /\ AllRuns' = AllRuns
    BY <1>5, <1>8 DEF Runs, AllRuns
  <2>4. DownIsIdle' /\ OneBatchOfAKind'
    BY <1>3, <1>5, <1>8, <2>3 DEF CronIInv, DownIsIdle, OneBatchOfAKind
  <2> QED
    BY <2>1, <2>2, <2>4 DEF CronIInv
<1> QED
  BY <1>2, <1>7, <1>8

LEMMA MarkDueStep ==
  ASSUME CronIInv, MarkDueJobs
  PROVE  CronIInv'
<1>1. /\ timerArmed /\ ~ticking
      /\ UNCHANGED <<startStage, interrupted, deferred, manual, unmarked>>
  BY DEF MarkDueJobs
<1>2. /\ DueJobs \in SUBSET CronJobs
      /\ \A j \in DueJobs : onDisk[j].stored = "yes" /\ onDisk[j].enabled /\ ~onDisk[j].marked
  BY DEF DueJobs, Enabled
<1>3. /\ Runs("tick") = {} /\ startStage # "down" /\ startStage' # "down"
      /\ Markable(onDisk, DueJobs)
  BY <1>1, <1>2 DEF CronIInv, OneBatchOfAKind, DownIsIdle, Markable
<1>4. /\ jobs' \in [CronJobs -> Job] /\ onDisk' \in [CronJobs -> Job]
      /\ changes' \in 0 .. MaxChanges
  BY <1>3, MarkingTypes DEF MarkDueJobs
<1>5. ASSUME ticking' = TRUE, planned' = planned \cup In("tick", DueJobs),
             UNCHANGED <<timerArmed, doing, done>>, Persists(Marking(onDisk, DueJobs))
      PROVE  CronIInv'
  <2>1. /\ AllRuns' = AllRuns \cup In("tick", DueJobs)
        /\ planned' \subseteq Who \X CronJobs
        /\ planned' \cap doing' = {}
        /\ \A r \in planned' \cup (doing' \cap done') : r[1] # "manual"
        /\ \A r, s \in AllRuns' : r[1] = "manual" /\ s[1] = "manual" => r = s
        /\ (\A r \in AllRuns : r[1] # "manual") => \A r \in AllRuns' : r[1] # "manual"
        /\ \A k \in Who \ {"tick"} : Runs(k)' = Runs(k)
    BY <1>2, <1>3, <1>5, PlansRuns
  <2>2. Writes(Marking(onDisk, DueJobs)) /\ "tick" \in Who /\ "catchup" \in Who \ {"tick"}
    BY <1>5 DEF Persists, Who
  <2>3. \A j \in CronJobs :
          j \in unmarked' <=> j \in unmarked \/ (j \in DueJobs /\ ~onDisk[j].enabled)
    BY <1>1, <1>2
  <2>4. /\ StoreOk(jobs)' /\ StoreOk(onDisk)' /\ \A j \in CronJobs : JobOk(j)'
        /\ orphaned' \subseteq CronJobs /\ stuck' \subseteq CronJobs
    BY <1>3, <2>1, <2>2, <2>3, MarksWritten
  <2>5. CronTypeOK'
    BY <1>1, <1>4, <1>5, <2>1, <2>4 DEF CronIInv, CronTypeOK
  <2>6. OneBatchOfAKind'
    BY <1>1, <1>5, <2>1, <2>2 DEF CronIInv, OneBatchOfAKind
  <2> QED
    BY <1>3, <2>4, <2>5, <2>6 DEF CronIInv, DownIsIdle
<1>6. ASSUME PersistThrows(Marking(onDisk, DueJobs), DueJobs),
             timerArmed' = ArmTimer(onDisk), UNCHANGED <<ticking, planned, doing, done>>
      PROVE  CronIInv'
  <2>1. /\ StoreOk(jobs)' /\ StoreOk(onDisk)' /\ \A j \in CronJobs : JobOk(j)'
        /\ orphaned' \subseteq CronJobs /\ stuck' \subseteq CronJobs
    BY <1>1, <1>3, <1>6, MarksNotWritten DEF PersistThrows
  <2>2. CronTypeOK'
    BY <1>1, <1>4, <1>6, <2>1, ArmIsBoolean DEF CronIInv, CronTypeOK
  <2>3. /\ Runs("tick")' = Runs("tick") /\ Runs("catchup")' = Runs("catchup")
        /\ AllRuns' = AllRuns
    BY <1>6 DEF Runs, AllRuns
  <2>4. DownIsIdle' /\ OneBatchOfAKind'
    BY <1>1, <1>3, <1>6, <2>3 DEF CronIInv, DownIsIdle, OneBatchOfAKind
  <2> QED
    BY <2>1, <2>2, <2>4 DEF CronIInv
<1> QED
  BY <1>5, <1>6 DEF MarkDueJobs, runVars

LEMMA ReserveStep ==
  ASSUME CronIInv, NEW i \in CronJobs, ReserveManualRun(i)
  PROVE  CronIInv'
<1>1. /\ i \in manual /\ manual' = {} /\ startStage # "down" /\ startStage' # "down"
      /\ \A r \in AllRuns : r[1] # "manual"
      /\ UNCHANGED <<startStage, interrupted, deferred, timerArmed, ticking, planned, done>>
  BY DEF ReserveManualRun, CronIInv, DownIsIdle, OneBatchOfAKind
<1>2. ASSUME ~Reservable(i), UNCHANGED <<jobs, onDisk, stuck, orphaned, changes, doing, unmarked>>
      PROVE  CronIInv'
  <2>1. AllRuns' = AllRuns
    BY <1>1, <1>2 DEF AllRuns
  <2>2. CronTypeOK'
    BY <1>1, <1>2 DEF CronIInv, CronTypeOK
  <2>3. DownIsIdle' /\ OneBatchOfAKind'
    BY <1>1, <1>2, <2>1 DEF CronIInv, DownIsIdle, OneBatchOfAKind, Runs
  <2>4. /\ StoreOk(jobs)' /\ StoreOk(onDisk)' /\ \A j \in CronJobs : JobOk(j)'
    BY <1>1, <1>2, <2>1, StoresOk, MemoryStep
  <2> QED
    BY <2>2, <2>3, <2>4 DEF CronIInv
<1>3. ASSUME Reservable(i), doing' = doing \cup {<<"manual", i>>},
             unmarked' = IF jobs[i].enabled THEN unmarked ELSE unmarked \cup {i},
             Persists(Marking(jobs, {i}))
      PROVE  CronIInv'
  <2>1. Markable(jobs, {i}) /\ "manual" \in Who
    BY <1>3 DEF Markable, Reservable, Who
  <2>2. In("manual", {i}) = {<<"manual", i>>}
    BY DEF In
  <2>3. AllRuns' = AllRuns \cup In("manual", {i})
    BY <1>1, <1>3, <2>2 DEF AllRuns
  <2>4. \A j \in CronJobs :
          j \in unmarked' <=> j \in unmarked \/ (j \in {i} /\ ~jobs[j].enabled)
    BY <1>3
  <2>5. /\ StoreOk(jobs)' /\ StoreOk(onDisk)' /\ \A j \in CronJobs : JobOk(j)'
        /\ orphaned' \subseteq CronJobs /\ stuck' \subseteq CronJobs
    BY <1>1, <1>3, <2>1, <2>3, <2>4, MarksWritten DEF Persists
  <2>6. /\ jobs' \in [CronJobs -> Job] /\ onDisk' \in [CronJobs -> Job]
        /\ changes' \in 0 .. MaxChanges
    BY <1>3, <2>1, MarkingTypes
  <2>7. doing' \subseteq Who \X CronJobs
    BY <1>3, <2>1 DEF CronIInv, CronTypeOK
  <2>8. unmarked' \subseteq CronJobs
    BY <1>3 DEF CronIInv, CronTypeOK
  <2>9. CronTypeOK'
    BY <1>1, <2>5, <2>6, <2>7, <2>8 DEF CronIInv, CronTypeOK
  <2>10. Runs("tick")' = Runs("tick") /\ Runs("catchup")' = Runs("catchup")
    BY <1>1, <1>3 DEF Runs
  <2>11. planned' \cap doing' = {}
         /\ \A r \in planned' \cup (doing' \cap done') : r[1] # "manual"
    BY <1>1, <1>3 DEF CronIInv, OneBatchOfAKind, AllRuns
  <2>12. \A r, s \in AllRuns' : r[1] = "manual" /\ s[1] = "manual" => r = s
    BY <1>1, <2>2, <2>3
  <2>13. OneBatchOfAKind'
    BY <1>1, <2>10, <2>11, <2>12 DEF CronIInv, OneBatchOfAKind
  <2> QED
    BY <1>1, <2>5, <2>9, <2>13 DEF CronIInv, DownIsIdle
<1>4. ASSUME Reservable(i), PersistThrows(Marking(jobs, {i}), {i}),
             UNCHANGED <<doing, unmarked>>
      PROVE  CronIInv'
  <2>1. Markable(jobs, {i})
    BY <1>4 DEF Markable, Reservable
  <2>2. /\ StoreOk(jobs)' /\ StoreOk(onDisk)' /\ \A j \in CronJobs : JobOk(j)'
        /\ orphaned' \subseteq CronJobs /\ stuck' \subseteq CronJobs
    BY <1>1, <1>4, <2>1, MarksNotWritten DEF PersistThrows
  <2>3. /\ jobs' \in [CronJobs -> Job] /\ onDisk' \in [CronJobs -> Job]
        /\ changes' \in 0 .. MaxChanges
    BY <1>4, <2>1, MarkingTypes
  <2>4. CronTypeOK'
    BY <1>1, <1>4, <2>2, <2>3 DEF CronIInv, CronTypeOK
  <2>5. AllRuns' = AllRuns
    BY <1>1, <1>4 DEF AllRuns
  <2>6. DownIsIdle' /\ OneBatchOfAKind'
    BY <1>1, <1>4, <2>5 DEF CronIInv, DownIsIdle, OneBatchOfAKind, Runs
  <2> QED
    BY <2>2, <2>4, <2>6 DEF CronIInv
<1> QED
  BY <1>2, <1>3, <1>4 DEF ReserveManualRun, storeVars
-----------------------------------------------------------------------------
(***************************************************************************)
(* Results. The runs by who end: their jobs are in use no more, or were    *)
(* exempt all along.                                                       *)
(***************************************************************************)
ResultsOf(who) ==
  /\ who \in Who /\ Runs(who) = {} /\ startStage # "down"
  /\ planned' = planned /\ doing' = doing /\ done' = {d \in done : d[1] # who}
  /\ unmarked' = {j \in unmarked : InUse(j)'}

LEMMA UsesEnd ==
  ASSUME CronIInv, NEW who, ResultsOf(who), NEW j \in CronJobs
  PROVE  /\ UsesOf(j)' \subseteq UsesOf(j)
         /\ UsesOf(j)' = UsesOf(j) \/ j \in Ended(who)
         /\ j \in unmarked' <=> j \in unmarked /\ UsesOf(j)' # {}
         /\ j \in Ended(who) /\ j \notin unmarked' => UsesOf(j)' = {}
<1>1. UsesOf(j)' = {r \in UsesOf(j) : r[1] # who}
  BY DEF ResultsOf, UsesOf, AllRuns, Runs
<1>2. ASSUME j \notin Ended(who) PROVE \A r \in UsesOf(j) : r[1] # who
  <2> SUFFICES ASSUME NEW r \in UsesOf(j), r[1] = who PROVE FALSE
    OBVIOUS
  <2>1. r \in Who \X CronJobs /\ r[2] = j /\ r \in AllRuns
    BY DEF UsesOf, AllRuns, CronIInv, CronTypeOK
  <2>2. r = <<who, j>> /\ r \in done
    BY <2>1 DEF ResultsOf, AllRuns, Runs
  <2> QED
    BY <1>2, <2>2 DEF Ended
<1>3. j \in unmarked' <=> j \in unmarked /\ UsesOf(j)' # {}
  <2>1. InUse(j)' <=> UsesOf(j)' # {}
    BY DEF InUse, UsesOf, AllRuns
  <2> QED
    BY <2>1 DEF ResultsOf
<1>4. ASSUME j \in Ended(who), j \notin unmarked' PROVE UsesOf(j)' = {}
  <2>1. CASE j \in unmarked
    BY <1>3, <1>4, <2>1
  <2>2. CASE j \notin unmarked
    <3>1. <<who, j>> \in UsesOf(j)
      BY <1>4 DEF Ended, UsesOf, AllRuns
    <3>2. \A r \in UsesOf(j) : r = <<who, j>>
      BY <2>2, <3>1 DEF CronIInv, JobOk
    <3> QED
      BY <1>1, <3>2
  <2> QED
    BY <2>1, <2>2
<1> QED
  BY <1>1, <1>2, <1>3, <1>4

(***************************************************************************)
(* A store h that is b with these results fits, and it still does when it  *)
(* is maintained.                                                          *)
(***************************************************************************)
HasResults(h, b, who) ==
  /\ b = jobs \/ b = onDisk
  /\ h \in [CronJobs -> Job]
  /\ \A j \in CronJobs :
       IF j \in Ended(who) /\ b[j].stored = "yes"
       THEN h[j].stored \in {"yes", "removed"} /\ ~h[j].marked /\ h[j].skipped = "no"
       ELSE /\ h[j].stored = b[j].stored /\ h[j].enabled = b[j].enabled
            /\ h[j].marked = b[j].marked /\ h[j].skipped = b[j].skipped

LEMMA ResultsFit ==
  ASSUME CronIInv, NEW who, ResultsOf(who), NEW h, NEW b, HasResults(h, b, who)
  PROVE  LET g == RecomputeNextRunsForMaintenance(h)
         IN /\ g \in [CronJobs -> Job]
            /\ \A j \in CronJobs :
                 Fits(g, j) /\ (g[j].stored = b[j].stored \/ j \in Ended(who))
<1>1. /\ StoreOk(b) /\ h \in [CronJobs -> Job]
      /\ \A j \in CronJobs : Lost(j) <=> j \in orphaned
  BY StoresOk DEF HasResults, ResultsOf, Lost
<1>2. ASSUME NEW j \in CronJobs
      PROVE  /\ Fits(h, j) /\ h[j].skipped # "never"
             /\ h[j].stored = b[j].stored \/ j \in Ended(who)
  <2>1. RecordOk(b[j], UsesOf(j) # {}, j \in unmarked, Lost(j))
    BY <1>1 DEF StoreOk
  <2>2. /\ UsesOf(j)' = UsesOf(j) \/ j \in Ended(who)
        /\ j \in unmarked' <=> j \in unmarked /\ UsesOf(j)' # {}
        /\ j \in Ended(who) /\ j \notin unmarked' => UsesOf(j)' = {}
    BY UsesEnd
  <2>3. CASE j \in Ended(who) /\ b[j].stored = "yes"
    <3>1. h[j].stored \in {"yes", "removed"} /\ ~h[j].marked /\ h[j].skipped = "no"
      BY <2>3 DEF HasResults
    <3> QED
      BY <2>2, <2>3, <3>1 DEF Fits, RecordOk
  <2>4. CASE ~(j \in Ended(who) /\ b[j].stored = "yes")
    <3>1. /\ h[j].stored = b[j].stored /\ h[j].enabled = b[j].enabled
          /\ h[j].marked = b[j].marked /\ h[j].skipped = b[j].skipped
      BY <2>4 DEF HasResults
    <3>2. h[j].stored = "yes" => UsesOf(j)' = UsesOf(j)
      BY <2>2, <2>4, <3>1
    <3> QED
      BY <1>1, <2>1, <2>2, <3>1, <3>2 DEF Fits, RecordOk
  <2> QED
    BY <2>3, <2>4
<1> DEFINE g == RecomputeNextRunsForMaintenance(h)
<1>3. g \in [CronJobs -> Job] /\ SlotsKept(g) /\ OnlyRecomputed(h, g)
  BY <1>1, <1>2, Maintained DEF SlotsKept
<1> HIDE DEF g
<1>4. ASSUME NEW j \in CronJobs PROVE Fits(g, j) /\ g[j].stored = h[j].stored
  <2>1. /\ g[j].stored = h[j].stored /\ g[j].enabled = h[j].enabled
        /\ g[j].marked = (h[j].marked /\ h[j].enabled /\ j \notin stuck)
        /\ g[j].skipped # "never"
    BY <1>3 DEF OnlyRecomputed, SlotsKept
  <2>2. /\ Fits(h, j) /\ h[j].marked \in BOOLEAN /\ h[j].enabled \in BOOLEAN
    BY <1>1, <1>2 DEF Job
  <2>3. j \in stuck => UsesOf(j)' = {}
    BY UsesEnd DEF CronIInv, JobOk
  <2> QED
    BY <2>1, <2>2, <2>3 DEF Fits, RecordOk
<1>5. g \in [CronJobs -> Job]
      /\ \A j \in CronJobs : Fits(g, j) /\ (g[j].stored = b[j].stored \/ j \in Ended(who))
  BY <1>2, <1>3, <1>4
<1> QED
  BY <1>5 DEF g

LEMMA ResultsStep ==
  ASSUME CronIInv, NEW who, ResultsOf(who), NEW h, NEW b, HasResults(h, b, who),
         \/ Persists(RecomputeNextRunsForMaintenance(h))
         \/ PersistThrows(RecomputeNextRunsForMaintenance(h), Ended(who)),
         UNCHANGED <<interrupted, manual>>, deferred' \in {deferred, {}},
         timerArmed' \in BOOLEAN, ticking' \in BOOLEAN, ticking' = ticking \/ who = "tick",
         \/ startStage' = startStage
         \/ who = "catchup" /\ startStage' \in {"caughtUp", "failed"}
  PROVE  CronIInv'
<1> DEFINE f == RecomputeNextRunsForMaintenance(h)
<1>1. f \in [CronJobs -> Job]
      /\ \A j \in CronJobs : Fits(f, j) /\ (f[j].stored = b[j].stored \/ j \in Ended(who))
  BY ResultsFit
<1>2. /\ Ended(who) \in SUBSET CronJobs
      /\ startStage # "down" /\ startStage' # "down"
  BY DEF Ended, ResultsOf
<1>3. /\ Persists(f) \/ PersistThrows(f, Ended(who))
  OBVIOUS
<1> HIDE DEF f
<1>4. /\ Writes(f) \/ WriteFails(f, Ended(who))
      /\ jobs' \in [CronJobs -> Job] /\ onDisk' \in [CronJobs -> Job]
      /\ changes' \in 0 .. MaxChanges
  BY <1>1, <1>2, <1>3, WrittenTypes
<1>5. ASSUME NEW j \in CronJobs
      PROVE  /\ Fits(f, j)
             /\ UsesOf(j)' \subseteq UsesOf(j)
             /\ UsesOf(j)' = UsesOf(j) \/ j \in Ended(who)
             /\ j \in unmarked' \/ j \notin unmarked \/ UsesOf(j)' = {}
             /\ f[j].stored # "yes" => \/ jobs[j].stored # "yes" \/ onDisk[j].stored # "yes"
                                       \/ UsesOf(j) = {} \/ j \in Ended(who)
  <2>1. /\ UsesOf(j)' \subseteq UsesOf(j)
        /\ UsesOf(j)' = UsesOf(j) \/ j \in Ended(who)
        /\ j \in unmarked' <=> j \in unmarked /\ UsesOf(j)' # {}
    BY UsesEnd
  <2>2. b = jobs \/ b = onDisk
    BY DEF HasResults
  <2> QED
    BY <1>1, <2>1, <2>2
<1>6. /\ StoreOk(jobs)' /\ StoreOk(onDisk)' /\ \A j \in CronJobs : JobOk(j)'
      /\ orphaned' \subseteq CronJobs /\ stuck' \subseteq CronJobs
  BY <1>1, <1>2, <1>4, <1>5, WrittenOrNot
<1>7. /\ AllRuns' \subseteq AllRuns /\ done' \subseteq done /\ unmarked' \subseteq unmarked
      /\ planned' = planned /\ doing' = doing
      /\ Runs("tick")' = Runs("tick") /\ Runs("catchup")' = Runs("catchup")
      /\ Runs(who) = {}
  BY DEF AllRuns, Runs, ResultsOf
<1>8. CronTypeOK'
  BY <1>4, <1>6, <1>7 DEF CronIInv, CronTypeOK
<1>9. DownIsIdle' /\ OneBatchOfAKind'
  BY <1>2, <1>7 DEF CronIInv, DownIsIdle, OneBatchOfAKind
<1> QED
  BY <1>6, <1>8, <1>9 DEF CronIInv

LEMMA WithResults ==
  ASSUME NEW who, NEW status \in Results(who), NEW b \in [CronJobs -> Job],
         b = jobs \/ b = onDisk
  PROVE  HasResults(AfterResults(who, status, b), b, who)
<1> DEFINE h == AfterResults(who, status, b)
<1>1. h = [j \in CronJobs |-> h[j]]
      /\ \A j \in CronJobs : h[j] = IF j \in Ended(who) /\ b[j].stored = "yes"
                                    THEN ApplyJobResult(j, b[j], status[j]) ELSE b[j]
  BY DEF AfterResults
<1> HIDE DEF h
<1>2. ASSUME NEW j \in CronJobs
      PROVE  /\ h[j] \in Job
             /\ IF j \in Ended(who) /\ b[j].stored = "yes"
                THEN /\ h[j].stored \in {"yes", "removed"} /\ ~h[j].marked
                     /\ h[j].skipped = "no"
                ELSE h[j] = b[j]
  <2>1. CASE j \in Ended(who) /\ b[j].stored = "yes"
    <3>1. status[j] \in Statuses /\ h[j] = ApplyJobResult(j, b[j], status[j]) /\ b[j] \in Job
      BY <1>1, <2>1 DEF Results
    <3> QED
      BY <2>1, <3>1, AppliedResult
  <2>2. CASE ~(j \in Ended(who) /\ b[j].stored = "yes")
    BY <1>1, <2>2
  <2> QED
    BY <2>1, <2>2
<1>3. HasResults(h, b, who)
  BY <1>1, <1>2 DEF HasResults
<1> QED
  BY <1>3 DEF h

LEMMA ApplyOutcomesStep ==
  ASSUME CronIInv, ApplyOutcomes
  PROVE  CronIInv'
<1>1. PICK status \in Results("tick") :
        LET f == RecomputeNextRunsForMaintenance(AfterResults("tick", status, onDisk))
        IN /\ Persists(f) \/ PersistThrows(f, Ended("tick"))
           /\ timerArmed' = ArmTimer(f)
  BY Zenon DEF ApplyOutcomes
<1> DEFINE h == AfterResults("tick", status, onDisk)
<1>2. HasResults(h, onDisk, "tick")
  BY StoresOk, SlotsOf, WithResults
<1>3. ResultsOf("tick")
  BY DEF ApplyOutcomes, CronIInv, DownIsIdle, ResultsOf, Who
<1>4. timerArmed' \in BOOLEAN
  BY <1>1, ArmIsBoolean
<1>5. /\ UNCHANGED <<startStage, interrupted, deferred, manual>>
      /\ ticking' \in BOOLEAN
      /\ \/ Persists(RecomputeNextRunsForMaintenance(h))
         \/ PersistThrows(RecomputeNextRunsForMaintenance(h), Ended("tick"))
  BY <1>1 DEF ApplyOutcomes
<1> HIDE DEF h
<1> QED
  BY <1>2, <1>3, <1>4, <1>5, ResultsStep

LEMMA CatchupOutcomesStep ==
  ASSUME CronIInv, ApplyStartupCatchupOutcomes
  PROVE  CronIInv'
<1> DEFINE F(a) == [j \in CronJobs |-> IF j \in deferred /\ Enabled(a, j)
                                      THEN [a[j] EXCEPT !.next = "later"] ELSE a[j]]
<1>1. PICK status \in Results("catchup") :
        LET f == RecomputeNextRunsForMaintenance(F(AfterResults("catchup", status, jobs)))
        IN \/ Persists(f) /\ startStage' = "caughtUp"
           \/ PersistThrows(f, Ended("catchup")) /\ startStage' = "failed"
  BY Zenon DEF ApplyStartupCatchupOutcomes
<1> DEFINE a == AfterResults("catchup", status, jobs)
           h == F(a)
<1>2. HasResults(a, jobs, "catchup")
  BY StoresOk, SlotsOf, WithResults
<1>3. HasResults(h, jobs, "catchup")
  <2> HIDE DEF a
  <2>1. \A j \in CronJobs : h[j] \in {a[j], [a[j] EXCEPT !.next = "later"]}
    OBVIOUS
  <2>2. h = [j \in CronJobs |-> h[j]]
    OBVIOUS
  <2> HIDE DEF h
  <2>3. \A j \in CronJobs :
          /\ h[j] \in Job /\ h[j].stored = a[j].stored /\ h[j].marked = a[j].marked
          /\ h[j].enabled = a[j].enabled /\ h[j].skipped = a[j].skipped
    <3> SUFFICES ASSUME NEW j \in CronJobs
                 PROVE  /\ h[j] \in Job /\ h[j].stored = a[j].stored
                        /\ h[j].marked = a[j].marked /\ h[j].enabled = a[j].enabled
                        /\ h[j].skipped = a[j].skipped
      OBVIOUS
    <3>1. a[j] \in Job
      BY <1>2 DEF HasResults
    <3>2. CASE h[j] = a[j]
      BY <3>1, <3>2
    <3>3. CASE h[j] = [a[j] EXCEPT !.next = "later"]
      BY <3>1, <3>3 DEF Job
    <3> QED
      BY <2>1, <3>2, <3>3
  <2> QED
    BY <1>2, <2>2, <2>3 DEF HasResults
<1>4. ResultsOf("catchup")
  BY DEF ApplyStartupCatchupOutcomes, ResultsOf, Who
<1>5. /\ UNCHANGED <<interrupted, timerArmed, ticking, manual>> /\ deferred' = {}
      /\ timerArmed' \in BOOLEAN /\ ticking' \in BOOLEAN
  BY DEF ApplyStartupCatchupOutcomes, CronIInv, CronTypeOK
<1>6. /\ \/ Persists(RecomputeNextRunsForMaintenance(h))
         \/ PersistThrows(RecomputeNextRunsForMaintenance(h), Ended("catchup"))
      /\ startStage' \in {"caughtUp", "failed"}
  BY <1>1
<1> HIDE DEF h
<1> QED
  BY <1>3, <1>4, <1>5, <1>6, ResultsStep

LEMMA FinishManualStep ==
  ASSUME CronIInv, NEW i \in CronJobs, FinishManualRun(i)
  PROVE  CronIInv'
<1> DEFINE u == <<"manual", i>>
<1>1. u \in done /\ u \in AllRuns
  BY DEF FinishManualRun, AllRuns
<1>2. \A r \in AllRuns : r[1] = "manual" <=> r = u
  BY <1>1 DEF CronIInv, OneBatchOfAKind
<1>3. Ended("manual") = {i}
  BY <1>1, <1>2 DEF Ended, AllRuns
<1>4. /\ startStage # "down"
      /\ UNCHANGED <<startStage, interrupted, deferred, ticking, planned, doing, manual>>
      /\ ticking' \in BOOLEAN /\ unmarked' = {j \in unmarked : InUse(j)'}
  BY <1>1 DEF FinishManualRun, CronIInv, CronTypeOK, DownIsIdle
<1>5. ResultsOf("manual")
  <2>1. done' = {d \in done : d[1] # "manual"}
    BY <1>2 DEF FinishManualRun, AllRuns
  <2>2. u \notin planned \cup doing
    BY <1>1 DEF CronIInv, OneBatchOfAKind
  <2>3. Runs("manual") = {}
    BY <1>2, <2>2 DEF Runs, AllRuns
  <2> QED
    BY <1>4, <2>1, <2>3 DEF ResultsOf, Who
<1>6. ASSUME jobs[i].stored = "yes", NEW status \in Statuses,
             LET f == RecomputeNextRunsForMaintenance(
                        Merged(i, ApplyJobResult(i, jobs[i], status)))
             IN \/ Persists(f) /\ timerArmed' = ArmTimer(f)
                \/ PersistThrows(f, {i}) /\ UNCHANGED timerArmed
      PROVE  CronIInv'
  <2> DEFINE a == ApplyJobResult(i, jobs[i], status)
             h == Merged(i, a)
             r == [a EXCEPT !.at = onDisk[i].at]
  <2>1. jobs[i] \in Job /\ onDisk \in [CronJobs -> Job]
    BY StoresOk, SlotsOf
  <2>2. a \in Job /\ a.stored \in {"yes", "removed"} /\ ~a.marked /\ a.skipped = "no"
    BY <1>6, <2>1, AppliedResult
  <2>3. h = [onDisk EXCEPT ![i] = IF onDisk[i].stored = "yes" THEN r ELSE onDisk[i]]
    BY <2>1 DEF Merged
  <2> HIDE DEF a
  <2>4. r \in Job /\ r.stored \in {"yes", "removed"} /\ ~r.marked /\ r.skipped = "no"
    <3>1. onDisk[i].at \in {"later", "due"}
      BY <2>1 DEF Job
    <3> QED
      BY <2>2, <3>1 DEF Job
  <2> HIDE DEF h, r
  <2>5. /\ h \in [CronJobs -> Job] /\ \A j \in CronJobs : j # i => h[j] = onDisk[j]
        /\ h[i] = IF onDisk[i].stored = "yes" THEN r ELSE onDisk[i]
    BY <2>1, <2>3, <2>4
  <2>6. HasResults(h, onDisk, "manual")
    BY <1>3, <2>4, <2>5 DEF HasResults
  <2>7. timerArmed' \in BOOLEAN
    BY <1>6, ArmIsBoolean DEF CronIInv, CronTypeOK
  <2>8. \/ Persists(RecomputeNextRunsForMaintenance(h))
        \/ PersistThrows(RecomputeNextRunsForMaintenance(h), Ended("manual"))
    BY <1>3, <1>6 DEF h, a
  <2> QED
    BY <1>4, <1>5, <2>6, <2>7, <2>8, ResultsStep
<1>7. ASSUME jobs[i].stored # "yes",
             UNCHANGED <<jobs, onDisk, stuck, orphaned, changes, timerArmed>>
      PROVE  CronIInv'
  <2>1. ASSUME NEW j \in CronJobs
        PROVE  /\ UsesOf(j)' \subseteq UsesOf(j)
               /\ UsesOf(j)' = UsesOf(j) \/ j = i
               /\ j \in unmarked' <=> j \in unmarked /\ UsesOf(j)' # {}
               /\ j = i /\ j \notin unmarked' => UsesOf(j)' = {}
               /\ Lost(j)' <=> Lost(j)
    BY <1>3, <1>4, <1>5, <1>7, UsesEnd DEF Lost
  <2>2. ASSUME NEW j \in CronJobs PROVE JobOk(j)'
    <3>1. JobOk(j)
      BY DEF CronIInv
    <3> QED
      BY <1>7, <2>1, <3>1 DEF JobOk, MarkedIn
  <2>3. ASSUME NEW j \in CronJobs
        PROVE  /\ RecordOk(jobs[j], UsesOf(j)' # {}, j \in unmarked', Lost(j)')
               /\ RecordOk(onDisk[j], UsesOf(j)' # {}, j \in unmarked', Lost(j)')
    <3>1. /\ RecordOk(jobs[j], UsesOf(j) # {}, j \in unmarked, Lost(j))
          /\ RecordOk(onDisk[j], UsesOf(j) # {}, j \in unmarked, Lost(j))
      BY StoresOk DEF StoreOk
    <3>2. CASE j # i
      BY <2>1, <3>1, <3>2 DEF RecordOk
    <3>3. CASE j = i
      <4>1. RecordOk(jobs[j], UsesOf(j)' # {}, j \in unmarked', Lost(j)')
        BY <1>7, <3>1, <3>3 DEF RecordOk
      <4>2. onDisk[j].stored = "yes" /\ onDisk[j].marked => Lost(j)
        BY <1>7, <3>3 DEF CronIInv, JobOk, MarkedIn
      <4>3. RecordOk(onDisk[j], UsesOf(j)' # {}, j \in unmarked', Lost(j)')
        BY <2>1, <3>1, <3>3, <4>2 DEF RecordOk
      <4> QED
        BY <4>1, <4>3
    <3> QED
      BY <3>2, <3>3
  <2>4. StoreOk(jobs)' /\ StoreOk(onDisk)'
    BY <1>7, <2>3, StoresOk, SlotsOf DEF StoreOk
  <2>5. CronTypeOK'
    BY <1>4, <1>5, <1>7 DEF CronIInv, CronTypeOK, ResultsOf
  <2>6. DownIsIdle' /\ OneBatchOfAKind'
    <3>1. /\ AllRuns' \subseteq AllRuns /\ done' \subseteq done
          /\ Runs("tick")' = Runs("tick") /\ Runs("catchup")' = Runs("catchup")
      BY <1>5 DEF AllRuns, Runs, ResultsOf
    <3> QED
      BY <1>4, <3>1 DEF CronIInv, DownIsIdle, OneBatchOfAKind
  <2> QED
    BY <2>2, <2>4, <2>5, <2>6 DEF CronIInv
<1> HIDE DEF u
<1>8. \/ jobs[i].stored # "yes" /\ UNCHANGED <<jobs, onDisk, stuck, orphaned, changes, timerArmed>>
      \/ /\ jobs[i].stored = "yes"
         /\ \E status \in Statuses :
              LET f == RecomputeNextRunsForMaintenance(
                         Merged(i, ApplyJobResult(i, jobs[i], status)))
              IN \/ Persists(f) /\ timerArmed' = ArmTimer(f)
                 \/ PersistThrows(f, {i}) /\ UNCHANGED timerArmed
  BY DEF FinishManualRun, storeVars
<1> QED
  BY <1>6, <1>7, <1>8
-----------------------------------------------------------------------------
(***************************************************************************)
(* Edits.                                                                  *)
(***************************************************************************)
LEMMA EditStep ==
  ASSUME CronIInv, NEW f \in [CronJobs -> Job], NEW lost \in SUBSET CronJobs,
         Edit(f, lost), unmarked' \subseteq CronJobs, unmarked \subseteq unmarked',
         \A j \in CronJobs :
           /\ Fits(f, j)
           /\ f[j].stored # "yes" => \/ jobs[j].stored # "yes" \/ onDisk[j].stored # "yes"
                                     \/ UsesOf(j) = {} \/ j \in lost
  PROVE  CronIInv'
<1>1. /\ startStage # "down" /\ changes < MaxChanges /\ changes' = changes + 1
      /\ UNCHANGED <<startStage, interrupted, deferred, ticking, planned, doing, done, manual>>
      /\ Writes(f) \/ WriteFails(f, lost)
  BY DEF Edit, Change, runVars
<1>2. timerArmed' \in BOOLEAN
  BY ArmIsBoolean DEF Edit, ArmAfterEdit, CronIInv, CronTypeOK
<1>3. AllRuns' = AllRuns /\ \A j \in CronJobs : UsesOf(j)' = UsesOf(j)
  BY <1>1 DEF AllRuns, UsesOf
<1>4. /\ StoreOk(jobs)' /\ StoreOk(onDisk)' /\ \A j \in CronJobs : JobOk(j)'
      /\ orphaned' \subseteq CronJobs /\ stuck' \subseteq CronJobs
  BY <1>1, <1>3, WrittenOrNot
<1>5. jobs' \in [CronJobs -> Job] /\ onDisk' \in [CronJobs -> Job]
  BY <1>1 DEF Writes, WriteFails, CronIInv, CronTypeOK
<1>6. CronTypeOK'
  BY <1>1, <1>2, <1>4, <1>5, CronAssumption DEF CronIInv, CronTypeOK, CronAssumption
<1>7. DownIsIdle' /\ OneBatchOfAKind'
  BY <1>1, <1>3 DEF CronIInv, DownIsIdle, OneBatchOfAKind, Runs
<1> QED
  BY <1>4, <1>6, <1>7 DEF CronIInv

LEMMA UpdateStep ==
  ASSUME CronIInv, NEW i \in CronJobs, NEW enabled \in BOOLEAN, NEW reschedule \in BOOLEAN,
         UpdateJob(i, enabled, reschedule)
  PROVE  CronIInv'
<1> DEFINE r == [jobs[i] EXCEPT !.enabled = enabled,
                                !.at = IF reschedule THEN "later" ELSE @]
           s == IF enabled THEN Recomputed(i, r, "maybe") ELSE Normalized(i, r)
           f == [jobs EXCEPT ![i] = s]
<1>1. /\ jobs[i].stored = "yes" /\ Edit(f, {})
      /\ unmarked' = IF ~enabled /\ InUse(i) THEN unmarked \cup {i} ELSE unmarked
  BY DEF UpdateJob
<1>2. jobs \in [CronJobs -> Job] /\ StoreOk(jobs)
  BY StoresOk, SlotsOf
<1>3. /\ r \in Job /\ r.stored = "yes" /\ r.enabled = enabled
      /\ r.marked = jobs[i].marked /\ r.skipped = jobs[i].skipped
  <2> DEFINE at == IF reschedule THEN "later" ELSE jobs[i].at
  <2>1. at \in {"later", "due"} /\ jobs[i] \in Job
    BY <1>2 DEF Job
  <2>2. r = [jobs[i] EXCEPT !.enabled = enabled, !.at = at]
    BY <2>1 DEF Job
  <2> HIDE DEF at, r
  <2> QED
    BY <1>1, <2>1, <2>2 DEF Job
<1>4. /\ s \in Job /\ s.stored = "yes" /\ s.enabled = enabled
      /\ s.marked => jobs[i].marked /\ enabled
      /\ enabled => s.marked = jobs[i].marked
      /\ s.skipped \in {jobs[i].skipped, "maybe"}
  <2>0. jobs[i].marked \in BOOLEAN
    BY <1>2 DEF Job
  <2> HIDE DEF r
  <2>1. CASE enabled
    <3>1. s = Recomputed(i, r, "maybe")
      BY <2>1
    <3> HIDE DEF s
    <3> QED
      BY <1>3, <2>0, <2>1, <3>1, RecomputedJob
  <2>2. CASE ~enabled
    <3>1. s = Normalized(i, r)
      BY <2>2
    <3> HIDE DEF s
    <3> QED
      BY <1>3, <2>2, <3>1, NormalizedJob
  <2> QED
    BY <2>1, <2>2
<1> HIDE DEF r, s
<1>5. /\ f \in [CronJobs -> Job] /\ f[i] = s /\ {} \in SUBSET CronJobs
      /\ \A j \in CronJobs : j # i => f[j] = jobs[j]
  BY <1>2, <1>4
<1> HIDE DEF f
<1>6. unmarked' \subseteq CronJobs /\ unmarked \subseteq unmarked'
  BY <1>1 DEF CronIInv, CronTypeOK
<1>7. startStage # "down" /\ \A j \in CronJobs : UsesOf(j)' = UsesOf(j)
  BY <1>1 DEF Edit, runVars, UsesOf, AllRuns
<1>8. ASSUME NEW j \in CronJobs
      PROVE  Fits(f, j) /\ (f[j].stored # "yes" => jobs[j].stored # "yes")
  <2>1. /\ RecordOk(jobs[j], UsesOf(j) # {}, j \in unmarked, Lost(j))
        /\ (Lost(j) <=> j \in orphaned)
    BY <1>2, <1>7 DEF StoreOk, Lost
  <2>2. CASE j # i
    <3>1. f[j] = jobs[j] /\ (j \in unmarked' <=> j \in unmarked)
      BY <1>1, <1>5, <2>2
    <3> QED
      BY <1>7, <2>1, <3>1 DEF Fits, RecordOk
  <2>3. CASE j = i
    <3>1. enabled \/ UsesOf(j) = {} \/ j \in unmarked'
      BY <1>1, <2>3, UsedIsInUse
    <3>2. f[j] = s /\ (j \in unmarked => j \in unmarked')
      BY <1>5, <1>6, <2>3
    <3> QED
      BY <1>1, <1>4, <1>7, <2>1, <2>3, <3>1, <3>2 DEF Fits, RecordOk
  <2> QED
    BY <2>2, <2>3
<1> QED
  BY <1>1, <1>5, <1>6, <1>8, EditStep

LEMMA RemoveStep ==
  ASSUME CronIInv, NEW i \in CronJobs, RemoveJob(i)
  PROVE  CronIInv'
<1> DEFINE f == [jobs EXCEPT ![i] = Removed(jobs[i])]
           lost == {x \in {i} : InUse(x)}
<1>1. /\ Edit(f, lost) /\ unmarked' = unmarked
      /\ jobs \in [CronJobs -> Job] /\ StoreOk(jobs)
  BY StoresOk, SlotsOf DEF RemoveJob
<1>2. /\ Removed(jobs[i]) \in Job /\ Removed(jobs[i]).stored = "removed"
      /\ ~Removed(jobs[i]).marked /\ Removed(jobs[i]).skipped = jobs[i].skipped
  <2>1. jobs[i] \in Job
    BY <1>1
  <2> QED
    BY <2>1 DEF Removed, Job
<1>3. /\ f \in [CronJobs -> Job] /\ f[i] = Removed(jobs[i])
      /\ \A j \in CronJobs : j # i => f[j] = jobs[j]
  BY <1>1, <1>2
<1>4. lost \in SUBSET CronJobs /\ (UsesOf(i) = {} \/ i \in lost)
  BY UsedIsInUse
<1>5. unmarked' \subseteq CronJobs
  BY <1>1 DEF CronIInv, CronTypeOK
<1> HIDE DEF f, lost
<1>6. startStage # "down" /\ \A j \in CronJobs : UsesOf(j)' = UsesOf(j)
  BY <1>1 DEF Edit, runVars, UsesOf, AllRuns
<1>7. ASSUME NEW j \in CronJobs
      PROVE  /\ Fits(f, j)
             /\ f[j].stored # "yes" => jobs[j].stored # "yes" \/ UsesOf(j) = {} \/ j \in lost
  <2>1. /\ RecordOk(jobs[j], UsesOf(j) # {}, j \in unmarked, Lost(j))
        /\ (Lost(j) <=> j \in orphaned)
    BY <1>1, <1>6 DEF StoreOk, Lost
  <2>2. CASE j # i
    <3>1. f[j] = jobs[j]
      BY <1>3, <2>2
    <3> QED
      BY <1>1, <1>6, <2>1, <3>1 DEF Fits, RecordOk
  <2>3. CASE j = i
    BY <1>1, <1>2, <1>3, <1>4, <1>6, <2>1, <2>3 DEF Fits, RecordOk
  <2> QED
    BY <2>2, <2>3
<1> QED
  BY <1>1, <1>3, <1>4, <1>5, <1>7, EditStep

LEMMA AddStep ==
  ASSUME CronIInv, NEW i \in CronJobs, AddJob(i)
  PROVE  CronIInv'
<1> DEFINE r == [jobs[i] EXCEPT !.stored = "yes", !.enabled = TRUE,
                                !.at = "later", !.next = "later"]
           h == [jobs EXCEPT ![i] = r]
           f == RecomputeNextRuns(h, "maybe")
<1>1. jobs \in [CronJobs -> Job] /\ StoreOk(jobs)
  BY StoresOk, SlotsOf
<1>2. /\ jobs[i].stored = "never" /\ UsesOf(i) = {} /\ unmarked' = unmarked
      /\ Edit(f, {})
  <2>1. h = [jobs EXCEPT ![i].stored = "yes", ![i].enabled = TRUE,
                         ![i].at = "later", ![i].next = "later"]
    BY <1>1
  <2> HIDE DEF h
  <2> QED
    BY <2>1, UsedIsInUse DEF AddJob
<1>3. /\ r \in Job /\ r.stored = "yes" /\ r.marked = jobs[i].marked
      /\ r.skipped = jobs[i].skipped
  <2>1. jobs[i] \in Job
    BY <1>1
  <2> QED
    BY <2>1 DEF Job
<1> HIDE DEF r
<1>4. h \in [CronJobs -> Job] /\ h[i] = r /\ \A j \in CronJobs : j # i => h[j] = jobs[j]
  BY <1>1, <1>3
<1> HIDE DEF h
<1>5. StoreOk(h)
  <2>1. ASSUME NEW j \in CronJobs
        PROVE  RecordOk(h[j], UsesOf(j) # {}, j \in unmarked, Lost(j))
    <3>1. RecordOk(jobs[j], UsesOf(j) # {}, j \in unmarked, Lost(j))
      BY <1>1 DEF StoreOk
    <3>2. CASE j # i
      BY <1>4, <3>1, <3>2 DEF RecordOk
    <3>3. CASE j = i
      BY <1>2, <1>3, <1>4, <3>1, <3>3 DEF RecordOk
    <3> QED
      BY <3>2, <3>3
  <2> QED
    BY <1>4, <2>1 DEF StoreOk
<1>6. StoreOk(f) /\ \A j \in CronJobs : f[j].stored = h[j].stored
  BY <1>5, MovedStore
<1> HIDE DEF f
<1>7. f \in [CronJobs -> Job] /\ {} \in SUBSET CronJobs
  BY <1>6, SlotsOf
<1>8. /\ startStage # "down" /\ UNCHANGED <<planned, doing, done, unmarked>>
      /\ unmarked' \subseteq CronJobs
  BY <1>2 DEF Edit, runVars, CronIInv, CronTypeOK
<1>9. \A j \in CronJobs : Fits(f, j)
  BY <1>6, <1>8, KeptUses
<1>10. \A j \in CronJobs : f[j].stored # "yes" => jobs[j].stored # "yes"
  BY <1>3, <1>4, <1>6
<1> QED
  BY <1>2, <1>7, <1>8, <1>9, <1>10, EditStep

LEMMA CrashStep ==
  ASSUME CronIInv, CronCrash
  PROVE  CronIInv'
<1>1. /\ AllRuns' = {} /\ planned' = {} /\ doing' = {} /\ done' = {}
      /\ startStage' = "down" /\ jobs' = onDisk /\ onDisk' = onDisk
      /\ manual' = {} /\ deferred' = {} /\ stuck' = {} /\ unmarked' = {} /\ orphaned' = {}
      /\ interrupted' = interrupted
      /\ changes < MaxChanges /\ changes' = changes + 1
  BY DEF CronCrash, Change, AllRuns
<1>2. timerArmed' \in BOOLEAN /\ ticking' \in BOOLEAN
  BY Zenon DEF CronCrash
<1>3. CronTypeOK'
  BY <1>1, <1>2, CronAssumption DEF CronIInv, CronTypeOK, CronAssumption
<1>4. DownIsIdle' /\ OneBatchOfAKind'
  BY <1>1 DEF CronCrash, DownIsIdle, OneBatchOfAKind, Runs
<1>5. \A j \in CronJobs : UsesOf(j)' = {} /\ Lost(j)'
  BY <1>1 DEF UsesOf, Lost
<1>6. StoreOk(jobs)' /\ StoreOk(onDisk)'
  <2>1. ASSUME NEW j \in CronJobs
        PROVE  RecordOk(onDisk[j], UsesOf(j)' # {}, j \in unmarked', Lost(j)')
    <3>1. RecordOk(onDisk[j], UsesOf(j) # {}, j \in unmarked, Lost(j))
      BY StoresOk DEF StoreOk
    <3> QED
      BY <1>5, <3>1 DEF RecordOk
  <2> QED
    BY <1>1, <2>1, StoresOk, SlotsOf DEF StoreOk
<1>7. \A j \in CronJobs : JobOk(j)'
  BY <1>1, <1>5 DEF JobOk
<1> QED
  BY <1>3, <1>4, <1>6, <1>7 DEF CronIInv
-----------------------------------------------------------------------------
(***************************************************************************)
(* The invariant holds of every execution.                                 *)
(***************************************************************************)
LEMMA StutterStep ==
  ASSUME CronIInv, UNCHANGED cronVars
  PROVE  CronIInv'
<1>1. UNCHANGED <<jobs, onDisk, startStage, interrupted, deferred, timerArmed, ticking,
                  planned, doing, done, manual, stuck, unmarked, orphaned, changes>>
  BY DEF cronVars
<1>2. AllRuns' = AllRuns
  BY <1>1 DEF AllRuns
<1>3. CronTypeOK' /\ DownIsIdle' /\ OneBatchOfAKind'
  BY <1>1, <1>2 DEF CronIInv, CronTypeOK, DownIsIdle, OneBatchOfAKind, Runs
<1>4. StoreOk(jobs)' /\ StoreOk(onDisk)' /\ \A j \in CronJobs : JobOk(j)'
  BY <1>1, <1>2, StoresOk, MemoryStep
<1> QED
  BY <1>3, <1>4 DEF CronIInv

LEMMA CronStep == CronIInv /\ [CronNext]_cronVars => CronIInv'
<1> SUFFICES ASSUME CronIInv, [CronNext]_cronVars PROVE CronIInv'
  OBVIOUS
<1>1. CASE LoadStore \/ ReadStore
  BY <1>1, LoadStoreStep, ReadStoreStep
<1>2. CASE StartSteps
  BY <1>2, PlanStep, CatchupOutcomesStep, FinishStartStep DEF StartSteps
<1>3. CASE TickSteps
  BY <1>3, MarkDueStep, NothingDueStep, ApplyOutcomesStep DEF TickSteps
<1>4. CASE ManualSteps
  <2>1. "manual" \in Who
    BY DEF Who
  <2> QED
    BY <1>4, <2>1, ReserveStep, EndRunStep, FinishManualStep DEF ManualSteps
<1>5. CASE RunSteps("tick") \/ RunSteps("catchup")
  <2>1. "tick" \in Who /\ "catchup" \in Who
    BY DEF Who
  <2> QED
    BY <1>5, <2>1, BeginRunStep, EndRunStep DEF RunSteps
<1>6. CASE \E j \in CronJobs : TimePasses(j) \/ MarkerAges(j)
  BY <1>6, TimePassesStep, MarkerAgesStep
<1>7. CASE \E j \in CronJobs : \E mode \in {"due", "force"} : InspectManualRun(j, mode)
  BY <1>7, InspectStep
<1>8. CASE \E j \in CronJobs : \E enabled, reschedule \in BOOLEAN :
             UpdateJob(j, enabled, reschedule)
  BY <1>8, UpdateStep
<1>9. CASE \E j \in CronJobs : RemoveJob(j) \/ AddJob(j)
  BY <1>9, RemoveStep, AddStep
<1>10. CASE CronCrash
  BY <1>10, CrashStep
<1>11. CASE UNCHANGED cronVars
  BY <1>11, StutterStep
<1> QED
  BY <1>1, <1>2, <1>3, <1>4, <1>5, <1>6, <1>7, <1>8, <1>9, <1>10, <1>11 DEF CronNext

THEOREM CronInvariant == CronSpec => []CronIInv
BY CronInitial, CronStep, PTL DEF CronSpec

(***************************************************************************)
(* Each variable keeps its type.                                           *)
(***************************************************************************)
THEOREM CronTypeCorrect == CronSpec => []CronTypeOK
<1>1. CronIInv => CronTypeOK
  BY DEF CronIInv
<1> QED
  BY <1>1, CronInvariant, PTL

(***************************************************************************)
(* However ticks, the catch-up, runs by hand, edits and failing writes     *)
(* interleave, a job that was not disabled during a run never waits or     *)
(* runs twice.                                                             *)
(***************************************************************************)
THEOREM RunsOnce == CronSpec => []CronOneRunAtATime
<1>1. ASSUME CronIInv PROVE CronOneRunAtATime
  <2>1. planned \cap doing = {}
    BY <1>1 DEF CronIInv, OneBatchOfAKind
  <2>2. ASSUME NEW j \in CronJobs \ unmarked
        PROVE  Cardinality({r \in planned \cup doing : r[2] = j}) <= 1
    <3> DEFINE R == {r \in planned \cup doing : r[2] = j}
    <3>1. \A r, s \in R : r = s
      BY <1>1 DEF CronIInv, JobOk, UsesOf, AllRuns
    <3> HIDE DEF R
    <3>2. CASE R = {}
      BY <3>2, FS_EmptySet DEF R
    <3>3. CASE R # {}
      <4>1. PICK r \in R : TRUE
        BY <3>3
      <4>2. R = {r}
        BY <3>1, <4>1
      <4>3. Cardinality(R) = 1
        BY <4>2, FS_Singleton
      <4> QED
        BY <4>3 DEF R
    <3> QED
      BY <3>2, <3>3
  <2> QED
    BY <2>1, <2>2 DEF CronOneRunAtATime
<1> QED
  BY <1>1, CronInvariant, PTL

(***************************************************************************)
(* No job of a service that is up stays marked by a run that is over or    *)
(* that a crash cut off, unless a write failed that would have said so.    *)
(***************************************************************************)
THEOREM MarkersHaveOwners == CronSpec => []MarkedMeansRunning
<1>1. ASSUME CronIInv PROVE MarkedMeansRunning
  <2>1. ASSUME startStage # "down", NEW j \in MarkedIn(jobs)
        PROVE  InUse(j) \/ j \in orphaned
    <3>1. j \in CronJobs /\ jobs[j].stored = "yes" /\ jobs[j].marked
      BY DEF MarkedIn
    <3>2. RecordOk(jobs[j], UsesOf(j) # {}, j \in unmarked, Lost(j))
      BY <1>1, <3>1 DEF CronIInv, StoreOk
    <3> QED
      BY <2>1, <3>1, <3>2, UsedIsInUse DEF RecordOk, Lost
  <2> QED
    BY <2>1 DEF MarkedMeansRunning
<1> QED
  BY <1>1, CronInvariant, PTL

(***************************************************************************)
(* Ticks, runs by hand and the catch-up move no due slot on without a run. *)
(***************************************************************************)
THEOREM NoSlotSkipped == CronSpec => []DueSlotsAreKept
<1>1. CronIInv => DueSlotsAreKept
  BY StoresOk, SlotsOf DEF SlotsKept, DueSlotsAreKept
<1> QED
  BY <1>1, CronInvariant, PTL
-----------------------------------------------------------------------------
(***************************************************************************)
(* Side by side: of the two, one moves and the other stays as it began.    *)
(***************************************************************************)
LEMMA SchedulersStep ==
  /\ WakeIInv /\ CronIInv
  /\ [SchedulersNext]_<<part, wakeVars, cronVars>>
  => WakeIInv' /\ CronIInv'
<1> SUFFICES ASSUME WakeIInv, CronIInv, [SchedulersNext]_<<part, wakeVars, cronVars>>
             PROVE  WakeIInv' /\ CronIInv'
  OBVIOUS
<1>1. [WakeNext]_wakeVars /\ [CronNext]_cronVars
  BY DEF SchedulersNext
<1> QED BY <1>1, WakeStep, CronStep

THEOREM SchedulersInvariant == SchedulersSpec => [](WakeIInv /\ CronIInv)
<1>1. SchedulersInit => WakeIInv /\ CronIInv
  BY WakeInitial, CronInitial DEF SchedulersInit
<1> QED BY <1>1, SchedulersStep, PTL DEF SchedulersSpec

(***************************************************************************)
(* The variables of both keep their types, and what holds of each by       *)
(* itself holds side by side.                                              *)
(***************************************************************************)
THEOREM SchedulersTypeCorrect == SchedulersSpec => []SchedulersTypeOK
<1>1. WakeIInv /\ CronIInv => SchedulersTypeOK
  BY WakeTypes DEF CronIInv, SchedulersTypeOK
<1> QED BY <1>1, SchedulersInvariant, PTL

(***************************************************************************)
(* Each of the two takes side by side the steps that its own module        *)
(* allows, so what is proved from the steps of one holds of both.          *)
(***************************************************************************)
THEOREM SchedulersMoveAsSpecified ==
  SchedulersSpec => /\ WakeInit /\ [][WakeNext]_wakeVars
                    /\ CronSpec
<1>1. SchedulersInit => WakeInit /\ CronInit
  BY DEF SchedulersInit
<1>2. [SchedulersNext]_<<part, wakeVars, cronVars>> =>
        [WakeNext]_wakeVars /\ [CronNext]_cronVars
  BY DEF SchedulersNext
<1> QED
  BY <1>1, <1>2, PTL DEF SchedulersSpec, CronSpec
=============================================================================
