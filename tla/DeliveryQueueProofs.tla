------------------------- MODULE DeliveryQueueProofs -------------------------
(***************************************************************************)
(* Proofs about DeliveryQueue for any entries, passes and retry limit: its *)
(* types, the exactness of the claims, that nothing is lost, and that the  *)
(* queue implements the outbox.                                            *)
(*                                                                         *)
(* The invariant adds three facts to the properties: a pass works on an    *)
(* entry exactly while it is inside the body of its loop; an acknowledging *)
(* activity has settled its entry, unless the entry has bestEffort or its  *)
(* channel aborted the live send; and what failDelivery has read is a      *)
(* retry count.                                                            *)
(***************************************************************************)
EXTENDS DeliveryQueue, TLAPS

USE DeliveryAssumption DEF Absent, history, Unprotected

Working == {"loading", "sending", "acking", "unlinking", "failing", "writing",
            "moving", "pruning"}

ItemsWhileWorking == \A r \in Passes : at[Pass(r)] \in Working <=> item[r] # None

AckedAreSettled ==
  \A p \in Activities :
    at[p] = "acking" => EntryOf(p) \in settled \cup Unprotected

DeliveryInv ==
  /\ TypeOK
  /\ ItemsWhileWorking
  /\ ClaimsExact
  /\ AckedAreSettled
  /\ NothingLost
-----------------------------------------------------------------------------
(***************************************************************************)
(* The three kinds of activities.                                          *)
(***************************************************************************)
LEMMA Kinds ==
  /\ \A e \in Entries : /\ Live(e) \in Activities /\ Defer(e) \in Activities
                        /\ ~IsPass(Live(e)) /\ ~IsPass(Defer(e))
                        /\ Live(e)[1] = "live" /\ Live(e)[2] = e
                        /\ Defer(e)[1] = "defer" /\ Defer(e)[2] = e
  /\ \A r \in Passes : /\ Pass(r) \in Activities /\ IsPass(Pass(r))
                       /\ Pass(r)[1] = "pass" /\ Pass(r)[2] = r
  /\ \A p \in Activities : \/ IsPass(p) /\ p[2] \in Passes /\ p = Pass(p[2])
                           \/ /\ ~IsPass(p) /\ p[1] \in {"live", "defer"} /\ p[2] \in Entries
                              /\ \A r \in Passes : p # Pass(r)
                              /\ p = <<p[1], p[2]>>
  /\ \A r, s \in Passes : Pass(r) = Pass(s) => r = s
  /\ \A e, f \in Entries : Live(e) = Live(f) => e = f
  /\ \A e, f \in Entries : Live(e) # Defer(f)
  /\ \A e \in Entries, r \in Passes : Live(e) # Pass(r) /\ Defer(e) # Pass(r)
  BY DEF Activities, Live, Defer, Pass, IsPass

(***************************************************************************)
(* The entry of an activity that works on one is an entry.                 *)
(***************************************************************************)
LEMMA EntryIsEntry ==
  ASSUME TypeOK, ItemsWhileWorking, NEW p \in Activities, at[p] \in Working
  PROVE  EntryOf(p) \in Entries
  BY Kinds DEF TypeOK, ItemsWhileWorking, EntryOf

(***************************************************************************)
(* Finish: the activity leaves its entry, and a pass leaves its claim. No  *)
(* other activity notices.                                                 *)
(***************************************************************************)
LEMMA FinishKeeps ==
  ASSUME TypeOK, ItemsWhileWorking, ClaimsExact,
         NEW p \in Activities, at[p] \in Working, Finish(p)
  PROVE  /\ at' \in [Activities -> Places]
         /\ copy' \in [Activities -> 0 .. MaxRetries + 1]
         /\ item' \in [Passes -> Entries \cup {None}]
         /\ entriesInProgress' \subseteq Entries
         /\ ItemsWhileWorking'
         /\ ClaimsExact'
         /\ at'[p] \notin Working \cup {"new", "unqueued"}
         /\ \A q \in Activities \ {p} : at'[q] = at[q] /\ EntryOf(q)' = EntryOf(q)
<1>1. CASE IsPass(p)
  <2> DEFINE r == p[2]
  <2>1. r \in Passes /\ p = Pass(r) /\ p[1] = "pass"
    BY <1>1, Kinds DEF IsPass
  <2>2. /\ at' = [at EXCEPT ![p] = "looping"]
        /\ copy' = [copy EXCEPT ![p] = 0]
        /\ entriesInProgress' = entriesInProgress \ {item[r]}
        /\ item' = [item EXCEPT ![r] = None]
    BY <1>1, <2>1 DEF Finish, Goto
  <2>3. item[r] \in Entries /\ item[r] # None
    BY <2>1 DEF ItemsWhileWorking, TypeOK
  <2>4. /\ at' \in [Activities -> Places]
        /\ copy' \in [Activities -> 0 .. MaxRetries + 1]
        /\ item' \in [Passes -> Entries \cup {None}]
        /\ entriesInProgress' \subseteq Entries
    <3>1. at' \in [Activities -> Places]
      BY <2>2 DEF TypeOK, Places
    <3>2. copy' \in [Activities -> 0 .. MaxRetries + 1]
      BY <2>2 DEF TypeOK
    <3>3. item' \in [Passes -> Entries \cup {None}] /\ entriesInProgress' \subseteq Entries
      BY <2>2 DEF TypeOK
    <3> QED BY <3>1, <3>2, <3>3
  <2>5. at'[p] = "looping" /\ \A q \in Activities \ {p} : at'[q] = at[q]
    BY <2>2 DEF TypeOK
  <2>6. item'[r] = None /\ \A s \in Passes \ {r} : item'[s] = item[s]
    BY <2>1, <2>2 DEF TypeOK
  <2>7. \A q \in Activities \ {p} : EntryOf(q)' = EntryOf(q)
    BY <2>1, <2>6, Kinds DEF EntryOf
  <2>8. ItemsWhileWorking'
    <3> SUFFICES ASSUME NEW s \in Passes
                 PROVE  at'[Pass(s)] \in Working <=> item'[s] # None
      BY DEF ItemsWhileWorking
    <3>1. CASE s = r
      BY <3>1, <2>1, <2>5, <2>6 DEF Working
    <3>2. CASE s # r
      BY <3>2, <2>1, <2>5, <2>6, Kinds DEF ItemsWhileWorking
    <3> QED BY <3>1, <3>2
  <2>9. ClaimsExact'
    <3>1. {item'[s] : s \in Passes} \ {None} = ({item[s] : s \in Passes} \ {None}) \ {item[r]}
      BY <2>1, <2>3, <2>6 DEF ClaimsExact
    <3> QED BY <3>1, <2>2, <2>6 DEF ClaimsExact
  <2> QED BY <2>4, <2>5, <2>7, <2>8, <2>9 DEF Working
<1>2. CASE ~IsPass(p)
  <2>1. /\ p[1] \in {"live", "defer"}
        /\ \A r \in Passes : p # Pass(r)
    BY <1>2, Kinds
  <2>2. /\ at' \in {[at EXCEPT ![p] = "done"], [at EXCEPT ![p] = "idle"]}
        /\ copy' = [copy EXCEPT ![p] = 0]
        /\ UNCHANGED <<entriesInProgress, item>>
    BY <1>2, <2>1 DEF Finish, Goto
  <2>3. /\ at' \in [Activities -> Places]
        /\ copy' \in [Activities -> 0 .. MaxRetries + 1]
        /\ item' \in [Passes -> Entries \cup {None}]
        /\ entriesInProgress' \subseteq Entries
    BY <2>2 DEF TypeOK, Places
  <2>4. at'[p] \in {"done", "idle"} /\ \A q \in Activities \ {p} : at'[q] = at[q]
    BY <2>2 DEF TypeOK
  <2>5. ItemsWhileWorking'
    BY <2>1, <2>2, <2>4, Kinds DEF ItemsWhileWorking
  <2>6. ClaimsExact' /\ \A q \in Activities : EntryOf(q)' = EntryOf(q)
    BY <2>2 DEF ClaimsExact, EntryOf
  <2> QED BY <2>3, <2>4, <2>5, <2>6 DEF Working
<1> QED BY <1>1, <1>2

(***************************************************************************)
(* A step from one place of the work on an entry to another keeps claims.  *)
(***************************************************************************)
LEMMA GotoKeeps ==
  ASSUME TypeOK, ItemsWhileWorking, ClaimsExact,
         NEW p \in Activities, at[p] \in Working,
         NEW place \in Working, Goto(p, place), UNCHANGED <<item, entriesInProgress>>
  PROVE  /\ at' \in [Activities -> Places]
         /\ ItemsWhileWorking'
         /\ ClaimsExact'
         /\ at'[p] = place
         /\ \A q \in Activities \ {p} : at'[q] = at[q]
         /\ \A q \in Activities : EntryOf(q)' = EntryOf(q)
<1>1. at' = [at EXCEPT ![p] = place]
  BY DEF Goto
<1>2. at' \in [Activities -> Places]
  BY <1>1 DEF TypeOK, Places, Working
<1>3. at'[p] = place /\ \A q \in Activities \ {p} : at'[q] = at[q]
  BY <1>1 DEF TypeOK
<1>4. ItemsWhileWorking'
  BY <1>3, Kinds DEF ItemsWhileWorking
<1>5. ClaimsExact' /\ \A q \in Activities : EntryOf(q)' = EntryOf(q)
  BY DEF ClaimsExact, EntryOf
<1> QED BY <1>2, <1>3, <1>4, <1>5
-----------------------------------------------------------------------------
Outside == {"new", "unqueued"}

(***************************************************************************)
(* What a step of one activity owes the last two parts of the invariant:   *)
(* it lets a file go only when the entry is accounted for, and it comes to *)
(* acknowledge only an entry that is settled.                              *)
(***************************************************************************)
LEMMA StepKeeps ==
  ASSUME DeliveryInv, TypeOK', NEW p \in Activities,
         \A q \in Activities \ {p} : at'[q] = at[q] /\ EntryOf(q)' = EntryOf(q),
         at'[p] \in Outside <=> at[p] \in Outside,
         at'[p] = "acking" => EntryOf(p)' \in settled' \cup Unprotected',
         settled \subseteq settled', failed \subseteq failed',
         Unprotected \subseteq Unprotected',
         \A e \in Entries \ Unprotected :
           json[e] # Absent /\ json'[e] = Absent => e \in Accounted'
  PROVE  AckedAreSettled' /\ NothingLost' /\ Taken' = Taken
<1>1. Taken' = Taken
  BY Kinds DEF Taken, Outside
<1>2. AckedAreSettled'
  BY DEF AckedAreSettled, DeliveryInv
<1>3. Accounted \subseteq Accounted'
  BY DEF Accounted
<1>4. NothingLost'
  BY <1>1, <1>3 DEF NothingLost, DeliveryInv, Taken
<1> QED BY <1>1, <1>2, <1>4

(***************************************************************************)
(* The outcome of a send keeps the invariant: only a settled or an         *)
(* unprotected entry goes on to its acknowledgement.                       *)
(***************************************************************************)
LEMMA AttemptInv ==
  ASSUME DeliveryInv, NEW p \in Activities, Attempt(p)
  PROVE  DeliveryInv' /\ Taken' = Taken
<1> DEFINE e == EntryOf(p)
<1>1. at[p] = "sending" /\ e \in Entries
  BY EntryIsEntry DEF Attempt, Working, DeliveryInv
<1>2. PICK place \in {"acking", "failing", "moving"} : Goto(p, place)
  BY DEF Attempt
<1>3. UNCHANGED <<diskVars, copy, passVars>> /\ settled' \in {settled, settled \cup {e}}
      /\ channelAborted' \in {channelAborted, channelAborted \cup {e}}
  BY DEF Attempt
<1>4. /\ at' \in [Activities -> Places]
      /\ ItemsWhileWorking' /\ ClaimsExact'
      /\ at'[p] = place
      /\ \A q \in Activities \ {p} : at'[q] = at[q]
      /\ \A q \in Activities : EntryOf(q)' = EntryOf(q)
  BY <1>1, <1>2, <1>3, GotoKeeps DEF Working, passVars, DeliveryInv
<1>5. TypeOK'
  BY <1>1, <1>3, <1>4 DEF TypeOK, DeliveryInv, diskVars, passVars
<1>6. at'[p] = "acking" => e \in settled' \cup Unprotected'
  <2>1. CASE place = "acking"
    <3>1. \A other \in {"failing", "moving"} : ~Goto(p, other)
      BY <1>2, <2>1, <1>4 DEF Goto, DeliveryInv, TypeOK
    <3> QED BY <1>3, <3>1 DEF Attempt, diskVars
  <2> QED BY <1>2, <1>4, <2>1
<1>7. AckedAreSettled' /\ NothingLost' /\ Taken' = Taken
  BY <1>1, <1>3, <1>4, <1>5, <1>6, StepKeeps DEF Outside, diskVars
<1> QED BY <1>4, <1>5, <1>7 DEF DeliveryInv

(***************************************************************************)
(* Phase 1 of ackDelivery keeps the invariant: the file it renames is that *)
(* of a settled or unprotected entry.                                      *)
(***************************************************************************)
LEMMA AckRenameInv ==
  ASSUME DeliveryInv, NEW p \in Activities, AckRename(p)
  PROVE  DeliveryInv' /\ Taken' = Taken
<1> DEFINE e == EntryOf(p)
<1>1. at[p] = "acking" /\ e \in Entries /\ e \in settled \cup Unprotected
  BY EntryIsEntry DEF AckRename, Working, DeliveryInv, AckedAreSettled
<1>2. UNCHANGED <<failed, bestEffort, todo, history>>
  BY DEF AckRename
<1>3. \/ json' = [json EXCEPT ![e] = Absent] /\ marker' = marker \cup {e}
      \/ UNCHANGED <<json, marker>>
  BY DEF AckRename
<1>4. \/ /\ UNCHANGED <<copy, item, entriesInProgress>>
         /\ Goto(p, "unlinking") \/ Goto(p, "failing")
      \/ Finish(p)
  BY DEF AckRename
<1>5. /\ at' \in [Activities -> Places]
      /\ copy' \in [Activities -> 0 .. MaxRetries + 1]
      /\ item' \in [Passes -> Entries \cup {None}]
      /\ entriesInProgress' \subseteq Entries
      /\ ItemsWhileWorking' /\ ClaimsExact'
      /\ at'[p] \notin Outside \cup {"acking"}
      /\ \A q \in Activities \ {p} : at'[q] = at[q] /\ EntryOf(q)' = EntryOf(q)
  <2>1. CASE Finish(p)
    BY <1>1, <2>1, FinishKeeps DEF Working, DeliveryInv, Outside
  <2>2. CASE UNCHANGED <<copy, item, entriesInProgress>>
             /\ (Goto(p, "unlinking") \/ Goto(p, "failing"))
    BY <1>1, <2>2, GotoKeeps DEF Working, DeliveryInv, Outside, TypeOK
  <2> QED BY <1>4, <2>1, <2>2
<1>6. json' \in [Entries -> {Absent} \cup 0 .. MaxRetries + 1] /\ marker' \subseteq Entries
  BY <1>1, <1>3 DEF TypeOK, DeliveryInv
<1>7. TypeOK'
  BY <1>2, <1>5, <1>6 DEF TypeOK, DeliveryInv
<1>8. \A f \in Entries \ Unprotected : json[f] # Absent /\ json'[f] = Absent => f \in Accounted'
  BY <1>1, <1>2, <1>3 DEF TypeOK, DeliveryInv, Accounted
<1>9. AckedAreSettled' /\ NothingLost' /\ Taken' = Taken
  BY <1>1, <1>2, <1>5, <1>7, <1>8, StepKeeps DEF Outside
<1> QED BY <1>5, <1>7, <1>9 DEF DeliveryInv

(***************************************************************************)
(* Phase 2 of ackDelivery keeps the invariant: a marker is no pending      *)
(* file.                                                                   *)
(***************************************************************************)
LEMMA AckUnlinkInv ==
  ASSUME DeliveryInv, NEW p \in Activities, AckUnlink(p)
  PROVE  DeliveryInv' /\ Taken' = Taken
<1>1. at[p] = "unlinking" /\ Finish(p) /\ marker' \subseteq marker
      /\ UNCHANGED <<json, failed, bestEffort, todo, history>>
  BY DEF AckUnlink
<1>2. /\ at' \in [Activities -> Places]
      /\ copy' \in [Activities -> 0 .. MaxRetries + 1]
      /\ item' \in [Passes -> Entries \cup {None}]
      /\ entriesInProgress' \subseteq Entries
      /\ ItemsWhileWorking' /\ ClaimsExact'
      /\ at'[p] \notin Outside \cup {"acking"}
      /\ \A q \in Activities \ {p} : at'[q] = at[q] /\ EntryOf(q)' = EntryOf(q)
  BY <1>1, FinishKeeps DEF Working, DeliveryInv, Outside
<1>3. TypeOK'
  BY <1>1, <1>2 DEF TypeOK, DeliveryInv
<1>4. AckedAreSettled' /\ NothingLost' /\ Taken' = Taken
  BY <1>1, <1>2, <1>3, StepKeeps DEF Outside
<1> QED BY <1>2, <1>3, <1>4 DEF DeliveryInv

(***************************************************************************)
(* The read of failDelivery keeps the invariant: it copies a retry count   *)
(* or gives up.                                                            *)
(***************************************************************************)
LEMMA FailReadInv ==
  ASSUME DeliveryInv, NEW p \in Activities, FailRead(p)
  PROVE  DeliveryInv' /\ Taken' = Taken
<1> DEFINE e == EntryOf(p)
<1>1. at[p] = "failing" /\ e \in Entries /\ UNCHANGED <<diskVars, todo, history>>
  BY EntryIsEntry DEF FailRead, Working, DeliveryInv
<1>2. /\ at' \in [Activities -> Places]
      /\ copy' \in [Activities -> 0 .. MaxRetries + 1]
      /\ item' \in [Passes -> Entries \cup {None}]
      /\ entriesInProgress' \subseteq Entries
      /\ ItemsWhileWorking' /\ ClaimsExact'
      /\ at'[p] \notin Outside \cup {"acking"}
      /\ \A q \in Activities \ {p} : at'[q] = at[q] /\ EntryOf(q)' = EntryOf(q)
  <2>1. CASE Finish(p)
    BY <1>1, <2>1, FinishKeeps DEF Working, DeliveryInv, Outside
  <2>2. CASE /\ json[e] # Absent
             /\ copy' = [copy EXCEPT ![p] = json[e]]
             /\ Goto(p, "writing")
             /\ UNCHANGED <<item, entriesInProgress>>
    <3>1. copy' \in [Activities -> 0 .. MaxRetries + 1]
      BY <1>1, <2>2 DEF TypeOK, DeliveryInv
    <3> QED BY <1>1, <2>2, <3>1, GotoKeeps DEF Working, DeliveryInv, Outside, TypeOK
  <2> QED BY <2>1, <2>2 DEF FailRead
<1>3. TypeOK'
  BY <1>1, <1>2 DEF TypeOK, DeliveryInv, diskVars
<1>4. AckedAreSettled' /\ NothingLost' /\ Taken' = Taken
  BY <1>1, <1>2, <1>3, StepKeeps DEF Outside, diskVars
<1> QED BY <1>2, <1>3, <1>4 DEF DeliveryInv

(***************************************************************************)
(* The write of failDelivery keeps the invariant: it removes no file,      *)
(* though it may bring one back.                                           *)
(***************************************************************************)
LEMMA FailWriteInv ==
  ASSUME DeliveryInv, NEW p \in Activities, FailWrite(p)
  PROVE  DeliveryInv' /\ Taken' = Taken
<1> DEFINE e == EntryOf(p)
<1>1. /\ at[p] = "writing" /\ e \in Entries /\ Finish(p)
      /\ json' \in {json, [json EXCEPT ![e] = Bump(copy[p])]}
      /\ UNCHANGED <<marker, failed, bestEffort, todo, history>>
  BY EntryIsEntry DEF FailWrite, Working, DeliveryInv
<1>2. Bump(copy[p]) \in 0 .. MaxRetries + 1
  BY DEF Bump, TypeOK, DeliveryInv
<1>3. /\ at' \in [Activities -> Places]
      /\ copy' \in [Activities -> 0 .. MaxRetries + 1]
      /\ item' \in [Passes -> Entries \cup {None}]
      /\ entriesInProgress' \subseteq Entries
      /\ ItemsWhileWorking' /\ ClaimsExact'
      /\ at'[p] \notin Outside \cup {"acking"}
      /\ \A q \in Activities \ {p} : at'[q] = at[q] /\ EntryOf(q)' = EntryOf(q)
  BY <1>1, FinishKeeps DEF Working, DeliveryInv, Outside
<1>4. json' \in [Entries -> {Absent} \cup 0 .. MaxRetries + 1]
      /\ \A f \in Entries : json[f] # Absent => json'[f] # Absent
  BY <1>1, <1>2 DEF TypeOK, DeliveryInv
<1>5. TypeOK'
  BY <1>1, <1>3, <1>4 DEF TypeOK, DeliveryInv
<1>6. AckedAreSettled' /\ NothingLost' /\ Taken' = Taken
  BY <1>1, <1>3, <1>4, <1>5, StepKeeps DEF Outside
<1> QED BY <1>3, <1>5, <1>6 DEF DeliveryInv

(***************************************************************************)
(* A step that files an entry as failed, or fails to, keeps the invariant; *)
(* moveToFailed after a permanent error and after too many retries are     *)
(* such steps.                                                             *)
(***************************************************************************)
LEMMA MoveInv ==
  ASSUME DeliveryInv, NEW p \in Activities, at[p] \in {"moving", "pruning"}, Finish(p),
         \/ /\ json' = [json EXCEPT ![EntryOf(p)] = Absent]
            /\ failed' = failed \cup {EntryOf(p)}
         \/ UNCHANGED <<json, failed>>,
         todo' \in [Passes -> SUBSET Entries],
         UNCHANGED <<marker, bestEffort, history>>
  PROVE  DeliveryInv' /\ Taken' = Taken
<1>1. EntryOf(p) \in Entries
  BY EntryIsEntry DEF Working, DeliveryInv
<1>2. /\ at' \in [Activities -> Places]
      /\ copy' \in [Activities -> 0 .. MaxRetries + 1]
      /\ item' \in [Passes -> Entries \cup {None}]
      /\ entriesInProgress' \subseteq Entries
      /\ ItemsWhileWorking' /\ ClaimsExact'
      /\ at'[p] \notin Outside \cup {"acking"}
      /\ \A q \in Activities \ {p} : at'[q] = at[q] /\ EntryOf(q)' = EntryOf(q)
  BY FinishKeeps DEF Working, DeliveryInv, Outside
<1>3. /\ json' \in [Entries -> {Absent} \cup 0 .. MaxRetries + 1]
      /\ failed' \subseteq Entries /\ failed \subseteq failed'
      /\ \A f \in Entries : json[f] # Absent /\ json'[f] = Absent => f \in Accounted'
  BY <1>1 DEF TypeOK, DeliveryInv, Accounted
<1>4. TypeOK'
  BY <1>2, <1>3 DEF TypeOK, DeliveryInv
<1>5. AckedAreSettled' /\ NothingLost' /\ Taken' = Taken
  BY <1>2, <1>3, <1>4, StepKeeps DEF Outside
<1> QED BY <1>2, <1>4, <1>5 DEF DeliveryInv

(***************************************************************************)
(* enqueueDelivery keeps the invariant: an entry that is taken in has its  *)
(* file.                                                                   *)
(***************************************************************************)
LEMMA EnqueueInv ==
  ASSUME DeliveryInv, NEW e \in Entries, EnqueueDelivery(e)
  PROVE  DeliveryInv'
<1>1. /\ at[Live(e)] = "new" /\ Live(e) \in Activities
      /\ UNCHANGED <<marker, failed, copy, passVars, history>>
  BY Kinds DEF EnqueueDelivery
<1>2. \/ /\ json' = [json EXCEPT ![e] = 0]
         /\ bestEffort' \in {bestEffort, bestEffort \cup {e}}
         /\ at' = [at EXCEPT ![Live(e)] = "sending"]
      \/ at' = [at EXCEPT ![Live(e)] = "unqueued"] /\ UNCHANGED <<json, bestEffort>>
  BY DEF EnqueueDelivery, Goto
<1>3. TypeOK'
  <2>1. at' \in [Activities -> Places]
    BY <1>2 DEF TypeOK, DeliveryInv, Places
  <2>2. json' \in [Entries -> {Absent} \cup 0 .. MaxRetries + 1] /\ bestEffort' \subseteq Entries
    BY <1>2 DEF TypeOK, DeliveryInv
  <2> QED BY <1>1, <2>1, <2>2 DEF TypeOK, DeliveryInv, passVars
<1>4. /\ at'[Live(e)] \in {"sending", "unqueued"}
      /\ \A q \in Activities \ {Live(e)} : at'[q] = at[q]
      /\ \A q \in Activities : EntryOf(q)' = EntryOf(q)
  BY <1>1, <1>2 DEF TypeOK, DeliveryInv, EntryOf, passVars
<1>5. ItemsWhileWorking' /\ ClaimsExact'
  BY <1>1, <1>4, Kinds DEF ItemsWhileWorking, ClaimsExact, DeliveryInv, passVars
<1>6. AckedAreSettled'
  BY <1>1, <1>2, <1>4 DEF AckedAreSettled, DeliveryInv
<1>7. \A f \in Entries \ {e} : json'[f] = json[f] /\ (f \in Taken' <=> f \in Taken)
  BY <1>2, <1>4, Kinds DEF Taken, TypeOK, DeliveryInv
<1>8. e \in Taken' => json'[e] # Absent
  BY <1>1, <1>2 DEF Taken, TypeOK, DeliveryInv
<1>9. NothingLost'
  BY <1>1, <1>2, <1>7, <1>8 DEF NothingLost, DeliveryInv, Accounted, Taken
<1> QED BY <1>3, <1>5, <1>6, <1>9 DEF DeliveryInv

(***************************************************************************)
(* Passes move between their scan, their loop and their end.               *)
(***************************************************************************)
LEMMA PassMoves ==
  ASSUME DeliveryInv, NEW r \in Passes, at[Pass(r)] \notin Working,
         NEW place \in Places \ (Working \cup Outside), Goto(Pass(r), place),
         UNCHANGED <<json, failed, bestEffort, copy, item, entriesInProgress, history>>,
         marker' \subseteq marker, todo' \in [Passes -> SUBSET Entries],
         at[Pass(r)] \notin Outside
  PROVE  DeliveryInv' /\ Taken' = Taken
<1>1. at' = [at EXCEPT ![Pass(r)] = place] /\ Pass(r) \in Activities
  BY Kinds DEF Goto
<1>2. TypeOK'
  BY <1>1 DEF TypeOK, DeliveryInv
<1>3. at'[Pass(r)] = place /\ \A q \in Activities \ {Pass(r)} : at'[q] = at[q]
  BY <1>1 DEF TypeOK, DeliveryInv
<1>4. ItemsWhileWorking' /\ ClaimsExact'
  BY <1>3, Kinds DEF ItemsWhileWorking, ClaimsExact, DeliveryInv
<1>5. AckedAreSettled' /\ NothingLost' /\ Taken' = Taken
  BY <1>1, <1>2, <1>3, StepKeeps DEF EntryOf, Working
<1> QED BY <1>2, <1>4, <1>5 DEF DeliveryInv

(***************************************************************************)
(* The scan of a pass keeps the invariant.                                 *)
(***************************************************************************)
LEMMA LoadPendingDeliveriesInv ==
  ASSUME DeliveryInv, NEW r \in Passes, LoadPendingDeliveries(r)
  PROVE  DeliveryInv' /\ Taken' = Taken
<1>1. at[Pass(r)] = "idle" /\ Goto(Pass(r), "looping") /\ marker' \subseteq marker
      /\ UNCHANGED <<json, failed, bestEffort, copy, item, entriesInProgress, history>>
      /\ todo' \in [Passes -> SUBSET Entries]
  BY DEF LoadPendingDeliveries, TypeOK, DeliveryInv
<1> QED BY <1>1, PassMoves DEF Working, Places, Outside

(***************************************************************************)
(* The end of a pass keeps the invariant.                                  *)
(***************************************************************************)
LEMMA EndPassInv ==
  ASSUME DeliveryInv, NEW r \in Passes, EndPass(r)
  PROVE  DeliveryInv' /\ Taken' = Taken
<1>1. at[Pass(r)] \in {"looping", "deferring"} /\ Goto(Pass(r), "idle")
      /\ UNCHANGED <<diskVars, copy, passVars, history>>
  BY DEF EndPass
<1>2. marker' \subseteq marker /\ todo' \in [Passes -> SUBSET Entries]
  BY <1>1 DEF TypeOK, DeliveryInv, diskVars, passVars
<1> QED BY <1>1, <1>2, PassMoves DEF Working, Places, Outside, diskVars, passVars

(***************************************************************************)
(* claimRecoveryEntry keeps the invariant: an unclaimed entry is nobody's  *)
(* item.                                                                   *)
(***************************************************************************)
LEMMA ClaimInv ==
  ASSUME DeliveryInv, NEW r \in Passes, NEW e \in Entries, ClaimRecoveryEntry(r, e)
  PROVE  DeliveryInv' /\ Taken' = Taken
<1>1. /\ at[Pass(r)] = "looping" /\ Pass(r) \in Activities
      /\ todo' \in [Passes -> SUBSET Entries]
      /\ UNCHANGED <<diskVars, copy, history>>
  BY Kinds DEF ClaimRecoveryEntry, TypeOK, DeliveryInv
<1>2. item[r] = None
  BY <1>1 DEF ItemsWhileWorking, DeliveryInv, Working
<1>3. CASE e \in entriesInProgress
  <2>1. UNCHANGED <<at, item, entriesInProgress>>
    BY <1>3 DEF ClaimRecoveryEntry
  <2>2. TypeOK' /\ ItemsWhileWorking' /\ ClaimsExact'
    BY <1>1, <2>1 DEF TypeOK, ItemsWhileWorking, ClaimsExact, DeliveryInv, diskVars
  <2> QED BY <1>1, <2>1, <2>2, StepKeeps
          DEF DeliveryInv, diskVars, EntryOf, Outside
<1>4. CASE e \notin entriesInProgress
  <2>1. /\ entriesInProgress' = entriesInProgress \cup {e}
        /\ item' = [item EXCEPT ![r] = e]
        /\ at' = [at EXCEPT ![Pass(r)] = "loading"]
    BY <1>4 DEF ClaimRecoveryEntry, Goto
  <2>2. TypeOK'
    <3>1. at' \in [Activities -> Places]
      BY <2>1 DEF TypeOK, DeliveryInv, Places
    <3> QED BY <1>1, <2>1, <3>1 DEF TypeOK, DeliveryInv, diskVars
  <2>3. /\ item'[r] = e /\ \A s \in Passes \ {r} : item'[s] = item[s]
        /\ at'[Pass(r)] = "loading" /\ \A q \in Activities \ {Pass(r)} : at'[q] = at[q]
    BY <1>1, <2>1 DEF TypeOK, DeliveryInv
  <2>4. ItemsWhileWorking'
    BY <2>3, Kinds DEF ItemsWhileWorking, DeliveryInv, Working
  <2>5. \A s \in Passes : item[s] # e
    BY <1>4 DEF ClaimsExact, DeliveryInv
  <2>6. ClaimsExact'
    <3>1. {item'[s] : s \in Passes} \ {None} = ({item[s] : s \in Passes} \ {None}) \cup {e}
      BY <1>2, <2>3
    <3> QED BY <2>1, <2>3, <2>5, <3>1 DEF ClaimsExact, DeliveryInv
  <2>7. \A q \in Activities \ {Pass(r)} : EntryOf(q)' = EntryOf(q)
    BY <2>3, Kinds DEF EntryOf
  <2> QED BY <1>1, <2>2, <2>3, <2>4, <2>6, <2>7, StepKeeps
          DEF DeliveryInv, diskVars, Outside
<1> QED BY <1>3, <1>4

(***************************************************************************)
(* Reading the file again after the claim keeps the invariant, whatever is *)
(* found.                                                                  *)
(***************************************************************************)
LEMMA LoadPendingDeliveryInv ==
  ASSUME DeliveryInv, NEW r \in Passes, LoadPendingDelivery(r)
  PROVE  DeliveryInv' /\ Taken' = Taken
<1>1. /\ at[Pass(r)] = "loading" /\ Pass(r) \in Activities
      /\ UNCHANGED <<diskVars, history>> /\ todo' \in [Passes -> SUBSET Entries]
  BY Kinds DEF LoadPendingDelivery, TypeOK, DeliveryInv, passVars
<1>2. \/ Finish(Pass(r))
      \/ /\ Goto(Pass(r), "pruning") \/ Goto(Pass(r), "sending")
         /\ UNCHANGED <<copy, passVars>>
  BY DEF LoadPendingDelivery
<1>3. /\ at' \in [Activities -> Places]
      /\ copy' \in [Activities -> 0 .. MaxRetries + 1]
      /\ item' \in [Passes -> Entries \cup {None}]
      /\ entriesInProgress' \subseteq Entries
      /\ ItemsWhileWorking' /\ ClaimsExact'
      /\ at'[Pass(r)] \notin Outside \cup {"acking"}
      /\ \A q \in Activities \ {Pass(r)} : at'[q] = at[q] /\ EntryOf(q)' = EntryOf(q)
  <2>1. CASE Finish(Pass(r))
    BY <1>1, <2>1, FinishKeeps DEF Working, DeliveryInv, Outside
  <2>2. CASE /\ Goto(Pass(r), "pruning") \/ Goto(Pass(r), "sending")
             /\ UNCHANGED <<copy, passVars>>
    BY <1>1, <2>2, GotoKeeps DEF Working, DeliveryInv, Outside, TypeOK, passVars
  <2> QED BY <1>2, <2>1, <2>2
<1>4. TypeOK'
  BY <1>1, <1>3 DEF TypeOK, DeliveryInv, diskVars
<1>5. AckedAreSettled' /\ NothingLost' /\ Taken' = Taken
  BY <1>1, <1>3, <1>4, StepKeeps DEF Outside, diskVars
<1> QED BY <1>3, <1>4, <1>5 DEF DeliveryInv

(***************************************************************************)
(* deferRemainingEntriesForBudget keeps the invariant: it moves no pass    *)
(* into or out of the body of its loop.                                    *)
(***************************************************************************)
LEMMA DeferInv ==
  ASSUME DeliveryInv, DeferRemainingEntries
  PROVE  DeliveryInv' /\ Taken' = Taken
<1>1. /\ at[Pass(Startup)] = "looping"
      /\ todo' \in [Passes -> SUBSET Entries]
      /\ UNCHANGED <<diskVars, copy, item, entriesInProgress, history>>
      /\ at' = [p \in Activities |->
                  IF p = Pass(Startup) THEN "deferring"
                  ELSE IF p[1] = "defer" /\ p[2] \in todo[Startup] THEN "failing"
                  ELSE at[p]]
  BY DEF DeferRemainingEntries, TypeOK, DeliveryInv
<1>2. TypeOK'
  <2>1. at' \in [Activities -> Places]
    BY <1>1 DEF TypeOK, DeliveryInv, Places
  <2> QED BY <1>1, <2>1 DEF TypeOK, DeliveryInv, diskVars
<1>3. \A r \in Passes : at'[Pass(r)] \in Working <=> at[Pass(r)] \in Working
  BY <1>1, Kinds DEF Working
<1>4. ItemsWhileWorking' /\ ClaimsExact'
  BY <1>1, <1>3 DEF ItemsWhileWorking, ClaimsExact, DeliveryInv
<1>5. \A p \in Activities : at'[p] = "acking" => at[p] = "acking"
  BY <1>1
<1>6. AckedAreSettled'
  BY <1>1, <1>5 DEF AckedAreSettled, DeliveryInv, EntryOf, diskVars
<1>7. \A e \in Entries : at'[Live(e)] = at[Live(e)]
  BY <1>1, Kinds
<1>8. Taken' = Taken
  BY <1>7 DEF Taken
<1>9. NothingLost'
  BY <1>1, <1>8 DEF NothingLost, DeliveryInv, diskVars, Accounted
<1> QED BY <1>2, <1>4, <1>6, <1>8, <1>9 DEF DeliveryInv

(***************************************************************************)
(* A crash keeps the invariant: claims and passes vanish together, files   *)
(* and accounts stay.                                                      *)
(***************************************************************************)
LEMMA CrashInv ==
  ASSUME DeliveryInv, Crash
  PROVE  DeliveryInv' /\ Taken' = Taken
<1>1. /\ UNCHANGED <<diskVars, history>>
      /\ at' = [p \in Activities |->
                  IF p[1] # "live" THEN "idle"
                  ELSE IF at[p] \in {"new", "unqueued"} THEN at[p] ELSE "done"]
      /\ copy' = [p \in Activities |-> 0]
      /\ item' = [r \in Passes |-> None]
      /\ todo' = [r \in Passes |-> {}]
      /\ entriesInProgress' = {}
  BY DEF Crash
<1>2. TypeOK'
  <2>1. at' \in [Activities -> Places]
    BY <1>1 DEF TypeOK, DeliveryInv, Places
  <2>2. copy' \in [Activities -> 0 .. MaxRetries + 1]
    BY <1>1
  <2> QED BY <1>1, <2>1, <2>2 DEF TypeOK, DeliveryInv, diskVars
<1>3. ItemsWhileWorking' /\ ClaimsExact'
  BY <1>1, Kinds DEF ItemsWhileWorking, ClaimsExact, Working
<1>4. AckedAreSettled'
  BY <1>1 DEF AckedAreSettled
<1>5. Taken' = Taken
  BY <1>1, Kinds DEF Taken, TypeOK, DeliveryInv
<1>6. NothingLost'
  BY <1>1, <1>5 DEF NothingLost, DeliveryInv, diskVars, Accounted
<1> QED BY <1>2, <1>3, <1>4, <1>5, <1>6 DEF DeliveryInv
-----------------------------------------------------------------------------
(***************************************************************************)
(* The empty queue directory satisfies the invariant.                      *)
(***************************************************************************)
LEMMA InitInv == Init => DeliveryInv
<1> SUFFICES ASSUME Init PROVE DeliveryInv
  OBVIOUS
<1>1. TypeOK
  <2>1. at \in [Activities -> Places]
    BY DEF Init, Places
  <2>2. copy \in [Activities -> 0 .. MaxRetries + 1]
    BY DEF Init
  <2> QED BY <2>1, <2>2 DEF Init, TypeOK
<1>2. ItemsWhileWorking /\ ClaimsExact
  BY Kinds DEF Init, ItemsWhileWorking, ClaimsExact, Working
<1>3. AckedAreSettled
  BY DEF Init, AckedAreSettled
<1>4. NothingLost
  BY Kinds DEF Init, NothingLost, Taken
<1> QED BY <1>1, <1>2, <1>3, <1>4 DEF DeliveryInv

(***************************************************************************)
(* moveToFailed after a permanent error keeps the invariant.               *)
(***************************************************************************)
LEMMA MoveToFailedInv ==
  ASSUME DeliveryInv, NEW p \in Activities, MoveToFailed(p)
  PROVE  DeliveryInv' /\ Taken' = Taken
<1>1. todo' \in [Passes -> SUBSET Entries]
  BY DEF MoveToFailed, TypeOK, DeliveryInv
<1> QED BY <1>1, MoveInv DEF MoveToFailed

(***************************************************************************)
(* moveToFailed after too many retries keeps the invariant.                *)
(***************************************************************************)
LEMMA PruneInv ==
  ASSUME DeliveryInv, NEW r \in Passes, Prune(r)
  PROVE  DeliveryInv' /\ Taken' = Taken
<1>1. todo' \in [Passes -> SUBSET Entries]
  BY DEF Prune, TypeOK, DeliveryInv
<1>2. EntryOf(Pass(r)) = item[r] /\ Pass(r) \in Activities
  BY Kinds DEF EntryOf
<1> QED BY <1>1, <1>2, MoveInv DEF Prune

(***************************************************************************)
(* Every step keeps the invariant, and only the enqueueing of an entry     *)
(* takes one in.                                                           *)
(***************************************************************************)
LEMMA NextInv ==
  ASSUME DeliveryInv, [Next]_vars
  PROVE  DeliveryInv' /\ (Taken' = Taken \/ \E e \in Entries : EnqueueDelivery(e))
<1>1. CASE \E e \in Entries : EnqueueDelivery(e)
  BY <1>1, EnqueueInv
<1>2. ASSUME NEW p \in Activities,
             Attempt(p) \/ AckRename(p) \/ AckUnlink(p) \/ FailRead(p) \/ FailWrite(p)
               \/ MoveToFailed(p)
      PROVE  DeliveryInv' /\ Taken' = Taken
  BY <1>2, AttemptInv, AckRenameInv, AckUnlinkInv, FailReadInv, FailWriteInv, MoveToFailedInv
<1>3. ASSUME NEW r \in Passes,
             LoadPendingDeliveries(r) \/ (\E e \in Entries : ClaimRecoveryEntry(r, e))
               \/ LoadPendingDelivery(r) \/ Prune(r) \/ EndPass(r)
      PROVE  DeliveryInv' /\ Taken' = Taken
  BY <1>3, LoadPendingDeliveriesInv, ClaimInv, LoadPendingDeliveryInv, PruneInv, EndPassInv
<1>4. CASE DeferRemainingEntries \/ Crash
  BY <1>4, DeferInv, CrashInv
<1>5. CASE UNCHANGED vars
  <2>1. TypeOK' /\ ItemsWhileWorking' /\ ClaimsExact' /\ Taken' = Taken
    BY <1>5 DEF vars, diskVars, passVars, TypeOK, ItemsWhileWorking, ClaimsExact, Taken,
                DeliveryInv
  <2>2. AckedAreSettled' /\ NothingLost'
    BY <1>5 DEF vars, diskVars, passVars, AckedAreSettled, NothingLost, Taken, Accounted,
                EntryOf, DeliveryInv
  <2> QED BY <2>1, <2>2 DEF DeliveryInv
<1> QED BY <1>1, <1>2, <1>3, <1>4, <1>5 DEF Next

(***************************************************************************)
(* The invariant of delivery-queue-storage.ts, delivery-queue-recovery.ts  *)
(* and deliver.ts together holds in every reachable state.                 *)
(***************************************************************************)
THEOREM DeliveryInvariant == Spec => []DeliveryInv
<1>1. DeliveryInv /\ [Next]_vars => DeliveryInv'
  BY NextInv
<1> QED BY <1>1, InitInv, PTL DEF Spec

(***************************************************************************)
(* The variables keep their types: in particular failDelivery only ever    *)
(* writes back a retry count that it has read.                             *)
(***************************************************************************)
THEOREM DeliveryTypeCorrect == Spec => []TypeOK
<1>1. DeliveryInv => TypeOK
  BY DEF DeliveryInv
<1> QED BY <1>1, DeliveryInvariant, PTL

(***************************************************************************)
(* No protected message that was persisted is lost, for any number of      *)
(* messages, passes and retries, and whatever crashes and file errors.     *)
(***************************************************************************)
THEOREM NoMessageLost == Spec => []NothingLost
<1>1. DeliveryInv => NothingLost
  BY DEF DeliveryInv
<1> QED BY <1>1, DeliveryInvariant, PTL

(***************************************************************************)
(* entriesInProgress holds exactly the entries that passes work on, each   *)
(* by one pass.                                                            *)
(***************************************************************************)
THEOREM ClaimsAreExact == Spec => []ClaimsExact
<1>1. DeliveryInv => ClaimsExact
  BY DEF DeliveryInv
<1> QED BY <1>1, DeliveryInvariant, PTL
-----------------------------------------------------------------------------
Held == {e \in Taken : json[e] # Absent \/ e \in Unprotected}

(***************************************************************************)
(* A step that takes nothing in and changes at most one entry's file and   *)
(* account is a step of the outbox, or none.                               *)
(***************************************************************************)
LEMMA OneEntryStep ==
  ASSUME DeliveryInv, NEW e \in Entries, Taken' = Taken,
         \/ Unprotected' = Unprotected
         \/ Unprotected' = Unprotected \cup {e} /\ UNCHANGED <<json, Accounted>>,
         \A f \in Entries \ {e} : json'[f] = json[f],
         \/ Accounted' = Accounted
         \/ Accounted' = Accounted \cup {e} /\ json' = json
         \/ Accounted' = Accounted \cup {e} /\ json'[e] = Absent,
         json[e] # Absent /\ json'[e] = Absent => e \in Accounted' \cup Unprotected
  PROVE  [Box!Next]_Box!vars
<1>1. \A f \in Entries \ {e} : f \in Held' <=> f \in Held
  BY DEF Held
<1>2. Held' = Held \/ (e \in Held /\ Held' = Held \ {e}) \/ (e \notin Held /\ Held' = Held \cup {e})
  BY <1>1 DEF Held, Taken
<1>3. CASE Held' = Held
  <2>1. CASE Accounted' = Accounted
    BY <1>3, <2>1 DEF Box!vars, Held
  <2>2. CASE Accounted' = Accounted \cup {e}
    BY <1>3, <2>2 DEF Box!Next, Box!Account, Held
  <2> QED BY <2>1, <2>2
<1>4. CASE e \in Held /\ Held' = Held \ {e}
  <2>1. e \in Accounted'
    BY <1>4 DEF Held
  <2>2. CASE Accounted' = Accounted
    BY <1>4, <2>1, <2>2 DEF Box!Next, Box!Release, Held
  <2>3. CASE Accounted' = Accounted \cup {e}
    BY <1>4, <2>3 DEF Box!Next, Box!FileAsFailed, Held
  <2> QED BY <2>2, <2>3
<1>5. CASE e \notin Held /\ Held' = Held \cup {e}
  <2>1. e \in Taken /\ json[e] = Absent
    BY <1>5 DEF Held
  <2>2. Accounted' = Accounted
    <3>1. CASE Unprotected' = Unprotected
      <4>1. json'[e] # Absent
        BY <1>5, <2>1, <3>1 DEF Held
      <4> QED BY <2>1, <4>1
    <3> QED BY <3>1
  <2> QED BY <1>5, <2>2 DEF Box!Next, Box!Accept, Held
<1> QED BY <1>2, <1>3, <1>4, <1>5

(***************************************************************************)
(* enqueueDelivery accepts the message, or the message never concerns the  *)
(* outbox.                                                                 *)
(***************************************************************************)
LEMMA EnqueueStep ==
  ASSUME DeliveryInv, NEW e \in Entries, EnqueueDelivery(e)
  PROVE  [Box!Next]_Box!vars
<1>1. Accounted' = Accounted /\ e \notin Taken
  BY DEF EnqueueDelivery, Accounted, Taken
<1>2. CASE /\ json' = [json EXCEPT ![e] = 0]
           /\ bestEffort' \in {bestEffort, bestEffort \cup {e}}
           /\ Goto(Live(e), "sending")
  <2>1. Taken' = Taken \cup {e}
    BY <1>2, Kinds DEF Goto, Taken, TypeOK, DeliveryInv
  <2>2. Held' = Held \cup {e} /\ e \notin Held
    BY <1>1, <1>2, <2>1 DEF Held, TypeOK, DeliveryInv, Taken, EnqueueDelivery
  <2> QED BY <1>1, <2>2 DEF Box!Next, Box!Accept, Held
<1>3. CASE Goto(Live(e), "unqueued") /\ UNCHANGED <<json, bestEffort>>
  <2>1. Taken' = Taken
    BY <1>3, Kinds DEF Goto, Taken, TypeOK, DeliveryInv, EnqueueDelivery
  <2> QED BY <1>1, <1>3, <2>1 DEF Box!vars, EnqueueDelivery
<1> QED BY <1>2, <1>3 DEF EnqueueDelivery

(***************************************************************************)
(* The steps that change neither an entry's file nor its account.          *)
(***************************************************************************)
QuietStep ==
  \/ \E p \in Activities : AckUnlink(p) \/ FailRead(p)
  \/ \E r \in Passes : \/ LoadPendingDeliveries(r)
                       \/ \E e \in Entries : ClaimRecoveryEntry(r, e)
                       \/ LoadPendingDelivery(r)
                       \/ EndPass(r)
  \/ DeferRemainingEntries
  \/ Crash

(***************************************************************************)
(* Every step of the queue is a step of the outbox or changes nothing of   *)
(* it. The entry of an acknowledgement is settled by the invariant; that   *)
(* of a move is filed.                                                     *)
(***************************************************************************)
LEMMA StepSimulation ==
  ASSUME DeliveryInv, [Next]_vars
  PROVE  [Box!Next]_Box!vars
<1>1. CASE \E e \in Entries : EnqueueDelivery(e)
  BY <1>1, EnqueueStep
<1>2. CASE Taken' = Taken /\ UNCHANGED <<json, bestEffort, failed, history>>
  BY <1>2 DEF Box!vars, Accounted
<1>3. ASSUME NEW p \in Activities, Attempt(p)
      PROVE  [Box!Next]_Box!vars
  <2>1. EntryOf(p) \in Entries /\ Taken' = Taken
    BY <1>3, EntryIsEntry, AttemptInv DEF Attempt, Working, DeliveryInv
  <2>2. /\ json' = json
        /\ \/ /\ Unprotected' = Unprotected
              /\ Accounted' = Accounted \/ Accounted' = Accounted \cup {EntryOf(p)}
           \/ Unprotected' = Unprotected \cup {EntryOf(p)} /\ Accounted' = Accounted
    BY <1>3 DEF Attempt, diskVars, Accounted
  <2> QED BY <2>1, <2>2, OneEntryStep
<1>4. ASSUME NEW p \in Activities, AckRename(p)
      PROVE  [Box!Next]_Box!vars
  <2>1. EntryOf(p) \in Entries /\ Taken' = Taken /\ EntryOf(p) \in settled \cup Unprotected
    BY <1>4, EntryIsEntry, AckRenameInv DEF AckRename, Working, DeliveryInv, AckedAreSettled
  <2>2. /\ Unprotected' = Unprotected /\ Accounted' = Accounted
        /\ EntryOf(p) \in Accounted' \cup Unprotected'
        /\ \A f \in Entries \ {EntryOf(p)} : json'[f] = json[f]
    BY <1>4, <2>1 DEF AckRename, Accounted, TypeOK, DeliveryInv
  <2> QED BY <2>1, <2>2, OneEntryStep
<1>5. ASSUME NEW p \in Activities, FailWrite(p)
      PROVE  [Box!Next]_Box!vars
  <2>1. EntryOf(p) \in Entries /\ Taken' = Taken
    BY <1>5, EntryIsEntry, FailWriteInv DEF FailWrite, Working, DeliveryInv
  <2>2. Bump(copy[p]) # Absent
    BY DEF Bump, TypeOK, DeliveryInv
  <2>3. /\ Unprotected' = Unprotected /\ Accounted' = Accounted
        /\ \A f \in Entries \ {EntryOf(p)} : json'[f] = json[f]
        /\ json[EntryOf(p)] # Absent => json'[EntryOf(p)] # Absent
    BY <1>5, <2>1, <2>2 DEF FailWrite, Accounted, TypeOK, DeliveryInv
  <2> QED BY <2>1, <2>3, OneEntryStep
<1>6. ASSUME NEW p \in Activities, EntryOf(p) \in Entries, Taken' = Taken,
             \/ /\ json' = [json EXCEPT ![EntryOf(p)] = Absent]
                /\ failed' = failed \cup {EntryOf(p)}
             \/ UNCHANGED <<json, failed>>,
             UNCHANGED <<bestEffort, history>>
      PROVE  [Box!Next]_Box!vars
  <2>1. CASE UNCHANGED <<json, failed>>
    BY <1>2, <1>6, <2>1
  <2>2. CASE /\ json' = [json EXCEPT ![EntryOf(p)] = Absent]
             /\ failed' = failed \cup {EntryOf(p)}
    <3>1. /\ Accounted' = Accounted \cup {EntryOf(p)}
          /\ json'[EntryOf(p)] = Absent
          /\ \A f \in Entries \ {EntryOf(p)} : json'[f] = json[f]
      BY <1>6, <2>2 DEF Accounted, TypeOK, DeliveryInv
    <3> QED BY <1>6, <3>1, OneEntryStep
  <2> QED BY <1>6, <2>1, <2>2
<1>7. ASSUME NEW p \in Activities, MoveToFailed(p)
      PROVE  [Box!Next]_Box!vars
  <2>1. EntryOf(p) \in Entries /\ Taken' = Taken
    BY <1>7, EntryIsEntry, MoveToFailedInv DEF MoveToFailed, Working, DeliveryInv
  <2> QED BY <1>6, <1>7, <2>1 DEF MoveToFailed
<1>8. ASSUME NEW r \in Passes, Prune(r)
      PROVE  [Box!Next]_Box!vars
  <2>1. Pass(r) \in Activities /\ EntryOf(Pass(r)) = item[r] /\ at[Pass(r)] = "pruning"
    BY <1>8, Kinds DEF EntryOf, Prune
  <2>2. EntryOf(Pass(r)) \in Entries /\ Taken' = Taken
    BY <1>8, <2>1, EntryIsEntry, PruneInv DEF Working, DeliveryInv
  <2> QED BY <1>6, <1>8, <2>1, <2>2 DEF Prune
<1>9. CASE Taken' = Taken /\ (QuietStep \/ UNCHANGED vars)
  BY <1>2, <1>9 DEF QuietStep, AckUnlink, FailRead, LoadPendingDeliveries, ClaimRecoveryEntry,
                    LoadPendingDelivery, EndPass, DeferRemainingEntries, Crash, vars, diskVars
<1>10. Taken' = Taken \/ \E e \in Entries : EnqueueDelivery(e)
  BY NextInv
<1>11. CASE \E p \in Activities : Attempt(p) \/ AckRename(p) \/ FailWrite(p) \/ MoveToFailed(p)
  BY <1>3, <1>4, <1>5, <1>7, <1>11
<1>12. CASE \E r \in Passes : Prune(r)
  BY <1>8, <1>12
<1>13. CASE QuietStep \/ UNCHANGED vars
  BY <1>1, <1>9, <1>10, <1>13
<1>14. Next => \/ \E e \in Entries : EnqueueDelivery(e)
               \/ \E p \in Activities : Attempt(p) \/ AckRename(p) \/ FailWrite(p) \/ MoveToFailed(p)
               \/ \E r \in Passes : Prune(r)
               \/ QuietStep
  BY DEF Next, QuietStep
<1>15. CASE Next
  BY <1>1, <1>11, <1>12, <1>13, <1>14, <1>15
<1>16. CASE UNCHANGED vars
  BY <1>13, <1>16
<1> QED BY <1>15, <1>16

(***************************************************************************)
(* The delivery queue implements the outbox: the code's files keep a       *)
(* message until it is accounted for, and no step of a live call, a pass,  *)
(* a deferral or a crash lets it go before.                                *)
(***************************************************************************)
THEOREM ImplementsOutbox == Spec => OutboxSpec
<1>1. Init => Box!Init
  BY Kinds DEF Init, Box!Init, Taken, Accounted
<1>2. DeliveryInv /\ [Next]_vars => [Box!Next]_Box!vars
  BY StepSimulation
<1> QED BY <1>1, <1>2, DeliveryInvariant, PTL DEF Spec, OutboxSpec, Box!Spec
=============================================================================
