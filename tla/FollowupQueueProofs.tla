------------------------ MODULE FollowupQueueProofs ------------------------
(***************************************************************************)
(* Proofs about FollowupQueue for any messages, settings and bounds: its   *)
(* types, that no message is run twice, and that a loss has a cause.       *)
(*                                                                         *)
(* The properties speak of what waits and of what a turn has now. The      *)
(* invariant says how the two belong together. A message belongs to one    *)
(* queue object at most. The front of a queue may be dropped while a turn  *)
(* runs, so that what the turn removes at its end need not be what it ran; *)
(* but items only move forward: a message is never further back in the     *)
(* queue than in the plan, so that nothing stays behind that was run. As   *)
(* long as there is no cause for a loss, the plan is a prefix of the queue *)
(* and the only drain is that of the map's entry, which holds everything.  *)
(***************************************************************************)
EXTENDS FollowupQueue, TLAPS, FiniteSetTheorems, SequenceTheorems

USE FollowupAssumption DEF NoEntry, followupHistory

Plan(d) == IF d.kind = "items" THEN d.batch \o d.later ELSE <<>>

Content(o) == ToSet(o.items) \cup Dropped(o)
Owned(o, d) == Content(o) \cup ToSet(Plan(d))
Own(q) == Owned(queues[q], drain[q])

(***************************************************************************)
(* A queue object o and its drain d, when the messages of rec have been    *)
(* accepted and those of ans were run.                                     *)
(***************************************************************************)
InOrder(o, d) ==
  \A i \in 1 .. Len(o.items), j \in 1 .. Len(Plan(d)) :
    o.items[i] = Plan(d)[j] => i <= j

Sound(o, d, rec, ans) ==
  /\ o \in Objects /\ d \in Drains
  /\ IsInjective(o.items) /\ IsInjective(Plan(d))
  /\ ToSet(o.items) \cap Dropped(o) = {}
  /\ d.at = "turn" <=> d.kind # "none"
  /\ d.kind = "summaryOnly" => d.batch = <<>> /\ d.later = <<>>
  /\ InOrder(o, d)
  /\ Owned(o, d) \cup d.summary \subseteq rec
  /\ (ToSet(o.items) \cup ToSet(Plan(d))) \cap ans = {}

(***************************************************************************)
(* The turn of d takes from o what it has run and reported.                *)
(***************************************************************************)
Faithful(o, d) ==
  d.at = "turn" =>
    /\ Len(Plan(d)) <= Len(o.items)
    /\ \A j \in 1 .. Len(Plan(d)) : Plan(d)[j] = o.items[j]
    /\ d.summary # {} => Dropped(o) \subseteq d.summary

(***************************************************************************)
(* With entry e, only its object is drained, and it holds all of W.        *)
(***************************************************************************)
Together(Q, D, e, W) ==
  /\ \A q \in QueueIds : D[q].at # "idle" => q = e
  /\ W # {} => e # NoEntry /\ W \subseteq Content(Q[e])

Open == recentIds \ (answered \cup accounted \cup givenUp)

FollowupInv ==
  /\ FollowupTypeOK
  /\ \A q \in QueueIds : Sound(queues[q], drain[q], recentIds, answered)
  /\ \A q, r \in QueueIds : q # r => Own(q) \cap Own(r) = {}
  /\ \A q \in QueueIds : q > created => ~HasWork(queues[q]) /\ drain[q] = Idle
  /\ causes = {} => /\ Together(queues, drain, entry, Open)
                    /\ \A q \in QueueIds : Faithful(queues[q], drain[q])
-----------------------------------------------------------------------------
(***************************************************************************)
(* Sequences of messages: what they hold, and their two parts.             *)
(***************************************************************************)
LEMMA Holds ==
  ASSUME NEW s \in Seq(Messages)
  PROVE  /\ Len(s) \in Nat /\ DOMAIN s = 1 .. Len(s)
         /\ \A i \in 1 .. Len(s) : s[i] \in Messages /\ s[i] \in ToSet(s)
         /\ \A m \in ToSet(s) : \E i \in 1 .. Len(s) : s[i] = m
         /\ ToSet(s) \subseteq Messages
         /\ IsInjective(s) <=> \A i, j \in 1 .. Len(s) : s[i] = s[j] => i = j
         /\ s = <<>> <=> Len(s) = 0
  BY DEF ToSet, IsInjective

LEMMA HoldsNothing ==
  <<>> \in Seq(Messages) /\ Len(<<>>) = 0 /\ ToSet(<<>>) = {} /\ IsInjective(<<>>)
  BY DEF ToSet, IsInjective

LEMMA FirstIs ==
  ASSUME NEW s \in Seq(Messages), NEW n \in 0 .. Len(s)
  PROVE  /\ FirstOf(s, n) \in Seq(Messages)
         /\ Len(FirstOf(s, n)) = n
         /\ \A i \in 1 .. n : FirstOf(s, n)[i] = s[i]
<1>1. Len(s) \in Nat /\ \A i \in 1 .. n : s[i] \in Messages
  BY Holds
<1>2. /\ SubSeq(s, 1, n) \in Seq(Messages)
      /\ Len(SubSeq(s, 1, n)) = IF 1 <= n THEN n - 1 + 1 ELSE 0
      /\ \A i \in 1 .. n - 1 + 1 : SubSeq(s, 1, n)[i] = s[1 + i - 1]
  BY <1>1, SubSeqProperties
<1> QED BY <1>1, <1>2 DEF FirstOf

LEMMA AfterIs ==
  ASSUME NEW s \in Seq(Messages), NEW n \in Nat
  PROVE  /\ After(s, n) \in Seq(Messages)
         /\ Len(After(s, n)) = IF n <= Len(s) THEN Len(s) - n ELSE 0
         /\ \A i \in 1 .. Len(After(s, n)) : n + i \in 1 .. Len(s) /\ After(s, n)[i] = s[n + i]
<1>1. Len(s) \in Nat /\ \A i \in n + 1 .. Len(s) : s[i] \in Messages
  BY Holds
<1>2. /\ SubSeq(s, n + 1, Len(s)) \in Seq(Messages)
      /\ Len(SubSeq(s, n + 1, Len(s))) =
           IF n + 1 <= Len(s) THEN Len(s) - (n + 1) + 1 ELSE 0
      /\ \A i \in 1 .. Len(s) - (n + 1) + 1 : SubSeq(s, n + 1, Len(s))[i] = s[n + 1 + i - 1]
  BY <1>1, SubSeqProperties
<1> QED BY <1>1, <1>2 DEF After

(***************************************************************************)
(* What is after the first n has come forward by n; with the first n it is *)
(* the sequence again.                                                     *)
(***************************************************************************)
LEMMA AfterHolds ==
  ASSUME NEW s \in Seq(Messages), NEW n \in Nat
  PROVE  /\ ToSet(After(s, n)) \subseteq ToSet(s)
         /\ IsInjective(s) => IsInjective(After(s, n))
         /\ \A j \in 1 .. Len(s) : j > n => s[j] \in ToSet(After(s, n))
<1> DEFINE t == After(s, n)
<1>1. /\ t \in Seq(Messages) /\ Len(s) \in Nat
      /\ Len(t) = IF n <= Len(s) THEN Len(s) - n ELSE 0
      /\ \A i \in 1 .. Len(t) : n + i \in 1 .. Len(s) /\ t[i] = s[n + i]
  BY AfterIs, Holds
<1> HIDE DEF t
<1>2. ToSet(t) \subseteq ToSet(s)
  <2> SUFFICES ASSUME NEW i \in 1 .. Len(t)  PROVE t[i] \in ToSet(s)
    BY <1>1, Holds
  <2> QED BY <1>1, Holds
<1>3. IsInjective(s) => IsInjective(t)
  <2> SUFFICES ASSUME IsInjective(s), NEW i \in 1 .. Len(t), NEW j \in 1 .. Len(t), t[i] = t[j]
               PROVE  i = j
    BY <1>1, Holds
  <2>1. s[n + i] = s[n + j] /\ n + i \in 1 .. Len(s) /\ n + j \in 1 .. Len(s)
    BY <1>1
  <2>2. n + i = n + j
    BY <2>1, Holds
  <2> QED BY <2>2
<1>4. \A j \in 1 .. Len(s) : j > n => s[j] \in ToSet(t)
  <2> SUFFICES ASSUME NEW j \in 1 .. Len(s), j > n  PROVE s[j] \in ToSet(t)
    OBVIOUS
  <2>1. j - n \in 1 .. Len(t) /\ t[j - n] = s[j]
    BY <1>1
  <2> QED BY <1>1, <2>1, Holds
<1> QED BY <1>2, <1>3, <1>4 DEF t

LEMMA FirstHolds ==
  ASSUME NEW s \in Seq(Messages), NEW n \in 0 .. Len(s)
  PROVE  /\ ToSet(FirstOf(s, n)) \subseteq ToSet(s)
         /\ n = 0 => FirstOf(s, n) = <<>>
         /\ IsInjective(s) => /\ IsInjective(FirstOf(s, n))
                              /\ ToSet(FirstOf(s, n)) \cap ToSet(After(s, n)) = {}
         /\ ToSet(s) = ToSet(FirstOf(s, n)) \cup ToSet(After(s, n))
<1> DEFINE f == FirstOf(s, n)
           t == After(s, n)
<1>1. /\ f \in Seq(Messages) /\ Len(f) = n /\ \A i \in 1 .. n : f[i] = s[i]
      /\ Len(s) \in Nat /\ n \in Nat /\ n <= Len(s)
  BY FirstIs, Holds
<1>2. /\ t \in Seq(Messages) /\ Len(t) = Len(s) - n
      /\ \A i \in 1 .. Len(t) : n + i \in 1 .. Len(s) /\ t[i] = s[n + i]
      /\ ToSet(t) \subseteq ToSet(s)
      /\ \A j \in 1 .. Len(s) : j > n => s[j] \in ToSet(t)
  BY <1>1, AfterIs, AfterHolds
<1> HIDE DEF f, t
<1>3. ToSet(f) \subseteq ToSet(s) /\ (n = 0 => f = <<>>)
  BY <1>1, Holds
<1>4. ASSUME IsInjective(s)
      PROVE  IsInjective(f) /\ ToSet(f) \cap ToSet(t) = {}
  <2>1. IsInjective(f)
    BY <1>1, <1>4, Holds
  <2>2. ASSUME NEW i \in 1 .. Len(f), NEW j \in 1 .. Len(t), f[i] = t[j]
        PROVE  FALSE
    <3>1. s[i] = s[n + j] /\ i \in 1 .. Len(s) /\ n + j \in 1 .. Len(s)
      BY <1>1, <1>2, <2>2
    <3>2. i = n + j
      BY <1>4, <3>1, Holds
    <3> QED BY <1>1, <1>2, <3>2
  <2> QED BY <1>1, <1>2, <2>1, <2>2, Holds
<1>5. ToSet(s) \subseteq ToSet(f) \cup ToSet(t)
  <2> SUFFICES ASSUME NEW j \in 1 .. Len(s)  PROVE s[j] \in ToSet(f) \cup ToSet(t)
    BY Holds
  <2>1. CASE j > n
    BY <1>2, <2>1
  <2>2. CASE j <= n
    <3>1. j \in 1 .. Len(f) /\ f[j] = s[j]
      BY <1>1, <2>2
    <3> QED BY <1>1, <3>1, Holds
  <2> QED BY <1>1, <2>1, <2>2
<1> QED BY <1>2, <1>3, <1>4, <1>5 DEF f, t

LEMMA FirstAndAfter ==
  ASSUME NEW s \in Seq(Messages), NEW n \in 0 .. Len(s)
  PROVE  FirstOf(s, n) \o After(s, n) = s
<1>1. Len(s) \in Nat /\ n \in Nat /\ n <= Len(s)
  BY Holds
<1>2. 1 \in 1 .. Len(s) + 1 /\ n \in 1 - 1 .. Len(s) /\ Len(s) \in n .. Len(s)
  BY <1>1
<1>3. SubSeq(s, 1, n) \o SubSeq(s, n + 1, Len(s)) = SubSeq(s, 1, Len(s))
  BY <1>2, ConcatAdjacentSubSeq, Zenon
<1> QED BY <1>3, SubSeqFull DEF FirstOf, After

(***************************************************************************)
(* Two sequences, one after the other.                                     *)
(***************************************************************************)
LEMMA JoinHolds ==
  ASSUME NEW s \in Seq(Messages), NEW t \in Seq(Messages)
  PROVE  /\ s \o t \in Seq(Messages)
         /\ Len(s \o t) = Len(s) + Len(t)
         /\ \A i \in 1 .. Len(s) : (s \o t)[i] = s[i]
         /\ \A i \in 1 .. Len(t) : (s \o t)[Len(s) + i] = t[i]
         /\ ToSet(s \o t) = ToSet(s) \cup ToSet(t)
<1> DEFINE p == s \o t
<1>1. /\ p \in Seq(Messages) /\ Len(p) = Len(s) + Len(t)
      /\ \A i \in 1 .. Len(s) + Len(t) : p[i] = IF i <= Len(s) THEN s[i] ELSE t[i - Len(s)]
  BY ConcatProperties
<1>2. Len(s) \in Nat /\ Len(t) \in Nat
  BY Holds
<1> HIDE DEF p
<1>3. \A i \in 1 .. Len(s) : i \in 1 .. Len(p) /\ p[i] = s[i]
  BY <1>1, <1>2
<1>4. \A i \in 1 .. Len(t) : Len(s) + i \in 1 .. Len(p) /\ p[Len(s) + i] = t[i]
  BY <1>1, <1>2
<1>5. ToSet(s) \cup ToSet(t) \subseteq ToSet(p)
  <2>1. \A i \in 1 .. Len(s) : s[i] \in ToSet(p)
    BY <1>1, <1>3, Holds
  <2>2. \A i \in 1 .. Len(t) : t[i] \in ToSet(p)
    BY <1>1, <1>4, Holds
  <2>3. ToSet(s) \subseteq ToSet(p)
    BY <2>1, Holds
  <2>4. ToSet(t) \subseteq ToSet(p)
    BY <2>2, Holds
  <2> QED BY <2>3, <2>4
<1>6. ToSet(p) \subseteq ToSet(s) \cup ToSet(t)
  <2> SUFFICES ASSUME NEW i \in 1 .. Len(p)  PROVE p[i] \in ToSet(s) \cup ToSet(t)
    BY <1>1, Holds
  <2>1. CASE i <= Len(s)
    <3>1. i \in 1 .. Len(s) /\ p[i] = s[i]
      BY <1>1, <1>2, <2>1
    <3> QED BY <3>1, Holds
  <2>2. CASE i > Len(s)
    <3>1. i - Len(s) \in 1 .. Len(t) /\ p[i] = t[i - Len(s)]
      BY <1>1, <1>2, <2>2
    <3> QED BY <3>1, Holds
  <2> QED BY <1>1, <1>2, <2>1, <2>2
<1> QED BY <1>1, <1>3, <1>4, <1>5, <1>6 DEF p

(***************************************************************************)
(* The first group is a part of the sequence.                              *)
(***************************************************************************)
LEMMA GroupWithin ==
  ASSUME NEW s \in Seq(Messages)
  PROVE  GroupSize(s) \in 0 .. Len(s)
<1> DEFINE G == {i \in 1 .. Len(s) : \A j \in 1 .. i : AuthOf[s[j]] = AuthOf[s[1]]}
<1>1. Len(s) \in Nat
  BY Holds
<1>2. IsFiniteSet(1 .. Len(s)) /\ Cardinality(1 .. Len(s)) = Len(s)
  <2>1. /\ IsFiniteSet(1 .. Len(s))
        /\ Cardinality(1 .. Len(s)) = IF 1 > Len(s) THEN 0 ELSE Len(s) - 1 + 1
    BY <1>1, 1 \in Int, Len(s) \in Int, FS_Interval, Zenon
  <2> QED BY <1>1, <2>1
<1>3. G \subseteq 1 .. Len(s)
  OBVIOUS
<1>4. IsFiniteSet(G) /\ Cardinality(G) <= Cardinality(1 .. Len(s))
  BY <1>2, <1>3, FS_Subset
<1>5. Cardinality(G) \in Nat
  BY <1>4, FS_CardinalityType
<1> QED BY <1>1, <1>2, <1>4, <1>5 DEF GroupSize
-----------------------------------------------------------------------------
(***************************************************************************)
(* The plan of a drain, and of one that is not in a turn.                  *)
(***************************************************************************)
LEMMA PlanIs ==
  ASSUME NEW d \in Drains
  PROVE  /\ Plan(d) \in Seq(Messages)
         /\ d.kind # "items" => Plan(d) = <<>>
         /\ d.kind = "items" =>
              /\ Len(Plan(d)) = Len(d.batch) + Len(d.later)
              /\ \A j \in 1 .. Len(d.batch) : Plan(d)[j] = d.batch[j]
              /\ \A j \in 1 .. Len(d.later) : Plan(d)[Len(d.batch) + j] = d.later[j]
              /\ ToSet(Plan(d)) = ToSet(d.batch) \cup ToSet(d.later)
<1>1. d.batch \in Seq(Messages) /\ d.later \in Seq(Messages)
  BY DEF Drains
<1>2. CASE d.kind # "items"
  BY <1>2, HoldsNothing DEF Plan
<1>3. CASE d.kind = "items"
  <2>1. Plan(d) = d.batch \o d.later
    BY <1>3 DEF Plan
  <2>2. /\ d.batch \o d.later \in Seq(Messages)
        /\ Len(d.batch \o d.later) = Len(d.batch) + Len(d.later)
        /\ \A j \in 1 .. Len(d.batch) : (d.batch \o d.later)[j] = d.batch[j]
        /\ \A j \in 1 .. Len(d.later) : (d.batch \o d.later)[Len(d.batch) + j] = d.later[j]
        /\ ToSet(d.batch \o d.later) = ToSet(d.batch) \cup ToSet(d.later)
    BY <1>1, JoinHolds, Zenon
  <2> QED BY <1>3, <2>1, <2>2, Zenon
<1> QED BY <1>2, <1>3

Resting == {Idle, Debouncing(FALSE), Debouncing(TRUE)}

LEMMA RestingIs ==
  ASSUME NEW d \in Resting
  PROVE  /\ d \in Drains /\ d.at \in {"idle", "debounce"} /\ d.kind = "none"
         /\ d.summary = {} /\ Plan(d) = <<>>
         /\ Idle.at = "idle"
<1>1. Idle \in Drains
  BY HoldsNothing DEF Idle, Drains
<1>2. ASSUME NEW f \in BOOLEAN
      PROVE  /\ Debouncing(f) \in Drains /\ Debouncing(f).at = "debounce"
             /\ Debouncing(f).kind = "none" /\ Debouncing(f).summary = {}
  <2>1. Debouncing(f) \in Drains
    BY HoldsNothing DEF Debouncing, Idle, Drains
  <2>2. Debouncing(f).at = "debounce" /\ Debouncing(f).kind = "none"
    BY DEF Debouncing, Idle
  <2>3. Debouncing(f).summary = {}
    BY DEF Debouncing, Idle
  <2> QED BY <2>1, <2>2, <2>3
<1>3. Idle.at = "idle" /\ Idle.kind = "none" /\ Idle.summary = {}
  BY DEF Idle
<1>4. \/ d = Idle
      \/ \E f \in BOOLEAN : d = Debouncing(f)
  BY DEF Resting
<1>5. d \in Drains /\ d.at \in {"idle", "debounce"} /\ d.kind = "none" /\ d.summary = {}
  BY <1>1, <1>2, <1>3, <1>4
<1> QED BY <1>3, <1>5 DEF Plan


(***************************************************************************)
(* What the parts of Sound say, once they are needed.                      *)
(***************************************************************************)
LEMMA SoundIs ==
  ASSUME NEW o, NEW d, NEW rec, NEW ans, Sound(o, d, rec, ans)
  PROVE  /\ o \in Objects /\ d \in Drains
         /\ o.items \in Seq(Messages) /\ o.summaryLines \in Seq(Messages)
         /\ Dropped(o) \subseteq Messages
         /\ Plan(d) \in Seq(Messages)
         /\ Content(o) = ToSet(o.items) \cup Dropped(o)
         /\ Owned(o, d) = Content(o) \cup ToSet(Plan(d))
         /\ Content(o) \subseteq rec /\ ToSet(Plan(d)) \subseteq rec /\ d.summary \subseteq rec
<1>1. o \in Objects /\ d \in Drains /\ Owned(o, d) \cup d.summary \subseteq rec
  BY DEF Sound
<1>2. o.items \in Seq(Messages) /\ o.summaryLines \in Seq(Messages)
  BY <1>1 DEF Objects
<1>3. Dropped(o) \subseteq Messages
  BY <1>2, Holds DEF Dropped
<1> QED BY <1>1, <1>2, <1>3, PlanIs DEF Owned, Content

(***************************************************************************)
(* A drain that stops or waits has nothing but the queue.                  *)
(***************************************************************************)
LEMMA RestingKeeps ==
  ASSUME NEW o, NEW d, NEW rec, NEW ans, Sound(o, d, rec, ans), NEW r \in Resting
  PROVE  /\ Sound(o, r, rec, ans)
         /\ Owned(o, r) = Content(o) /\ Content(o) \subseteq Owned(o, d)
         /\ Faithful(o, r)
<1>1. /\ r \in Drains /\ r.at # "turn" /\ r.kind = "none" /\ r.summary = {}
      /\ Plan(r) = <<>>
  BY RestingIs
<1>2. InOrder(o, r)
  BY <1>1, HoldsNothing DEF InOrder
<1>3. Owned(o, r) = Content(o) /\ Content(o) \subseteq Owned(o, d)
  BY <1>1, HoldsNothing DEF Owned
<1>4. Sound(o, r, rec, ans)
  BY <1>1, <1>2, <1>3, HoldsNothing, SoundIs DEF Sound
<1> QED BY <1>1, <1>3, <1>4 DEF Faithful

(***************************************************************************)
(* More accepted messages, and others that were run, change nothing.       *)
(***************************************************************************)
LEMMA OthersKeep ==
  ASSUME NEW o, NEW d, NEW rec, NEW ans, Sound(o, d, rec, ans),
         NEW rec2, rec \subseteq rec2,
         NEW X, NEW ans2, ans2 \subseteq ans \cup X, X \cap Owned(o, d) = {}
  PROVE  Sound(o, d, rec2, ans2)
<1>1. ToSet(o.items) \cup ToSet(Plan(d)) \subseteq Owned(o, d)
  BY SoundIs
<1>2. (ToSet(o.items) \cup ToSet(Plan(d))) \cap ans = {}
  BY DEF Sound
<1>3. (ToSet(o.items) \cup ToSet(Plan(d))) \cap ans2 = {}
  BY <1>1, <1>2
<1>4. Owned(o, d) \cup d.summary \subseteq rec2
  BY DEF Sound
<1> QED BY <1>3, <1>4 DEF Sound

LEMMA MoreAccepted ==
  ASSUME NEW o, NEW d, NEW rec, NEW ans, Sound(o, d, rec, ans), NEW rec2, rec \subseteq rec2
  PROVE  Sound(o, d, rec2, ans)
<1>1. Owned(o, d) \cup d.summary \subseteq rec2
  BY DEF Sound
<1> QED BY <1>1 DEF Sound

LEMMA FewerRun ==
  ASSUME NEW o, NEW d, NEW rec, NEW ans, Sound(o, d, rec, ans), NEW ans2, ans2 \subseteq ans
  PROVE  Sound(o, d, rec, ans2)
BY OthersKeep, {} \cap Owned(o, d) = {}

LEMMA SettingsKeep ==
  ASSUME NEW o, NEW d, NEW rec, NEW ans, Sound(o, d, rec, ans), NEW s \in QueueSettings
  PROVE  /\ Sound(WithSettings(o, s), d, rec, ans)
         /\ Content(WithSettings(o, s)) = Content(o)
         /\ Owned(WithSettings(o, s), d) = Owned(o, d)
         /\ Faithful(o, d) => Faithful(WithSettings(o, s), d)
<1> DEFINE w == WithSettings(o, s)
<1>1. o \in Objects
  BY DEF Sound
<1>2. /\ s.mode \in {"collect", "followup"} /\ s.cap \in Nat \ {0}
      /\ s.dropPolicy \in {"summarize", "old", "new"}
  OBVIOUS
<1>3. w \in Objects /\ w.items = o.items /\ w.summaryLines = o.summaryLines
  BY <1>1, <1>2 DEF WithSettings, Objects
<1> HIDE DEF w
<1>4. Dropped(w) = Dropped(o)
  BY <1>3 DEF Dropped
<1>5. Content(w) = Content(o) /\ Owned(w, d) = Owned(o, d) /\ (InOrder(o, d) => InOrder(w, d))
  BY <1>3, <1>4 DEF Content, Owned, InOrder
<1>6. Sound(w, d, rec, ans)
  BY <1>3, <1>4, <1>5 DEF Sound
<1>7. Faithful(o, d) => Faithful(w, d)
  BY <1>3, <1>4 DEF Faithful
<1> QED BY <1>5, <1>6, <1>7 DEF w
-----------------------------------------------------------------------------
(***************************************************************************)
(* A message is pushed: the front leaves the items, for the summary or for *)
(* good, and what stays comes forward.                                     *)
(***************************************************************************)
LEMMA OverflowWithin ==
  ASSUME NEW o \in Objects
  PROVE  Overflow(o) \in 0 .. Len(o.items)
<1>1. o.items \in Seq(Messages) /\ o.cap \in Nat \ {0}
  BY DEF Objects
<1>2. Len(o.items) \in Nat
  BY <1>1, Holds
<1> QED BY <1>1, <1>2 DEF Overflow

LEMMA PushedHolds ==
  ASSUME NEW s \in Seq(Messages), NEW m \in Messages
  PROVE  /\ Append(s, m) \in Seq(Messages)
         /\ ToSet(Append(s, m)) = ToSet(s) \cup {m}
         /\ Len(Append(s, m)) = Len(s) + 1
         /\ \A i \in 1 .. Len(s) : Append(s, m)[i] = s[i]
         /\ IsInjective(s) /\ m \notin ToSet(s) => IsInjective(Append(s, m))
<1> DEFINE a == Append(s, m)
<1>1. /\ a \in Seq(Messages) /\ Len(a) = Len(s) + 1 /\ Len(s) \in Nat
      /\ \A i \in 1 .. Len(s) : a[i] = s[i]
      /\ a[Len(s) + 1] = m
  BY AppendProperties, Holds
<1> HIDE DEF a
<1>2. ToSet(a) \subseteq ToSet(s) \cup {m}
  <2> SUFFICES ASSUME NEW i \in 1 .. Len(a)  PROVE a[i] \in ToSet(s) \cup {m}
    BY <1>1, Holds
  <2>1. i \in 1 .. Len(s) \/ i = Len(s) + 1
    BY <1>1
  <2> QED BY <1>1, <2>1, Holds
<1>3. ToSet(s) \cup {m} \subseteq ToSet(a)
  <2>1. \A i \in 1 .. Len(s) : i \in 1 .. Len(a) /\ s[i] = a[i]
    BY <1>1
  <2>2. Len(s) + 1 \in 1 .. Len(a)
    BY <1>1
  <2>3. \A i \in 1 .. Len(s) : s[i] \in ToSet(a)
    BY <1>1, <2>1, Holds
  <2>4. m \in ToSet(a)
    BY <1>1, <2>2, Holds
  <2>5. ToSet(s) \subseteq ToSet(a)
    BY <2>3, Holds
  <2> QED BY <2>4, <2>5
<1>4. ASSUME IsInjective(s), m \notin ToSet(s)
      PROVE  IsInjective(a)
  <2> SUFFICES ASSUME NEW i \in 1 .. Len(a), NEW j \in 1 .. Len(a), a[i] = a[j]
               PROVE  i = j
    BY <1>1, Holds
  <2>1. CASE i \in 1 .. Len(s) /\ j \in 1 .. Len(s)
    BY <1>1, <1>4, <2>1, Holds
  <2>2. CASE i \in 1 .. Len(s) /\ j = Len(s) + 1
    BY <1>1, <1>4, <2>2, Holds
  <2>3. CASE i = Len(s) + 1 /\ j \in 1 .. Len(s)
    BY <1>1, <1>4, <2>3, Holds
  <2>4. CASE i = Len(s) + 1 /\ j = Len(s) + 1
    BY <2>4
  <2> QED BY <1>1, <2>1, <2>2, <2>3, <2>4
<1> QED BY <1>1, <1>2, <1>3, <1>4 DEF a

(***************************************************************************)
(* The lines of the summary afterwards are lines of before or of the front *)
(* that leaves; those that are gone are the trimmed ones.                  *)
(***************************************************************************)
LEMMA SummarizedIs ==
  ASSUME NEW o \in Objects
  PROVE  LET front == ToSet(FirstOf(o.items, Overflow(o)))
         IN  /\ Summarized(o) \in Seq(Messages)
             /\ ToSet(Summarized(o)) \subseteq Dropped(o) \cup front
             /\ Dropped(o) \subseteq ToSet(Summarized(o)) \cup Trimmed(o)
             /\ o.dropPolicy = "summarize" => front \subseteq ToSet(Summarized(o)) \cup Trimmed(o)
             /\ Trimmed(o) \subseteq Content(o)
             /\ Overflow(o) = 0 => Summarized(o) = o.summaryLines
<1> DEFINE n == Overflow(o)
           f == FirstOf(o.items, n)
           lines == LinesWith(o)
           full == o.dropPolicy = "summarize" /\ n > 0
<1>1. /\ o.items \in Seq(Messages) /\ o.summaryLines \in Seq(Messages)
      /\ o.cap \in Nat \ {0}
  BY DEF Objects
<1>2. n \in 0 .. Len(o.items) /\ n \in Nat
  <2>1. n \in 0 .. Len(o.items) /\ Len(o.items) \in Nat
    BY <1>1, OverflowWithin, Holds
  <2> HIDE DEF n
  <2> QED BY <2>1
<1>3. /\ f \in Seq(Messages) /\ ToSet(f) \subseteq ToSet(o.items)
      /\ n = 0 => f = <<>>
  BY <1>1, <1>2, FirstIs, FirstHolds
<1>4. lines \in Seq(Messages) /\ ToSet(lines) = Dropped(o) \cup ToSet(f)
  <2>1. lines = o.summaryLines \o f
    BY DEF LinesWith
  <2>2. /\ o.summaryLines \o f \in Seq(Messages)
        /\ ToSet(o.summaryLines \o f) = ToSet(o.summaryLines) \cup ToSet(f)
    BY <1>1, <1>3, JoinHolds
  <2> QED BY <2>1, <2>2 DEF Dropped
<1>5. Latest(lines, o.cap) \in Seq(Messages) /\ ToSet(Latest(lines, o.cap)) \subseteq ToSet(lines)
  <2>1. Len(lines) \in Nat
    BY <1>4, Holds
  <2>2. CASE Len(lines) <= o.cap
    <3>1. Latest(lines, o.cap) = lines
      BY <2>2 DEF Latest
    <3> QED BY <1>4, <3>1
  <2>3. CASE ~(Len(lines) <= o.cap)
    <3>1. Len(lines) - o.cap \in Nat
      BY <1>1, <2>1, <2>3
    <3>2. Latest(lines, o.cap) = After(lines, Len(lines) - o.cap)
      BY <2>3 DEF Latest
    <3> QED BY <1>4, <3>1, <3>2, AfterIs, AfterHolds
  <2> QED BY <2>2, <2>3
<1>6. /\ Summarized(o) = IF full THEN Latest(lines, o.cap) ELSE o.summaryLines
      /\ Trimmed(o) = IF full THEN ToSet(lines) \ ToSet(Summarized(o)) ELSE {}
  BY DEF Summarized, Trimmed
<1>7. /\ Content(o) = ToSet(o.items) \cup Dropped(o)
      /\ n = 0 => ToSet(f) = {}
  BY <1>3, HoldsNothing DEF Content
<1> HIDE DEF lines, f
<1>8. CASE full
  BY <1>3, <1>4, <1>5, <1>6, <1>7, <1>8 DEF f
<1>9. CASE ~full
  <2>1. o.dropPolicy = "summarize" => ToSet(f) = {}
    BY <1>2, <1>7, <1>9
  <2>2. Summarized(o) = o.summaryLines /\ Trimmed(o) = {}
    BY <1>6, <1>9
  <2> QED BY <1>1, <2>1, <2>2 DEF Dropped, f
<1> QED BY <1>8, <1>9

LEMMA ItemAdded ==
  ASSUME NEW o, NEW d, NEW rec, NEW ans, Sound(o, d, rec, ans), ans \subseteq rec,
         NEW m \in Messages, m \notin rec
  PROVE  /\ Sound(WithItem(o, m), d, rec \cup {m}, ans)
         /\ Content(WithItem(o, m)) \subseteq Content(o) \cup {m}
         /\ Owned(WithItem(o, m), d) \subseteq Owned(o, d) \cup {m}
         /\ Content(o) \cup {m} \subseteq
              Content(WithItem(o, m)) \cup
                (IF o.dropPolicy = "summarize" THEN Trimmed(o)
                 ELSE ToSet(FirstOf(o.items, Overflow(o))))
         /\ Faithful(o, d) /\ (d.at = "turn" => Overflow(o) = 0)
              => Faithful(WithItem(o, m), d)
<1> DEFINE n == Overflow(o)
           w == WithItem(o, m)
           a == After(o.items, n)
           front == ToSet(FirstOf(o.items, n))
           p == Plan(d)
<1>1. /\ o \in Objects /\ o.items \in Seq(Messages) /\ Dropped(o) \subseteq Messages
      /\ p \in Seq(Messages)
      /\ Content(o) = ToSet(o.items) \cup Dropped(o) /\ Content(o) \subseteq rec
      /\ ToSet(p) \subseteq rec /\ Owned(o, d) = Content(o) \cup ToSet(p)
      /\ IsInjective(o.items) /\ IsInjective(p) /\ ToSet(o.items) \cap Dropped(o) = {}
      /\ d.summary \subseteq rec
      /\ (ToSet(o.items) \cup ToSet(p)) \cap ans = {}
  BY SoundIs DEF Sound
<1>2. n \in 0 .. Len(o.items) /\ n \in Nat /\ Len(o.items) \in Nat
  BY <1>1, OverflowWithin, Holds
<1>3. /\ a \in Seq(Messages) /\ Len(a) = Len(o.items) - n /\ Len(a) \in Nat
      /\ \A i \in 1 .. Len(a) : n + i \in 1 .. Len(o.items) /\ a[i] = o.items[n + i]
      /\ ToSet(a) \subseteq ToSet(o.items) /\ IsInjective(a)
  <2>1. /\ a \in Seq(Messages)
        /\ Len(a) = IF n <= Len(o.items) THEN Len(o.items) - n ELSE 0
        /\ \A i \in 1 .. Len(a) : n + i \in 1 .. Len(o.items) /\ a[i] = o.items[n + i]
    BY <1>1, <1>2, AfterIs, Zenon
  <2>2. ToSet(a) \subseteq ToSet(o.items) /\ IsInjective(a)
    BY <1>1, <1>2, AfterHolds, Zenon
  <2> HIDE DEF a, n
  <2> QED BY <1>2, <2>1, <2>2
<1>4. /\ ToSet(o.items) = front \cup ToSet(a) /\ front \cap ToSet(a) = {}
      /\ n = 0 => front = {}
  BY <1>1, <1>2, FirstHolds, HoldsNothing
<1>5. m \notin ToSet(a) /\ m \notin ToSet(p) /\ m \notin Dropped(o) /\ m \notin ans
  BY <1>1, <1>3
<1>6. /\ w.items = Append(a, m) /\ w.summaryLines = Summarized(o)
      /\ Dropped(w) = ToSet(Summarized(o))
  <2>1. w.items = Append(a, m) /\ w.summaryLines = Summarized(o)
    BY <1>1 DEF WithItem, Objects
  <2> QED BY <2>1 DEF Dropped
<1>61. /\ Summarized(o) \in Seq(Messages)
       /\ Dropped(w) \subseteq Dropped(o) \cup front
       /\ Dropped(o) \subseteq Dropped(w) \cup Trimmed(o)
       /\ o.dropPolicy = "summarize" => front \subseteq Dropped(w) \cup Trimmed(o)
       /\ o.dropPolicy # "summarize" => Dropped(w) = Dropped(o)
       /\ n = 0 => Dropped(w) = Dropped(o)
  <2>1. /\ Summarized(o) \in Seq(Messages)
        /\ ToSet(Summarized(o)) \subseteq Dropped(o) \cup front
        /\ Dropped(o) \subseteq ToSet(Summarized(o)) \cup Trimmed(o)
        /\ o.dropPolicy = "summarize" => front \subseteq ToSet(Summarized(o)) \cup Trimmed(o)
        /\ n = 0 => Summarized(o) = o.summaryLines
    BY <1>1, SummarizedIs
  <2>2. o.dropPolicy # "summarize" => Summarized(o) = o.summaryLines
    BY DEF Summarized
  <2>3. Dropped(o) = ToSet(o.summaryLines)
    BY DEF Dropped
  <2> HIDE DEF w, n, front
  <2> QED BY <1>6, <2>1, <2>2, <2>3
<1>7. /\ w.items \in Seq(Messages) /\ ToSet(w.items) = ToSet(a) \cup {m}
      /\ Len(w.items) = Len(a) + 1 /\ \A i \in 1 .. Len(a) : w.items[i] = a[i]
      /\ IsInjective(w.items)
      /\ w.items[Len(a) + 1] = m
  BY <1>3, <1>5, <1>6, PushedHolds, AppendProperties
<1>8. w \in Objects
  <2>1. w = [o EXCEPT !.items = w.items, !.summaryLines = w.summaryLines]
    BY <1>1 DEF WithItem, Objects
  <2>2. w.summaryLines \in Seq(Messages)
    BY <1>6, <1>61
  <2> HIDE DEF w
  <2> QED BY <1>1, <1>7, <2>1, <2>2 DEF Objects
<1>9. /\ Content(w) = ToSet(w.items) \cup Dropped(w)
      /\ Owned(w, d) = Content(w) \cup ToSet(p)
  BY DEF Content, Owned
<1> HIDE DEF n, w, a, front, p
<1>10. ToSet(w.items) \cap Dropped(w) = {}
  BY <1>1, <1>4, <1>5, <1>61, <1>7
<1>11. \A i \in 1 .. Len(w.items), j \in 1 .. Len(p) : w.items[i] = p[j] => i <= j
  <2> SUFFICES ASSUME NEW i \in 1 .. Len(w.items), NEW j \in 1 .. Len(p), w.items[i] = p[j]
               PROVE  i <= j
    OBVIOUS
  <2>1. p[j] \in ToSet(p)
    BY <1>1, Holds
  <2>2. i \in 1 .. Len(a)
    BY <1>3, <1>5, <1>7, <2>1
  <2>3. o.items[n + i] = p[j] /\ n + i \in 1 .. Len(o.items)
    BY <1>3, <1>7, <2>2
  <2>4. n + i <= j
    BY <2>3 DEF Sound, InOrder, p
  <2> QED BY <1>2, <2>4
<1>12. Content(w) \subseteq Content(o) \cup {m}
  BY <1>1, <1>4, <1>61, <1>7, <1>9
<1>13. Owned(w, d) \subseteq Owned(o, d) \cup {m}
  BY <1>1, <1>9, <1>12
<1>14. Content(o) \cup {m} \subseteq
         Content(w) \cup (IF o.dropPolicy = "summarize" THEN Trimmed(o) ELSE front)
  BY <1>1, <1>4, <1>61, <1>7, <1>9
<1>15. Sound(w, d, rec \cup {m}, ans)
  <2>1. Owned(w, d) \cup d.summary \subseteq rec \cup {m}
    BY <1>1, <1>13
  <2>2. (ToSet(w.items) \cup ToSet(p)) \cap ans = {}
    BY <1>1, <1>4, <1>5, <1>7
  <2>3. InOrder(w, d)
    BY <1>11 DEF InOrder, p
  <2> QED BY <1>7, <1>8, <1>10, <2>1, <2>2, <2>3 DEF Sound, p
<1>16. ASSUME Faithful(o, d), d.at = "turn" => n = 0
       PROVE  Faithful(w, d)
  <2> SUFFICES ASSUME d.at = "turn"
               PROVE  /\ Len(p) <= Len(w.items)
                      /\ \A j \in 1 .. Len(p) : p[j] = w.items[j]
                      /\ d.summary # {} => Dropped(w) \subseteq d.summary
    BY DEF Faithful, p
  <2>1. /\ n = 0 /\ Len(p) <= Len(o.items) /\ \A j \in 1 .. Len(p) : p[j] = o.items[j]
        /\ d.summary # {} => Dropped(o) \subseteq d.summary
    BY <1>16 DEF Faithful, p
  <2>2. Len(a) = Len(o.items) /\ \A i \in 1 .. Len(a) : a[i] = o.items[i]
    BY <1>2, <1>3, <2>1
  <2>3. Len(p) \in Nat /\ Len(p) <= Len(w.items)
    BY <1>1, <1>3, <1>7, <2>1, <2>2, Holds
  <2>4. ASSUME NEW j \in 1 .. Len(p)  PROVE p[j] = w.items[j]
    <3>1. Len(o.items) \in Nat /\ j \in 1 .. Len(o.items) /\ j \in 1 .. Len(a)
      BY <1>1, <2>1, <2>2, <2>3, Holds
    <3>2. w.items[j] = a[j]
      BY <1>7, <2>3, <3>1
    <3> QED BY <2>1, <2>2, <3>1, <3>2
  <2>5. Dropped(w) = Dropped(o)
    BY <1>61, <2>1
  <2> QED BY <2>1, <2>3, <2>4, <2>5
<1> QED BY <1>12, <1>13, <1>14, <1>15, <1>16 DEF n, w, front
-----------------------------------------------------------------------------
(***************************************************************************)
(* A turn whose plan is a prefix of the queue, with the whole summary or   *)
(* none.                                                                   *)
(***************************************************************************)
LEMMA PrefixPlanned ==
  ASSUME NEW o, NEW d, NEW rec, NEW ans, Sound(o, d, rec, ans),
         NEW t \in Drains, t.at = "turn", t.kind # "none",
         t.kind = "summaryOnly" => t.batch = <<>> /\ t.later = <<>>,
         Len(Plan(t)) <= Len(o.items),
         \A j \in 1 .. Len(Plan(t)) : Plan(t)[j] = o.items[j],
         t.summary = {} \/ t.summary = Dropped(o)
  PROVE  Sound(o, t, rec, ans) /\ Faithful(o, t) /\ Owned(o, t) \subseteq Owned(o, d)
<1> DEFINE p == Plan(t)
<1>1. /\ o.items \in Seq(Messages) /\ p \in Seq(Messages)
      /\ Len(o.items) \in Nat /\ Len(p) \in Nat
      /\ IsInjective(o.items) /\ o \in Objects
      /\ ToSet(o.items) \cap Dropped(o) = {}
      /\ ToSet(o.items) \cap ans = {}
      /\ Content(o) = ToSet(o.items) \cup Dropped(o) /\ Content(o) \subseteq rec
      /\ Content(o) \subseteq Owned(o, d)
  <2>1. /\ IsInjective(o.items) /\ o \in Objects /\ ToSet(o.items) \cap Dropped(o) = {}
        /\ ToSet(o.items) \cap ans = {}
    BY DEF Sound
  <2>2. /\ o.items \in Seq(Messages) /\ Content(o) = ToSet(o.items) \cup Dropped(o)
        /\ Content(o) \subseteq rec /\ Content(o) \subseteq Owned(o, d)
    BY SoundIs
  <2>3. p \in Seq(Messages)
    BY PlanIs
  <2>4. Len(o.items) \in Nat /\ Len(p) \in Nat
    BY <2>2, <2>3, Holds
  <2> QED BY <2>1, <2>2, <2>3, <2>4
<1> HIDE DEF p
<1>2. Len(p) <= Len(o.items) /\ \A j \in 1 .. Len(p) : j \in 1 .. Len(o.items) /\ p[j] = o.items[j]
  BY <1>1 DEF p
<1>3. ToSet(p) \subseteq ToSet(o.items)
  BY <1>1, <1>2, Holds
<1>4. IsInjective(p)
  BY <1>1, <1>2, Holds
<1>5. ASSUME NEW i \in 1 .. Len(o.items), NEW j \in 1 .. Len(p), o.items[i] = p[j]
      PROVE  i <= j
  <2>1. i = j
    BY <1>1, <1>2, <1>5, Holds
  <2> QED BY <1>1, <2>1
<1>6. InOrder(o, t)
  BY <1>5 DEF InOrder, p
<1>7. Owned(o, t) = Content(o)
  BY <1>1, <1>3 DEF Owned, p
<1>8. Owned(o, t) \cup t.summary \subseteq rec /\ (ToSet(o.items) \cup ToSet(p)) \cap ans = {}
  BY <1>1, <1>3, <1>7
<1>9. Sound(o, t, rec, ans)
  BY <1>1, <1>4, <1>6, <1>8 DEF Sound, p
<1>10. Faithful(o, t)
  BY <1>2 DEF Faithful, p
<1> QED BY <1>1, <1>7, <1>9, <1>10

(***************************************************************************)
(* Every turn that the loop's body starts is of this kind.                 *)
(***************************************************************************)
LEMMA TurnIs ==
  ASSUME NEW f, NEW k, NEW b, NEW S, NEW l
  PROVE  /\ Turn(f, k, b, S, l).at = "turn" /\ Turn(f, k, b, S, l).kind = k
         /\ Turn(f, k, b, S, l).batch = b /\ Turn(f, k, b, S, l).later = l
         /\ Turn(f, k, b, S, l).summary = S
         /\ Plan(Turn(f, k, b, S, l)) = IF k = "items" THEN b \o l ELSE <<>>
  BY DEF Turn, Plan

LEMMA NextTurnIs ==
  ASSUME NEW o, NEW d, NEW rec, NEW ans, Sound(o, d, rec, ans), NEW f \in BOOLEAN,
         NextTurn(o, f) # Idle
  PROVE  LET t == NextTurn(o, f)
         IN  Sound(o, t, rec, ans) /\ Faithful(o, t) /\ Owned(o, t) \subseteq Owned(o, d)
<1> DEFINE t == NextTurn(o, f)
           next == FirstOf(o.items, 1)
           n == GroupSize(o.items)
           Prefix(p) == /\ Len(p) <= Len(o.items)
                        /\ \A j \in 1 .. Len(p) : p[j] = o.items[j]
<1>1. /\ o \in Objects /\ o.items \in Seq(Messages) /\ Dropped(o) \subseteq Messages
      /\ Len(o.items) \in Nat
      /\ o.items # <<>> => 1 \in 0 .. Len(o.items)
  BY SoundIs, Holds
<1>2. Summary(o) \in SUBSET Messages /\ Summary(o) \in {{}, Dropped(o)}
  BY <1>1 DEF Summary
<1>3. Prefix(<<>>)
  BY <1>1, HoldsNothing
<1>4. o.items # <<>> => next \in Seq(Messages) /\ Prefix(next \o <<>>)
  <2> SUFFICES ASSUME o.items # <<>>  PROVE next \in Seq(Messages) /\ Prefix(next \o <<>>)
    OBVIOUS
  <2>1. next \in Seq(Messages) /\ Len(next) = 1 /\ \A i \in 1 .. 1 : next[i] = o.items[i]
    BY <1>1, FirstIs, Zenon
  <2>2. next \o <<>> = next
    BY <2>1, ConcatEmptySeq
  <2> QED BY <1>1, <2>1, <2>2
<1>5. /\ FirstOf(o.items, n) \in Seq(Messages) /\ After(o.items, n) \in Seq(Messages)
      /\ Prefix(FirstOf(o.items, n) \o After(o.items, n))
  <2>1. n \in 0 .. Len(o.items) /\ n \in Nat
    BY <1>1, GroupWithin
  <2>2. FirstOf(o.items, n) \o After(o.items, n) = o.items
    BY <1>1, <2>1, FirstAndAfter
  <2>3. FirstOf(o.items, n) \in Seq(Messages) /\ After(o.items, n) \in Seq(Messages)
    BY <1>1, <2>1, FirstIs, AfterIs
  <2> QED BY <1>1, <2>2, <2>3
<1>6. ASSUME NEW g \in BOOLEAN, NEW k \in {"items", "summaryOnly", "summaryTurn"},
             NEW b \in Seq(Messages), NEW S, S = {} \/ S = Summary(o), NEW l \in Seq(Messages),
             k = "summaryOnly" => b = <<>> /\ l = <<>>,
             Prefix(IF k = "items" THEN b \o l ELSE <<>>),
             t = Turn(g, k, b, S, l)
      PROVE  Sound(o, t, rec, ans) /\ Faithful(o, t) /\ Owned(o, t) \subseteq Owned(o, d)
  <2>1. S \in SUBSET Messages /\ (S = {} \/ S = Dropped(o))
    BY <1>2, <1>6
  <2>2. /\ t \in Drains /\ t.at = "turn" /\ t.kind = k /\ t.kind # "none"
        /\ t.kind = "summaryOnly" => t.batch = <<>> /\ t.later = <<>>
        /\ t.summary = {} \/ t.summary = Dropped(o)
        /\ Prefix(Plan(t))
    <3> DEFINE u == Turn(g, k, b, S, l)
    <3>1. /\ u.at = "turn" /\ u.kind = k /\ u.batch = b /\ u.later = l
          /\ u.summary = S /\ Plan(u) = IF k = "items" THEN b \o l ELSE <<>>
      BY TurnIs
    <3>2. u \in Drains
      BY <2>1 DEF Turn, Drains
    <3>3. t = u
      BY <1>6
    <3> HIDE DEF t, u
    <3> QED BY <1>6, <2>1, <3>1, <3>2, <3>3
  <2> HIDE DEF t
  <2> QED BY <2>2, PrefixPlanned
<1>7. \/ t = Turn(f, "summaryOnly", <<>>, Summary(o), <<>>)
      \/ o.items # <<>> /\ t = Turn(TRUE, "items", next, {}, <<>>)
      \/ t = Turn(FALSE, "items", FirstOf(o.items, n), Summary(o), After(o.items, n))
      \/ o.items # <<>> /\ t = Turn(f, "summaryTurn", next, Summary(o), <<>>)
      \/ o.items # <<>> /\ t = Turn(f, "items", next, {}, <<>>)
  BY DEF NextTurn
<1> HIDE DEF t, next, n
<1>8. CASE t = Turn(f, "summaryOnly", <<>>, Summary(o), <<>>)
  BY <1>3, <1>6, <1>8, HoldsNothing DEF t
<1>9. CASE o.items # <<>> /\ t = Turn(TRUE, "items", next, {}, <<>>)
  BY <1>4, <1>6, <1>9, HoldsNothing DEF t
<1>10. CASE t = Turn(FALSE, "items", FirstOf(o.items, n), Summary(o), After(o.items, n))
  BY <1>5, <1>6, <1>10 DEF t
<1>11. CASE o.items # <<>> /\ t = Turn(f, "summaryTurn", next, Summary(o), <<>>)
  BY <1>3, <1>4, <1>6, <1>11, HoldsNothing DEF t
<1>12. CASE o.items # <<>> /\ t = Turn(f, "items", next, {}, <<>>)
  BY <1>4, <1>6, <1>12, HoldsNothing DEF t
<1> QED BY <1>7, <1>8, <1>9, <1>10, <1>11, <1>12
-----------------------------------------------------------------------------
(***************************************************************************)
(* The end of a turn that returned: what it leaves of the queue, what it   *)
(* may add to the messages that were run, and the turn that follows it.    *)
(***************************************************************************)
Left(o, d) == [o EXCEPT !.items = Remaining(o, d),
                        !.summaryLines = IF d.summary # {} THEN <<>> ELSE @]
Following(d) == [d EXCEPT !.batch = FirstOf(d.later, GroupSize(d.later)),
                          !.later = After(d.later, GroupSize(d.later)),
                          !.summary = {}]

LEMMA LeftIs ==
  ASSUME NEW o, NEW d, NEW rec, NEW ans, Sound(o, d, rec, ans)
  PROVE  /\ Left(o, d) \in Objects
         /\ Left(o, d).items = After(o.items, Len(d.batch))
         /\ Left(o, d).items \in Seq(Messages)
         /\ Dropped(Left(o, d)) = IF d.summary # {} THEN {} ELSE Dropped(o)
         /\ Content(Left(o, d)) \subseteq Content(o)
         /\ IsInjective(Left(o, d).items)
         /\ ToSet(Left(o, d).items) \subseteq ToSet(o.items)
         /\ ToSet(Left(o, d).items) \cap Dropped(Left(o, d)) = {}
         /\ ToSet(Left(o, d).items) \cap (ans \cup Ran(d)) = {}
         /\ Ran(d) \subseteq rec /\ Ran(d) \subseteq Owned(o, d)
<1> DEFINE n == Len(d.batch)
           w == Left(o, d)
<1>1. /\ o \in Objects /\ d \in Drains /\ o.items \in Seq(Messages)
      /\ IsInjective(o.items) /\ ToSet(o.items) \cap Dropped(o) = {}
      /\ ToSet(o.items) \cap ans = {}
  BY SoundIs DEF Sound
<1>2. d.batch \in Seq(Messages) /\ n \in Nat /\ Len(o.items) \in Nat
  BY <1>1, Holds DEF Drains
<1>3. /\ After(o.items, n) \in Seq(Messages)
      /\ \A i \in 1 .. Len(After(o.items, n)) :
           n + i \in 1 .. Len(o.items) /\ After(o.items, n)[i] = o.items[n + i]
      /\ ToSet(After(o.items, n)) \subseteq ToSet(o.items)
      /\ IsInjective(After(o.items, n))
  BY <1>1, <1>2, AfterIs, AfterHolds
<1>4. /\ w \in Objects /\ w.items = After(o.items, n)
      /\ Dropped(w) = IF d.summary # {} THEN {} ELSE Dropped(o)
  <2>1. /\ w \in Objects /\ w.items = After(o.items, n)
        /\ w.summaryLines = IF d.summary # {} THEN <<>> ELSE o.summaryLines
    BY <1>1, <1>3, HoldsNothing DEF Left, Remaining, Objects
  <2> HIDE DEF w
  <2> QED BY <2>1, HoldsNothing DEF Dropped
<1>5. Ran(d) \subseteq ToSet(Plan(d))
  BY <1>1, PlanIs DEF Ran
<1>6. Ran(d) \subseteq rec /\ Ran(d) \subseteq Owned(o, d)
  BY <1>5, SoundIs
<1>7. ASSUME NEW m \in ToSet(w.items), m \in Ran(d)
      PROVE  FALSE
  <2>1. d.kind = "items" /\ m \in ToSet(d.batch)
    BY <1>7 DEF Ran
  <2>2. PICK j \in 1 .. n : d.batch[j] = m
    BY <1>2, <2>1, Holds
  <2>3. PICK i \in 1 .. Len(w.items) : w.items[i] = m
    BY <1>3, <1>4, <1>7, Holds
  <2>4. n + i \in 1 .. Len(o.items) /\ o.items[n + i] = m
    BY <1>3, <1>4, <2>3
  <2>5. j \in 1 .. Len(Plan(d)) /\ Plan(d)[j] = m
    <3>1. d.later \in Seq(Messages) /\ Len(d.later) \in Nat
      BY <1>1, Holds DEF Drains
    <3>2. Len(Plan(d)) = n + Len(d.later) /\ Plan(d)[j] = m
      BY <1>1, <2>1, <2>2, PlanIs
    <3>3. Len(Plan(d)) \in Nat /\ j \in 1 .. n
      BY <1>1, <2>2, PlanIs, Holds
    <3> HIDE DEF n
    <3> QED BY <1>2, <3>1, <3>2, <3>3
  <2>6. n + i <= j
    BY <2>4, <2>5 DEF Sound, InOrder
  <2>7. i \in Nat /\ i >= 1
    BY <1>3, <1>4, <2>3, Holds
  <2> QED BY <1>2, <2>2, <2>6, <2>7
<1> HIDE DEF w
<1>8. Content(w) \subseteq Content(o) /\ ToSet(w.items) \subseteq ToSet(o.items)
  BY <1>3, <1>4 DEF Content
<1>9. ToSet(w.items) \cap Dropped(w) = {} /\ ToSet(w.items) \cap (ans \cup Ran(d)) = {}
  BY <1>1, <1>4, <1>7, <1>8
<1> QED BY <1>3, <1>4, <1>6, <1>8, <1>9 DEF w

(***************************************************************************)
(* The drain goes back to the head of its loop, or stops.                  *)
(***************************************************************************)
LEMMA TurnDoneRests ==
  ASSUME NEW o, NEW d, NEW rec, NEW ans, Sound(o, d, rec, ans), NEW r \in Resting
  PROVE  /\ Sound(Left(o, d), r, rec, ans \cup Ran(d)) /\ Faithful(Left(o, d), r)
         /\ Owned(Left(o, d), r) \subseteq Owned(o, d)
<1> DEFINE w == Left(o, d)
<1>1. /\ r \in Drains /\ r.at # "turn" /\ r.kind = "none" /\ r.summary = {}
      /\ Plan(r) = <<>>
  BY RestingIs
<1>2. /\ w \in Objects /\ IsInjective(w.items) /\ ToSet(w.items) \cap Dropped(w) = {}
      /\ ToSet(w.items) \cap (ans \cup Ran(d)) = {} /\ Content(w) \subseteq Content(o)
  BY LeftIs
<1> HIDE DEF w
<1>3. InOrder(w, r)
  BY <1>1, HoldsNothing DEF InOrder
<1>4. Owned(w, r) = Content(w)
  BY <1>1, HoldsNothing DEF Owned
<1>5. Sound(w, r, rec, ans \cup Ran(d))
  <2>1. Owned(w, r) \cup r.summary \subseteq rec
    BY <1>1, <1>2, <1>4, SoundIs
  <2>2. (ToSet(w.items) \cup ToSet(Plan(r))) \cap (ans \cup Ran(d)) = {}
    BY <1>1, <1>2, HoldsNothing
  <2>3. IsInjective(Plan(r))
    BY <1>1, HoldsNothing
  <2> QED BY <1>1, <1>2, <1>3, <2>1, <2>2, <2>3 DEF Sound
<1>6. Faithful(w, r)
  BY <1>1 DEF Faithful
<1> QED BY <1>2, <1>4, <1>5, <1>6, SoundIs DEF w

(***************************************************************************)
(* The turn of the next group follows.                                     *)
(***************************************************************************)
LEMMA FollowingIs ==
  ASSUME NEW d \in Drains
  PROVE  /\ Following(d) \in Drains /\ Following(d).at = d.at
         /\ Following(d).kind = d.kind /\ Following(d).summary = {}
         /\ Plan(Following(d)) = IF d.kind = "items" THEN d.later ELSE <<>>
<1> DEFINE g == GroupSize(d.later)
           f == Following(d)
<1>1. d.later \in Seq(Messages) /\ g \in 0 .. Len(d.later) /\ Len(d.later) \in Nat /\ g \in Nat
  BY GroupWithin, Holds DEF Drains
<1>2. /\ FirstOf(d.later, g) \in Seq(Messages) /\ After(d.later, g) \in Seq(Messages)
      /\ FirstOf(d.later, g) \o After(d.later, g) = d.later
  BY <1>1, FirstIs, AfterIs, FirstAndAfter
<1> HIDE DEF g
<1>3. f = [d EXCEPT !.batch = FirstOf(d.later, g), !.later = After(d.later, g), !.summary = {}]
  BY DEF Following, g
<1> HIDE DEF f
<1>4. /\ f \in Drains /\ f.at = d.at /\ f.kind = d.kind /\ f.summary = {}
      /\ f.batch = FirstOf(d.later, g) /\ f.later = After(d.later, g)
  BY <1>2, <1>3 DEF Drains
<1>5. Plan(f) = IF d.kind = "items" THEN d.later ELSE <<>>
  BY <1>2, <1>4 DEF Plan
<1> QED BY <1>4, <1>5 DEF f

LEMMA TurnDoneFollows ==
  ASSUME NEW o, NEW d, NEW rec, NEW ans, Sound(o, d, rec, ans), d.at = "turn", d.later # <<>>
  PROVE  /\ Sound(Left(o, d), Following(d), rec, ans \cup Ran(d))
         /\ Owned(Left(o, d), Following(d)) \subseteq Owned(o, d)
         /\ Faithful(o, d) => Faithful(Left(o, d), Following(d))
<1> DEFINE w == Left(o, d)
           f == Following(d)
           n == Len(d.batch)
           ans2 == ans \cup Ran(d)
<1>1. /\ o \in Objects /\ d \in Drains /\ o.items \in Seq(Messages)
      /\ d.kind # "none" /\ d.kind # "summaryOnly"
      /\ ToSet(Plan(d)) \cap ans = {} /\ IsInjective(Plan(d))
      /\ ToSet(Plan(d)) \subseteq rec
      /\ Owned(o, d) = Content(o) \cup ToSet(Plan(d)) /\ Content(o) \subseteq rec
  BY SoundIs DEF Sound
<1>2. /\ d.batch \in Seq(Messages) /\ n \in Nat /\ Len(o.items) \in Nat
      /\ d.later \in Seq(Messages) /\ Len(d.later) \in Nat
  BY <1>1, Holds DEF Drains
<1>3. /\ w \in Objects /\ IsInjective(w.items) /\ ToSet(w.items) \cap Dropped(w) = {}
      /\ ToSet(w.items) \cap ans2 = {} /\ Content(w) \subseteq Content(o)
      /\ w.items \in Seq(Messages) /\ w.items = After(o.items, n)
  BY LeftIs
<1>4. /\ Len(w.items) = IF n <= Len(o.items) THEN Len(o.items) - n ELSE 0
      /\ \A i \in 1 .. Len(w.items) :
           n + i \in 1 .. Len(o.items) /\ w.items[i] = o.items[n + i]
  <2>1. /\ Len(After(o.items, n)) = IF n <= Len(o.items) THEN Len(o.items) - n ELSE 0
        /\ \A i \in 1 .. Len(After(o.items, n)) :
             n + i \in 1 .. Len(o.items) /\ After(o.items, n)[i] = o.items[n + i]
    BY <1>1, <1>2, AfterIs
  <2> HIDE DEF w, n
  <2> QED BY <1>3, <2>1
<1>5. /\ f \in Drains /\ f.at = "turn" /\ f.kind = d.kind /\ f.summary = {}
      /\ Plan(f) = IF d.kind = "items" THEN d.later ELSE <<>>
  BY <1>1, FollowingIs
<1>6. Len(w.items) \in Nat
  BY <1>3, Holds
<1> HIDE DEF w, f
<1>7. CASE d.kind # "items"
  <2>1. Plan(f) = <<>> /\ Plan(d) = <<>>
    BY <1>5, <1>7 DEF Plan
  <2>2. InOrder(w, f) /\ IsInjective(Plan(f)) /\ ToSet(Plan(f)) = {}
    BY <2>1, HoldsNothing DEF InOrder
  <2>3. Owned(w, f) \subseteq Content(o)
    BY <1>3, <2>2 DEF Owned
  <2>4. Owned(w, f) \cup f.summary \subseteq rec /\ Owned(w, f) \subseteq Owned(o, d)
    BY <1>1, <1>5, <2>3
  <2>5. (ToSet(w.items) \cup ToSet(Plan(f))) \cap ans2 = {}
    BY <1>3, <2>2
  <2>6. Sound(w, f, rec, ans2)
    BY <1>1, <1>3, <1>5, <2>2, <2>4, <2>5 DEF Sound
  <2>7. Faithful(w, f)
    BY <1>5, <1>6, <2>1, HoldsNothing DEF Faithful
  <2> QED BY <2>4, <2>6, <2>7 DEF w, f
<1>8. CASE d.kind = "items"
  <2>1. Plan(f) = d.later /\ Ran(d) = ToSet(d.batch)
    BY <1>5, <1>8 DEF Ran
  <2>2. /\ Len(Plan(d)) = n + Len(d.later)
        /\ \A j \in 1 .. n : Plan(d)[j] = d.batch[j]
        /\ \A j \in 1 .. Len(d.later) : Plan(d)[n + j] = d.later[j]
        /\ ToSet(Plan(d)) = ToSet(d.batch) \cup ToSet(d.later)
        /\ Plan(d) \in Seq(Messages) /\ Len(Plan(d)) \in Nat
    BY <1>1, <1>8, PlanIs, Holds
  <2> HIDE DEF n
  <2>3. \A j \in 1 .. Len(d.later) : n + j \in 1 .. Len(Plan(d)) /\ Plan(d)[n + j] = d.later[j]
    BY <1>2, <2>2
  <2>4. \A j \in 1 .. n : j \in 1 .. Len(Plan(d)) /\ Plan(d)[j] = d.batch[j]
    BY <1>2, <2>2
  <2>5. \A i, j \in 1 .. Len(Plan(d)) : Plan(d)[i] = Plan(d)[j] => i = j
    BY <1>1, <2>2, Holds
  <2>6. IsInjective(d.later)
    <3> SUFFICES ASSUME NEW i \in 1 .. Len(d.later), NEW j \in 1 .. Len(d.later),
                        d.later[i] = d.later[j]
                 PROVE  i = j
      BY <1>2, Holds
    <3>1. n + i = n + j
      BY <2>3, <2>5
    <3> QED BY <1>2, <3>1
  <2>7. ToSet(d.batch) \cap ToSet(d.later) = {}
    <3> SUFFICES ASSUME NEW i \in 1 .. n, NEW j \in 1 .. Len(d.later), d.batch[i] = d.later[j]
                 PROVE  FALSE
      BY <1>2, Holds DEF n
    <3>1. i = n + j
      BY <2>3, <2>4, <2>5
    <3> QED BY <1>2, <3>1
  <2>8. InOrder(w, f)
    <3> SUFFICES ASSUME NEW i \in 1 .. Len(w.items), NEW j \in 1 .. Len(d.later),
                        w.items[i] = d.later[j]
                 PROVE  i <= j
      BY <2>1 DEF InOrder
    <3>1. o.items[n + i] = Plan(d)[n + j] /\ n + i \in 1 .. Len(o.items)
          /\ n + j \in 1 .. Len(Plan(d))
      BY <1>4, <2>3
    <3>2. n + i <= n + j
      BY <3>1 DEF Sound, InOrder
    <3> QED BY <1>2, <1>6, <3>2
  <2>9. Owned(w, f) \subseteq Owned(o, d) /\ Owned(w, f) \cup f.summary \subseteq rec
    <3>1. Owned(w, f) \subseteq Owned(o, d)
      BY <1>1, <1>3, <2>1, <2>2 DEF Owned
    <3> QED BY <1>1, <1>5, <3>1
  <2>10. (ToSet(w.items) \cup ToSet(Plan(f))) \cap ans2 = {}
    BY <1>1, <1>3, <2>1, <2>2, <2>7
  <2>11. Sound(w, f, rec, ans2)
    BY <1>1, <1>3, <1>5, <2>1, <2>6, <2>8, <2>9, <2>10 DEF Sound
  <2>12. ASSUME Faithful(o, d)
         PROVE  Faithful(w, f)
    <3>1. Len(Plan(d)) <= Len(o.items) /\ \A j \in 1 .. Len(Plan(d)) : Plan(d)[j] = o.items[j]
      BY <2>12 DEF Faithful
    <3>2. Len(d.later) <= Len(w.items)
      BY <1>2, <1>4, <2>2, <3>1
    <3>3. ASSUME NEW j \in 1 .. Len(d.later)
          PROVE  d.later[j] = w.items[j]
      <4>1. j \in 1 .. Len(w.items)
        BY <1>2, <1>6, <3>2
      <4> QED BY <1>4, <2>3, <3>1, <4>1
    <3> QED BY <1>5, <2>1, <3>2, <3>3 DEF Faithful
  <2> QED BY <2>9, <2>11, <2>12 DEF w, f
<1> QED BY <1>7, <1>8

(***************************************************************************)
(* A faithful turn that is not that of a summary outside collect mode      *)
(* takes from the queue nothing but what it ran and reported.              *)
(***************************************************************************)
LEMMA NothingElseTaken ==
  ASSUME NEW o, NEW d, NEW rec, NEW ans, Sound(o, d, rec, ans), d.at = "turn",
         Faithful(o, d), d.kind # "summaryTurn"
  PROVE  Content(o) \subseteq Content(Left(o, d)) \cup Ran(d) \cup d.summary
<1> DEFINE n == Len(d.batch)
           w == Left(o, d)
<1>1. /\ o \in Objects /\ d \in Drains /\ o.items \in Seq(Messages)
      /\ d.kind \in {"items", "summaryOnly"}
      /\ d.kind = "summaryOnly" => d.batch = <<>>
      /\ Content(o) = ToSet(o.items) \cup Dropped(o)
  BY SoundIs DEF Sound, Drains
<1>2. /\ d.batch \in Seq(Messages) /\ n \in Nat /\ Len(o.items) \in Nat
      /\ d.later \in Seq(Messages) /\ Len(d.later) \in Nat
  BY <1>1, Holds DEF Drains
<1>3. /\ w.items = After(o.items, n)
      /\ Dropped(w) = IF d.summary # {} THEN {} ELSE Dropped(o)
  BY LeftIs
<1>4. \A j \in 1 .. Len(o.items) : j > n => o.items[j] \in ToSet(w.items)
  BY <1>1, <1>2, <1>3, AfterHolds
<1>5. ASSUME NEW j \in 1 .. Len(o.items), j <= n
      PROVE  o.items[j] \in Ran(d)
  <2>1. d.kind = "items"
    BY <1>1, <1>5, HoldsNothing
  <2>2. j \in 1 .. n /\ j \in 1 .. Len(Plan(d)) /\ Plan(d)[j] = d.batch[j]
    <3>1. /\ Len(Plan(d)) = n + Len(d.later) /\ \A i \in 1 .. n : Plan(d)[i] = d.batch[i]
          /\ Len(Plan(d)) \in Nat
      BY <1>1, <2>1, PlanIs, Holds
    <3> HIDE DEF n
    <3> QED BY <1>2, <1>5, <3>1
  <2>3. o.items[j] = d.batch[j]
    BY <2>2 DEF Faithful
  <2> QED BY <1>2, <2>1, <2>2, <2>3, Holds DEF Ran
<1>6. Dropped(o) \subseteq Dropped(w) \cup d.summary
  BY <1>3 DEF Faithful
<1> HIDE DEF w
<1>7. ToSet(o.items) \subseteq ToSet(w.items) \cup Ran(d)
  <2> SUFFICES ASSUME NEW j \in 1 .. Len(o.items)
               PROVE  o.items[j] \in ToSet(w.items) \cup Ran(d)
    <3>1. \A m \in ToSet(o.items) : \E i \in 1 .. Len(o.items) : o.items[i] = m
      BY <1>1, Holds
    <3> QED BY <3>1
  <2>1. j > n \/ j <= n
    BY <1>2
  <2> QED BY <1>4, <1>5, <2>1
<1> QED BY <1>1, <1>6, <1>7 DEF w, Content
-----------------------------------------------------------------------------
(***************************************************************************)
(* What scheduling a drain changes: a resting drain of the entry waits, or *)
(* the entry goes if its queue has nothing. Either way the entry still     *)
(* holds what it held.                                                     *)
(***************************************************************************)
LEMMA WorkIsContent ==
  ASSUME NEW o \in Objects
  PROVE  HasWork(o) <=> Content(o) # {}
<1>1. o.items \in Seq(Messages) /\ o.summaryLines \in Seq(Messages)
  BY DEF Objects
<1>2. ASSUME NEW s \in Seq(Messages)
      PROVE  s = <<>> <=> ToSet(s) = {}
  <2>1. s # <<>> => 1 \in 1 .. Len(s)
    BY Holds
  <2> QED BY <2>1, Holds, HoldsNothing
<1> QED BY <1>1, <1>2 DEF HasWork, Content, Dropped

LEMMA EntryKept ==
  ASSUME NEW Q \in [QueueIds -> Objects], NEW D, NEW e \in {NoEntry} \cup QueueIds,
         NEW e2 \in {e, NoEntry}, NEW D2,
         \A r \in QueueIds \ {e} : D2[r] = D[r],
         e # NoEntry /\ e2 # e => ~HasWork(Q[e]) /\ D2[e].at = "idle"
  PROVE  \A W : Together(Q, D, e, W) => Together(Q, D2, e2, W)
<1> SUFFICES ASSUME NEW W, Together(Q, D, e, W)  PROVE Together(Q, D2, e2, W)
  OBVIOUS
<1>1. CASE e2 = e
  BY <1>1 DEF Together
<1>2. CASE e2 # e
  <2>1. e \in QueueIds /\ e2 = NoEntry /\ Content(Q[e]) = {} /\ D2[e].at = "idle"
    BY <1>2, WorkIsContent
  <2>2. W = {}
    BY <2>1 DEF Together
  <2>3. \A q \in QueueIds : D2[q].at = "idle"
    BY <2>1 DEF Together
  <2> QED BY <2>2, <2>3 DEF Together
<1> QED BY <1>1, <1>2

LEMMA ScheduleIs ==
  ASSUME NEW Q \in [QueueIds -> Objects], NEW D \in [QueueIds -> Drains],
         NEW e \in {NoEntry} \cup QueueIds, ScheduleFollowupDrain(Q, D, e)
  PROVE  /\ drain' \in [QueueIds -> Drains] /\ entry' \in {e, NoEntry}
         /\ \A r \in QueueIds : drain'[r] = D[r] \/ drain'[r] \in Resting
         /\ \A r \in QueueIds \ {e} : drain'[r] = D[r]
         /\ \A W : Together(Q, D, e, W) => Together(Q, drain', entry', W)
<1>1. CASE drain' = D /\ entry' = e
  BY <1>1
<1>2. CASE /\ e \in QueueIds /\ HasWork(Q[e])
           /\ drain' = [D EXCEPT ![e] = Debouncing(FALSE)] /\ entry' = e
  <2>1. Debouncing(FALSE) \in Drains /\ Debouncing(FALSE) \in Resting
    BY RestingIs DEF Resting
  <2>2. /\ drain' \in [QueueIds -> Drains]
        /\ drain'[e] \in Resting /\ \A r \in QueueIds \ {e} : drain'[r] = D[r]
    BY <1>2, <2>1
  <2> QED BY <1>2, <2>2, EntryKept
<1>3. CASE /\ e \in QueueIds /\ ~HasWork(Q[e]) /\ D[e].at = "idle"
           /\ drain' = D /\ entry' = NoEntry
  BY <1>3, EntryKept
<1> QED BY <1>1, <1>2, <1>3 DEF ScheduleFollowupDrain

(***************************************************************************)
(* The end of q's drain, and the way back to the head of its loop.         *)
(***************************************************************************)
Stops(q, Q) ==
  /\ drain' \in [QueueIds -> Drains] /\ entry' \in {entry, NoEntry}
  /\ drain'[q] \in Resting
  /\ \A r \in QueueIds \ {q} : drain'[r] = drain[r] \/ drain'[r] \in Resting
  /\ \A r \in QueueIds \ {q, entry} : drain'[r] = drain[r]
  /\ \A W : Together(Q, drain, entry, W) => Together(Q, drain', entry', W)

LEMMA EndDrainIs ==
  ASSUME NEW q \in QueueIds, NEW Q \in [QueueIds -> Objects],
         drain \in [QueueIds -> Drains], entry \in {NoEntry} \cup QueueIds,
         drain[q].at # "idle", EndDrain(q, Q)
  PROVE  Stops(q, Q)
<1> DEFINE D == [drain EXCEPT ![q] = Idle]
<1>1. Idle \in Drains /\ Idle \in Resting /\ Idle.at = "idle"
  BY RestingIs DEF Resting
<1>2. /\ D \in [QueueIds -> Drains] /\ D[q] = Idle
      /\ \A r \in QueueIds \ {q} : D[r] = drain[r]
  BY <1>1
<1>3. \A W : Together(Q, drain, entry, W) => Together(Q, D, entry, W)
  BY <1>1, <1>2 DEF Together
<1> HIDE DEF D
<1>4. CASE HasWork(Q[q])
  <2>1. ScheduleFollowupDrain(Q, D, entry)
    BY <1>4 DEF EndDrain, D
  <2>2. /\ drain' \in [QueueIds -> Drains] /\ entry' \in {entry, NoEntry}
        /\ \A r \in QueueIds : drain'[r] = D[r] \/ drain'[r] \in Resting
        /\ \A r \in QueueIds \ {entry} : drain'[r] = D[r]
        /\ \A W : Together(Q, D, entry, W) => Together(Q, drain', entry', W)
    BY <1>2, <2>1, ScheduleIs
  <2> QED BY <1>1, <1>2, <1>3, <2>2 DEF Stops
<1>5. CASE ~HasWork(Q[q])
  <2>1. drain' = D /\ entry' = NoEntry
    BY <1>5 DEF EndDrain, D
  <2>2. ASSUME NEW W, Together(Q, drain, entry, W)
        PROVE  Together(Q, drain', entry', W)
    <3>1. q = entry
      BY <2>2 DEF Together
    <3>2. Content(Q[q]) = {}
      BY <1>5, WorkIsContent
    <3>3. W = {}
      BY <2>2, <3>1, <3>2 DEF Together
    <3>4. \A r \in QueueIds : D[r].at = "idle"
      BY <1>1, <1>2, <2>2, <3>1 DEF Together
    <3> QED BY <2>1, <3>3, <3>4 DEF Together
  <2> QED BY <1>1, <1>2, <2>1, <2>2 DEF Stops
<1> QED BY <1>4, <1>5

LEMMA LoopAgainIs ==
  ASSUME NEW q \in QueueIds, NEW Q \in [QueueIds -> Objects], NEW f \in BOOLEAN,
         drain \in [QueueIds -> Drains], entry \in {NoEntry} \cup QueueIds,
         drain[q].at # "idle", LoopAgain(q, Q, f)
  PROVE  Stops(q, Q)
<1>1. CASE HasWork(Q[q])
  <2>1. drain' = [drain EXCEPT ![q] = Debouncing(f)] /\ entry' = entry
    BY <1>1 DEF LoopAgain
  <2>2. Debouncing(f) \in Drains /\ Debouncing(f) \in Resting
    <3>1. Debouncing(f) \in Resting
      BY DEF Resting
    <3> QED BY <3>1, RestingIs
  <2>3. /\ drain' \in [QueueIds -> Drains] /\ drain'[q] = Debouncing(f)
        /\ \A r \in QueueIds \ {q} : drain'[r] = drain[r]
    BY <2>1, <2>2
  <2>4. \A W : Together(Q, drain, entry, W) => Together(Q, drain', entry', W)
    BY <2>1, <2>3 DEF Together
  <2> QED BY <2>1, <2>2, <2>3, <2>4 DEF Stops
<1>2. CASE ~HasWork(Q[q])
  BY <1>2, EndDrainIs DEF LoopAgain
<1> QED BY <1>1, <1>2
-----------------------------------------------------------------------------
(***************************************************************************)
(* The parts of the invariant.                                             *)
(***************************************************************************)
Scalars ==
  /\ entry \in {NoEntry} \cup 1 .. created
  /\ created \in 0 .. MaxQueues
  /\ runActive \in BOOLEAN
  /\ turnFailures \in 0 .. MaxTurnFailures
  /\ answered \cup accounted \cup givenUp \subseteq recentIds
  /\ causes \subseteq {"dropInTurn", "clearInDrain", "summaryTurn"}

LEMMA PartsOfInv ==
  ASSUME FollowupInv
  PROVE  /\ Scalars
         /\ queues \in [QueueIds -> Objects] /\ drain \in [QueueIds -> Drains]
         /\ entry \in {NoEntry} \cup QueueIds
         /\ \A q \in QueueIds : Sound(queues[q], drain[q], recentIds, answered)
         /\ \A q \in QueueIds : Own(q) \subseteq recentIds
         /\ \A q \in QueueIds : drain[q].at # "idle" => q <= created
         /\ entry # NoEntry => entry <= created
<1>1. Scalars /\ queues \in [QueueIds -> Objects] /\ drain \in [QueueIds -> Drains]
  BY DEF FollowupInv, FollowupTypeOK, Scalars
<1>2. entry \in {NoEntry} \cup QueueIds /\ (entry # NoEntry => entry <= created)
  BY <1>1 DEF Scalars, QueueIds
<1>3. \A q \in QueueIds : Sound(queues[q], drain[q], recentIds, answered)
  BY DEF FollowupInv
<1>4. \A q \in QueueIds : Own(q) \subseteq recentIds
  BY <1>3 DEF Own, Sound
<1>5. \A q \in QueueIds : drain[q].at # "idle" => q <= created
  BY <1>1, RestingIs DEF FollowupInv, Resting, QueueIds, Scalars
<1> QED BY <1>1, <1>2, <1>3, <1>4, <1>5

(***************************************************************************)
(* A step gives nothing that was accepted before to a queue object: what   *)
(* an object has afterwards it had before, or it is new (N), and then it   *)
(* belongs to q alone.                                                     *)
(***************************************************************************)
LEMMA InvFrom ==
  ASSUME FollowupInv, NEW N, N \cap recentIds = {}, NEW q,
         Scalars', queues' \in [QueueIds -> Objects], drain' \in [QueueIds -> Drains],
         \A r \in QueueIds : Sound(queues'[r], drain'[r], recentIds', answered'),
         \A r \in QueueIds \ {q} : Owned(queues'[r], drain'[r]) \subseteq Own(r),
         q \in QueueIds => Owned(queues'[q], drain'[q]) \subseteq Own(q) \cup N,
         \A r \in QueueIds : r > created' => ~HasWork(queues'[r]) /\ drain'[r] = Idle,
         causes' = {} => /\ Together(queues', drain', entry', Open')
                         /\ \A r \in QueueIds : Faithful(queues'[r], drain'[r])
  PROVE  FollowupInv'
<1>1. FollowupTypeOK'
  <2>1. \A r \in QueueIds : /\ IsInjective(queues'[r].items)
                            /\ ToSet(queues'[r].items) \cap Dropped(queues'[r]) = {}
                            /\ drain'[r].at = "turn" <=> drain'[r].kind # "none"
    BY DEF Sound
  <2> QED BY <2>1 DEF FollowupTypeOK, Scalars
<1>2. ASSUME NEW r \in QueueIds, NEW s \in QueueIds, r # s
      PROVE  Own(r)' \cap Own(s)' = {}
  <2>1. Own(r) \cap Own(s) = {} /\ Own(r) \subseteq recentIds /\ Own(s) \subseteq recentIds
    BY <1>2, PartsOfInv DEF FollowupInv
  <2>2. Own(r)' = Owned(queues'[r], drain'[r]) /\ Own(s)' = Owned(queues'[s], drain'[s])
    BY DEF Own
  <2>3. CASE r = q
    BY <1>2, <2>1, <2>2, <2>3
  <2>4. CASE s = q
    BY <1>2, <2>1, <2>2, <2>4
  <2>5. CASE r # q /\ s # q
    BY <2>1, <2>2, <2>5
  <2> QED BY <2>3, <2>4, <2>5
<1> QED BY <1>1, <1>2 DEF FollowupInv

(***************************************************************************)
(* At first every object is new.                                           *)
(***************************************************************************)
LEMMA NewQueueIs ==
  ASSUME NEW rec, NEW ans
  PROVE  /\ NewQueue \in Objects /\ Idle \in Drains /\ Idle.at = "idle"
         /\ Sound(NewQueue, Idle, rec, ans) /\ Faithful(NewQueue, Idle)
         /\ Owned(NewQueue, Idle) = {} /\ Content(NewQueue) = {} /\ ~HasWork(NewQueue)
<1>1. /\ Idle \in Drains /\ Idle.at = "idle" /\ Idle.kind = "none" /\ Idle.summary = {}
      /\ Plan(Idle) = <<>>
  BY RestingIs DEF Resting
<1>2. /\ NewQueue \in Objects /\ NewQueue.items = <<>> /\ NewQueue.summaryLines = <<>>
      /\ Dropped(NewQueue) = {}
  <2>1. NewQueue \in Objects /\ NewQueue.items = <<>> /\ NewQueue.summaryLines = <<>>
    BY HoldsNothing DEF NewQueue, Objects
  <2> QED BY <2>1, HoldsNothing DEF Dropped
<1>3. /\ Owned(NewQueue, Idle) = {} /\ Content(NewQueue) = {} /\ InOrder(NewQueue, Idle)
      /\ ~HasWork(NewQueue)
  BY <1>1, <1>2, HoldsNothing DEF Owned, Content, InOrder, HasWork
<1>4. Faithful(NewQueue, Idle)
  BY <1>1 DEF Faithful
<1> QED BY <1>1, <1>2, <1>3, <1>4, HoldsNothing DEF Sound

LEMMA FollowupStarts == FollowupInit => FollowupInv
<1> SUFFICES ASSUME FollowupInit  PROVE FollowupInv
  OBVIOUS
<1>1. \A q \in QueueIds : queues[q] = NewQueue /\ drain[q] = Idle
  BY DEF FollowupInit
<1>2. queues \in [QueueIds -> Objects] /\ drain \in [QueueIds -> Drains]
  BY NewQueueIs DEF FollowupInit
<1>3. \A q \in QueueIds : Sound(queues[q], drain[q], recentIds, answered) /\ Own(q) = {}
  BY <1>1, NewQueueIs DEF Own
<1>4. Scalars /\ Open = {}
  <2>1. entry \in {NoEntry} \cup 1 .. created /\ created \in 0 .. MaxQueues
    BY DEF FollowupInit
  <2>2. turnFailures \in 0 .. MaxTurnFailures
    BY DEF FollowupInit
  <2>3. /\ runActive \in BOOLEAN
        /\ answered \cup accounted \cup givenUp \subseteq recentIds /\ Open = {}
        /\ causes \subseteq {"dropInTurn", "clearInDrain", "summaryTurn"}
    BY Zenon DEF FollowupInit, Open
  <2> QED BY <2>1, <2>2, <2>3 DEF Scalars
<1>5. FollowupTypeOK
  BY <1>2, <1>3, <1>4 DEF Sound, FollowupTypeOK, Scalars
<1>6. Together(queues, drain, entry, Open)
  BY <1>1, <1>4, NewQueueIs DEF Together
<1>7. \A q \in QueueIds : Faithful(queues[q], drain[q]) /\ ~HasWork(queues[q])
  BY <1>1, NewQueueIs
<1> QED BY <1>1, <1>3, <1>5, <1>6, <1>7 DEF FollowupInv
-----------------------------------------------------------------------------
(***************************************************************************)
(* One lemma for each action.                                              *)
(***************************************************************************)
LEMMA EnqueueKeeps ==
  ASSUME FollowupInv, NEW m \in Messages, NEW s \in QueueSettings, EnqueueFollowupRun(m, s)
  PROVE  FollowupInv'
<1> DEFINE fresh == entry = NoEntry
           q     == IF fresh THEN created + 1 ELSE entry
           old0  == IF fresh THEN NewQueue ELSE queues[q]
           old   == WithSettings(old0, s)
           full  == Overflow(old) > 0
           Q(o)  == [queues EXCEPT ![q] = o]
           Leave(o) == /\ queues' = Q(o)
                       /\ IF Active THEN entry' = q /\ UNCHANGED drain
                                    ELSE ScheduleFollowupDrain(Q(o), drain, q)
<1>1. /\ fresh => created < MaxQueues
      /\ created' = IF fresh THEN created + 1 ELSE created
      /\ IF m \in recentIds \/ (full /\ old.dropPolicy = "new")
         THEN /\ Leave(old)
              /\ UNCHANGED <<recentIds, accounted, givenUp, causes>>
         ELSE /\ Leave(WithItem(old, m))
              /\ recentIds' = recentIds \cup {m}
              /\ accounted' = IF old.dropPolicy = "old"
                              THEN accounted \cup ToSet(FirstOf(old.items, Overflow(old)))
                              ELSE accounted
              /\ givenUp' = givenUp \cup Trimmed(old)
              /\ causes' = IF full /\ drain[q].at = "turn"
                           THEN causes \cup {"dropInTurn"} ELSE causes
      /\ UNCHANGED <<runActive, turnFailures, answered>>
  BY DEF EnqueueFollowupRun
<1>2. /\ Scalars /\ queues \in [QueueIds -> Objects] /\ drain \in [QueueIds -> Drains]
      /\ \A r \in QueueIds : Sound(queues[r], drain[r], recentIds, answered)
      /\ \A r \in QueueIds : Own(r) \subseteq recentIds
  BY PartsOfInv
<1>3. /\ q \in QueueIds /\ q <= created' /\ created <= created' /\ created' \in 0 .. MaxQueues
      /\ fresh => q > created
  BY <1>1, <1>2 DEF Scalars, QueueIds
<1>4. /\ Sound(old0, drain[q], recentIds, answered)
      /\ Owned(old0, drain[q]) \subseteq Own(q)
      /\ Faithful(queues[q], drain[q]) => Faithful(old0, drain[q])
      /\ entry # NoEntry => q = entry /\ Content(old0) = Content(queues[q])
  <2>1. CASE fresh
    <3>1. drain[q] = Idle
      BY <1>3, <2>1 DEF FollowupInv
    <3> QED BY <2>1, <3>1, NewQueueIs
  <2>2. CASE ~fresh
    BY <1>2, <1>3, <2>2 DEF Own
  <2> QED BY <2>1, <2>2
<1>5. /\ Sound(old, drain[q], recentIds, answered)
      /\ Owned(old, drain[q]) \subseteq Own(q)
      /\ Faithful(queues[q], drain[q]) => Faithful(old, drain[q])
      /\ entry # NoEntry => q = entry /\ Content(old) = Content(queues[q])
  BY <1>4, SettingsKeep
<1> HIDE DEF q, old0, old, Q, Leave, fresh
(***************************************************************************)
(* Whatever object is left in the map, with a drain scheduled or not.      *)
(***************************************************************************)
<1>6. ASSUME NEW o \in Objects, Leave(o)
      PROVE  /\ queues' \in [QueueIds -> Objects] /\ queues'[q] = o
             /\ \A r \in QueueIds \ {q} : queues'[r] = queues[r]
             /\ drain' \in [QueueIds -> Drains] /\ entry' \in {q, NoEntry}
             /\ drain'[q] = drain[q] \/ drain'[q] \in Resting
             /\ \A r \in QueueIds \ {q} : drain'[r] = drain[r]
             /\ \A W : Together(queues', drain, q, W) => Together(queues', drain', entry', W)
  <2>1. /\ queues' \in [QueueIds -> Objects] /\ queues'[q] = o
        /\ \A r \in QueueIds \ {q} : queues'[r] = queues[r]
    BY <1>2, <1>3, <1>6 DEF Leave, Q
  <2>2. CASE entry' = q /\ UNCHANGED drain
    BY <1>2, <2>1, <2>2
  <2>3. CASE ScheduleFollowupDrain(queues', drain, q)
    <3>1. q \in {NoEntry} \cup QueueIds
      BY <1>3
    <3>2. /\ drain' \in [QueueIds -> Drains] /\ entry' \in {q, NoEntry}
          /\ \A r \in QueueIds : drain'[r] = drain[r] \/ drain'[r] \in Resting
          /\ \A r \in QueueIds \ {q} : drain'[r] = drain[r]
          /\ \A W : Together(queues', drain, q, W) => Together(queues', drain', entry', W)
      BY <1>2, <2>1, <2>3, <3>1, ScheduleIs, Zenon
    <3> QED BY <1>3, <2>1, <3>2
  <2> QED BY <1>6, <2>2, <2>3 DEF Leave, Q
<1>7. ASSUME NEW o, Leave(o), NEW N, N \cap recentIds = {},
             Sound(o, drain[q], recentIds', answered),
             Owned(o, drain[q]) \subseteq Own(q) \cup N,
             recentIds \subseteq recentIds', accounted' \cup givenUp' \subseteq recentIds',
             causes' \subseteq {"dropInTurn", "clearInDrain", "summaryTurn"},
             causes' = {} => /\ causes = {}
                             /\ Faithful(queues[q], drain[q]) => Faithful(o, drain[q])
                             /\ Open' \subseteq Content(o) \cup (Open \ Content(old))
      PROVE  FollowupInv'
  <2>1. o \in Objects
    BY <1>7, SoundIs
  <2>2. /\ queues' \in [QueueIds -> Objects] /\ queues'[q] = o
        /\ \A r \in QueueIds \ {q} : queues'[r] = queues[r]
        /\ drain' \in [QueueIds -> Drains] /\ entry' \in {q, NoEntry}
        /\ drain'[q] = drain[q] \/ drain'[q] \in Resting
        /\ \A r \in QueueIds \ {q} : drain'[r] = drain[r]
        /\ \A W : Together(queues', drain, q, W) => Together(queues', drain', entry', W)
    BY <1>6, <1>7, <2>1
  <2>3. answered' = answered /\ runActive' = runActive /\ turnFailures' = turnFailures
    BY <1>1
  <2>4. /\ Sound(queues'[q], drain'[q], recentIds', answered')
        /\ Owned(queues'[q], drain'[q]) \subseteq Own(q) \cup N
        /\ Faithful(o, drain[q]) => Faithful(queues'[q], drain'[q])
    <3>1. CASE drain'[q] = drain[q]
      BY <1>7, <2>2, <2>3, <3>1
    <3>2. CASE drain'[q] \in Resting
      BY <1>7, <2>2, <2>3, <3>2, RestingKeeps
    <3> QED BY <2>2, <3>1, <3>2
  <2>5. ASSUME NEW r \in QueueIds \ {q}
        PROVE  /\ Sound(queues'[r], drain'[r], recentIds', answered')
               /\ Owned(queues'[r], drain'[r]) = Own(r)
    <3>1. Sound(queues[r], drain[r], recentIds', answered)
      BY <1>2, <1>7, MoreAccepted
    <3> QED BY <2>2, <2>3, <3>1 DEF Own
  <2>6. Scalars'
    <3>1. entry' \in {NoEntry} \cup 1 .. created' /\ created' \in 0 .. MaxQueues
      BY <1>2, <1>3, <2>2 DEF Scalars, QueueIds
    <3>2. answered' \cup accounted' \cup givenUp' \subseteq recentIds'
      BY <1>2, <1>7, <2>3 DEF Scalars
    <3>3. runActive' \in BOOLEAN /\ turnFailures' \in 0 .. MaxTurnFailures
      BY <1>2, <2>3 DEF Scalars
    <3> QED BY <1>7, <3>1, <3>2, <3>3 DEF Scalars
  <2>7. ASSUME NEW r \in QueueIds, r > created'
        PROVE  ~HasWork(queues'[r]) /\ drain'[r] = Idle
    <3>1. r # q /\ r > created
      BY <1>2, <1>3, <2>7 DEF Scalars, QueueIds
    <3> QED BY <2>2, <3>1 DEF FollowupInv
  <2>8. ASSUME causes' = {}
        PROVE  /\ Together(queues', drain', entry', Open')
               /\ \A r \in QueueIds : Faithful(queues'[r], drain'[r])
    <3>1. /\ Together(queues, drain, entry, Open)
          /\ \A r \in QueueIds : Faithful(queues[r], drain[r])
          /\ Open' \subseteq Content(o) \cup (Open \ Content(old))
      BY <1>7, <2>8 DEF FollowupInv
    <3>2. Faithful(queues'[q], drain'[q])
      BY <1>3, <1>7, <2>4, <2>8, <3>1
    <3>3. \A r \in QueueIds \ {q} : Faithful(queues'[r], drain'[r])
      BY <2>2, <3>1
    <3>4. \A r \in QueueIds : drain[r].at # "idle" => r = q
      BY <1>5, <3>1 DEF Together, QueueIds
    <3>5. Open' \subseteq Content(o)
      BY <1>5, <3>1 DEF Together
    <3>6. q # NoEntry
      BY <1>3 DEF QueueIds
    <3>7. Together(queues', drain, q, Open')
      BY <2>2, <3>4, <3>5, <3>6 DEF Together
    <3> QED BY <2>2, <3>2, <3>3, <3>7
  <2>9. /\ \A r \in QueueIds : Sound(queues'[r], drain'[r], recentIds', answered')
        /\ \A r \in QueueIds \ {q} : Owned(queues'[r], drain'[r]) \subseteq Own(r)
    BY <2>4, <2>5
  <2>10. /\ Owned(queues'[q], drain'[q]) \subseteq Own(q) \cup N /\ N \cap recentIds = {}
         /\ queues' \in [QueueIds -> Objects] /\ drain' \in [QueueIds -> Drains]
    BY <1>7, <2>2, <2>4
  <2> QED BY <2>6, <2>7, <2>8, <2>9, <2>10, InvFrom
<1>8. CASE /\ Leave(old) /\ UNCHANGED <<recentIds, accounted, givenUp, causes>>
  <2>1. Open' = Open
    BY <1>1, <1>8 DEF Open
  <2>2. /\ accounted' \cup givenUp' \subseteq recentIds'
        /\ causes' \subseteq {"dropInTurn", "clearInDrain", "summaryTurn"}
    BY <1>2, <1>8 DEF Scalars
  <2>3. /\ causes' = causes /\ recentIds \subseteq recentIds' /\ {} \cap recentIds = {}
        /\ Open' \subseteq Content(old) \cup (Open \ Content(old))
        /\ Sound(old, drain[q], recentIds', answered)
        /\ Owned(old, drain[q]) \subseteq Own(q) \cup {}
    BY <1>5, <1>8, <2>1
  <2> QED BY <1>5, <1>7, <1>8, <2>2, <2>3
<1>9. CASE /\ m \notin recentIds /\ ~(full /\ old.dropPolicy = "new")
           /\ Leave(WithItem(old, m))
           /\ recentIds' = recentIds \cup {m}
           /\ accounted' = IF old.dropPolicy = "old"
                           THEN accounted \cup ToSet(FirstOf(old.items, Overflow(old)))
                           ELSE accounted
           /\ givenUp' = givenUp \cup Trimmed(old)
           /\ causes' = IF full /\ drain[q].at = "turn"
                        THEN causes \cup {"dropInTurn"} ELSE causes
  <2> DEFINE w == WithItem(old, m)
             front == ToSet(FirstOf(old.items, Overflow(old)))
  <2>1. answered \subseteq recentIds /\ accounted \cup givenUp \subseteq recentIds
    BY <1>2 DEF Scalars
  <2>2. /\ Sound(w, drain[q], recentIds', answered)
        /\ Owned(w, drain[q]) \subseteq Owned(old, drain[q]) \cup {m}
        /\ Content(old) \cup {m} \subseteq
             Content(w) \cup (IF old.dropPolicy = "summarize" THEN Trimmed(old) ELSE front)
        /\ Faithful(old, drain[q]) /\ (drain[q].at = "turn" => Overflow(old) = 0)
             => Faithful(w, drain[q])
    BY <1>5, <1>9, <2>1, ItemAdded
  <2>3. /\ old \in Objects /\ old.items \in Seq(Messages)
        /\ old.dropPolicy \in {"summarize", "old", "new"}
        /\ ToSet(old.items) \subseteq recentIds /\ Trimmed(old) \subseteq recentIds
    <3>1. old \in Objects /\ Content(old) \subseteq recentIds
      BY <1>5, SoundIs
    <3>2. Trimmed(old) \subseteq Content(old)
      BY <3>1, SummarizedIs
    <3> QED BY <3>1, <3>2 DEF Objects, Content
  <2>4. Overflow(old) \in 0 .. Len(old.items) /\ Len(old.items) \in Nat
    BY <2>3, OverflowWithin, Holds
  <2>5. front \subseteq recentIds /\ (~full => front = {})
    <3>1. front \subseteq ToSet(old.items) /\ (Overflow(old) = 0 => FirstOf(old.items, Overflow(old)) = <<>>)
      BY <2>3, <2>4, FirstHolds
    <3> QED BY <2>3, <2>4, <3>1, HoldsNothing
  <2>6. old.dropPolicy # "summarize" => front \subseteq accounted'
    BY <1>9, <2>3, <2>5
  <2>7. /\ accounted' \cup givenUp' \subseteq recentIds'
        /\ accounted \subseteq accounted' /\ givenUp' = givenUp \cup Trimmed(old)
    BY <1>9, <2>1, <2>3, <2>5
  <2>8. causes' \subseteq {"dropInTurn", "clearInDrain", "summaryTurn"}
    BY <1>2, <1>9 DEF Scalars
  <2>9. ASSUME causes' = {}
        PROVE  /\ causes = {} /\ (drain[q].at = "turn" => Overflow(old) = 0)
    BY <1>9, <2>4, <2>9
  <2>10. Open' \subseteq Content(w) \cup (Open \ Content(old))
    <3>1. Open' = (recentIds \cup {m}) \ (answered \cup accounted' \cup givenUp')
      BY <1>1, <1>9 DEF Open
    <3> HIDE DEF w, front
    <3> QED BY <2>2, <2>6, <2>7, <3>1 DEF Open
  <2>11. {m} \cap recentIds = {} /\ recentIds \subseteq recentIds' /\ Leave(w)
    BY <1>9
  <2>12. Owned(w, drain[q]) \subseteq Own(q) \cup {m}
    BY <1>5, <2>2
  <2> HIDE DEF w
  <2> QED BY <1>5, <1>7, <2>2, <2>7, <2>8, <2>9, <2>10, <2>11, <2>12
<1> QED BY <1>1, <1>8, <1>9

(***************************************************************************)
(* A cleared object keeps its drain, with a plan that the queue does not   *)
(* have any more.                                                          *)
(***************************************************************************)
LEMMA ClearedIs ==
  ASSUME NEW o, NEW d, NEW rec, NEW ans, Sound(o, d, rec, ans), NEW w \in Objects,
         w.items = <<>>, w.summaryLines = <<>>
  PROVE  /\ Sound(w, d, rec, ans) /\ Owned(w, d) \subseteq Owned(o, d)
         /\ Content(w) = {} /\ (d.at = "idle" => Faithful(w, d))
<1>1. Content(w) = {} /\ ToSet(w.items) = {} /\ Dropped(w) = {}
  BY HoldsNothing DEF Content, Dropped
<1>2. Owned(w, d) = ToSet(Plan(d)) /\ Owned(w, d) \subseteq Owned(o, d)
  BY <1>1 DEF Owned
<1>3. InOrder(w, d)
  BY HoldsNothing DEF InOrder
<1>4. Sound(w, d, rec, ans)
  <2>1. Owned(w, d) \cup d.summary \subseteq rec
    BY <1>2 DEF Sound
  <2>2. (ToSet(w.items) \cup ToSet(Plan(d))) \cap ans = {}
    BY <1>1 DEF Sound
  <2>3. IsInjective(w.items) /\ ToSet(w.items) \cap Dropped(w) = {}
    BY HoldsNothing
  <2> QED BY <1>3, <2>1, <2>2, <2>3 DEF Sound
<1> QED BY <1>1, <1>2, <1>4 DEF Faithful

LEMMA ClearKeeps ==
  ASSUME FollowupInv, ClearFollowupQueue
  PROVE  FollowupInv'
<1>1. /\ entry \in QueueIds /\ entry # NoEntry
      /\ accounted' = accounted \cup ToSet(queues[entry].items) \cup Dropped(queues[entry])
      /\ queues' = [queues EXCEPT ![entry].items = <<>>, ![entry].summaryLines = <<>>]
      /\ causes' = IF drain[entry].at # "idle" THEN causes \cup {"clearInDrain"} ELSE causes
      /\ entry' = NoEntry
      /\ UNCHANGED <<created, drain, recentIds, runActive, turnFailures, answered, givenUp>>
  BY PartsOfInv DEF ClearFollowupQueue
<1>2. /\ Scalars /\ queues \in [QueueIds -> Objects] /\ drain \in [QueueIds -> Drains]
      /\ \A r \in QueueIds : Sound(queues[r], drain[r], recentIds, answered)
      /\ Own(entry) \subseteq recentIds /\ entry <= created
  BY <1>1, PartsOfInv
<1>3. /\ queues' \in [QueueIds -> Objects]
      /\ queues'[entry].items = <<>> /\ queues'[entry].summaryLines = <<>>
      /\ \A r \in QueueIds \ {entry} : queues'[r] = queues[r]
  <2> DEFINE c == [queues[entry] EXCEPT !.items = <<>>, !.summaryLines = <<>>]
  <2>1. queues' = [queues EXCEPT ![entry] = c]
    BY <1>1, <1>2
  <2>2. c \in Objects /\ c.items = <<>> /\ c.summaryLines = <<>>
    BY <1>1, <1>2, HoldsNothing DEF Objects
  <2> HIDE DEF c
  <2> QED BY <1>1, <1>2, <2>1, <2>2
<1>4. /\ Sound(queues'[entry], drain[entry], recentIds, answered)
      /\ Owned(queues'[entry], drain[entry]) \subseteq Own(entry)
      /\ drain[entry].at = "idle" => Faithful(queues'[entry], drain[entry])
  BY <1>1, <1>2, <1>3, ClearedIs DEF Own
<1>5. accounted' = accounted \cup Content(queues[entry]) /\ Content(queues[entry]) \subseteq recentIds
  BY <1>1, <1>2 DEF Content, Own, Owned
<1>6. Scalars'
  <2>1. entry' \in {NoEntry} \cup 1 .. created' /\ created' \in 0 .. MaxQueues
    BY <1>1, <1>2 DEF Scalars
  <2>2. answered' \cup accounted' \cup givenUp' \subseteq recentIds'
    BY <1>1, <1>2, <1>5 DEF Scalars
  <2>3. /\ runActive' \in BOOLEAN /\ turnFailures' \in 0 .. MaxTurnFailures
        /\ causes' \subseteq {"dropInTurn", "clearInDrain", "summaryTurn"}
    BY <1>1, <1>2 DEF Scalars
  <2> QED BY <2>1, <2>2, <2>3 DEF Scalars
<1>7. \A r \in QueueIds : Sound(queues'[r], drain'[r], recentIds', answered')
  BY <1>1, <1>2, <1>3, <1>4
<1>8. /\ \A r \in QueueIds \ {entry} : Owned(queues'[r], drain'[r]) \subseteq Own(r)
      /\ Owned(queues'[entry], drain'[entry]) \subseteq Own(entry) \cup {}
  BY <1>1, <1>3, <1>4 DEF Own
<1>9. ASSUME NEW r \in QueueIds, r > created'
      PROVE  ~HasWork(queues'[r]) /\ drain'[r] = Idle
  <2>1. r # entry
    BY <1>1, <1>2, <1>9 DEF Scalars, QueueIds
  <2> QED BY <1>1, <1>3, <1>9, <2>1 DEF FollowupInv
<1>10. ASSUME causes' = {}
       PROVE  /\ Together(queues', drain', entry', Open')
              /\ \A r \in QueueIds : Faithful(queues'[r], drain'[r])
  <2>1. causes = {} /\ drain[entry].at = "idle"
    BY <1>1, <1>10
  <2>2. Together(queues, drain, entry, Open) /\ \A r \in QueueIds : Faithful(queues[r], drain[r])
    BY <2>1 DEF FollowupInv
  <2>3. Open' = {}
    BY <1>1, <1>5, <2>2 DEF Open, Together
  <2>4. \A r \in QueueIds : drain[r].at = "idle"
    BY <2>1, <2>2 DEF Together
  <2>5. Together(queues', drain', entry', Open')
    BY <1>1, <2>3, <2>4 DEF Together
  <2> QED BY <1>1, <1>3, <1>4, <2>1, <2>2, <2>5
<1>11. {} \cap recentIds = {}
  OBVIOUS
<1> QED BY <1>1, <1>2, <1>3, <1>6, <1>7, <1>8, <1>9, <1>10, <1>11, InvFrom

(***************************************************************************)
(* A step in which no object of the map changes but what is given here:    *)
(* the objects stay, and drains change to turns that fit or stop.          *)
(***************************************************************************)
LEMMA DrainsMove ==
  ASSUME FollowupInv,
         UNCHANGED <<queues, created, recentIds, answered, accounted, givenUp, causes>>,
         entry' \in {entry, NoEntry}, runActive' \in BOOLEAN,
         turnFailures' \in 0 .. MaxTurnFailures,
         drain' \in [QueueIds -> Drains],
         \A r \in QueueIds :
           \/ drain'[r] = drain[r] \/ drain'[r] \in Resting
           \/ /\ Sound(queues[r], drain'[r], recentIds, answered)
              /\ Owned(queues[r], drain'[r]) \subseteq Own(r)
              /\ Faithful(queues[r], drain'[r]),
         \A r \in QueueIds : r > created => drain'[r] = drain[r],
         \A W : Together(queues, drain, entry, W) => Together(queues, drain', entry', W)
  PROVE  FollowupInv'
<1>1. /\ Scalars /\ queues \in [QueueIds -> Objects]
      /\ \A r \in QueueIds : Sound(queues[r], drain[r], recentIds, answered)
  BY PartsOfInv
<1>2. ASSUME NEW r \in QueueIds
      PROVE  /\ Sound(queues'[r], drain'[r], recentIds', answered')
             /\ Owned(queues'[r], drain'[r]) \subseteq Own(r)
             /\ Faithful(queues[r], drain[r]) => Faithful(queues'[r], drain'[r])
  <2>1. CASE drain'[r] = drain[r]
    BY <1>1, <2>1 DEF Own
  <2>2. CASE drain'[r] \in Resting
    BY <1>1, <2>2, RestingKeeps DEF Own
  <2>3. CASE /\ Sound(queues[r], drain'[r], recentIds, answered)
             /\ Owned(queues[r], drain'[r]) \subseteq Own(r)
             /\ Faithful(queues[r], drain'[r])
    BY <2>3
  <2> QED BY <2>1, <2>2, <2>3
<1>3. Scalars'
  BY <1>1 DEF Scalars
<1>4. \A r \in QueueIds : r > created' => ~HasWork(queues'[r]) /\ drain'[r] = Idle
  BY DEF FollowupInv
<1>5. ASSUME causes' = {}
      PROVE  /\ Together(queues', drain', entry', Open')
             /\ \A r \in QueueIds : Faithful(queues'[r], drain'[r])
  <2>1. Open' = Open
    BY DEF Open
  <2>2. Together(queues, drain, entry, Open) /\ \A r \in QueueIds : Faithful(queues[r], drain[r])
    BY <1>5 DEF FollowupInv
  <2> QED BY <1>2, <2>1, <2>2
<1>6. /\ \A r \in QueueIds \ {NoEntry} : Owned(queues'[r], drain'[r]) \subseteq Own(r)
      /\ NoEntry \notin QueueIds /\ {} \cap recentIds = {}
  BY <1>2 DEF QueueIds
<1>7. queues' \in [QueueIds -> Objects]
  BY <1>1
<1> QED BY <1>2, <1>3, <1>4, <1>5, <1>6, <1>7, InvFrom

LEMMA RunKeeps ==
  ASSUME FollowupInv, RunBegins \/ ActiveRunEnds
  PROVE  FollowupInv'
<1>1. /\ Scalars /\ queues \in [QueueIds -> Objects] /\ drain \in [QueueIds -> Drains]
      /\ entry \in {NoEntry} \cup QueueIds /\ (entry # NoEntry => entry <= created)
  BY PartsOfInv
<1>2. CASE RunBegins
  <2>1. UNCHANGED <<queues, entry, created, drain, recentIds, turnFailures, answered,
                    accounted, givenUp, causes>> /\ runActive' = TRUE
    BY <1>2 DEF RunBegins
  <2>2. runActive' \in BOOLEAN
    BY <2>1
  <2> QED BY <2>1, <2>2, Zenon
          DEF FollowupInv, FollowupTypeOK, Own, Open
<1>3. CASE ActiveRunEnds
  <2>1. /\ UNCHANGED <<queues, created, recentIds, turnFailures, answered, accounted,
                       givenUp, causes>>
        /\ runActive' = FALSE /\ ScheduleFollowupDrain(queues, drain, entry)
    BY <1>3 DEF ActiveRunEnds
  <2>2. /\ drain' \in [QueueIds -> Drains] /\ entry' \in {entry, NoEntry}
        /\ \A r \in QueueIds : drain'[r] = drain[r] \/ drain'[r] \in Resting
        /\ \A r \in QueueIds \ {entry} : drain'[r] = drain[r]
        /\ \A W : Together(queues, drain, entry, W) => Together(queues, drain', entry', W)
    BY <1>1, <2>1, ScheduleIs
  <2>3. \A r \in QueueIds : r > created => drain'[r] = drain[r]
    BY <1>1, <2>2 DEF Scalars, QueueIds
  <2>4. runActive' \in BOOLEAN /\ turnFailures' \in 0 .. MaxTurnFailures
    BY <1>1, <2>1 DEF Scalars
  <2> QED BY <2>1, <2>2, <2>3, <2>4, DrainsMove
<1> QED BY <1>2, <1>3

(***************************************************************************)
(* A drain whose object stays as it is: it starts a turn, goes round or    *)
(* stops.                                                                  *)
(***************************************************************************)
LEMMA StopsKeeps ==
  ASSUME FollowupInv, NEW q \in QueueIds, drain[q].at # "idle",
         UNCHANGED <<queues, created, recentIds, runActive, answered, accounted, givenUp, causes>>,
         turnFailures' \in 0 .. MaxTurnFailures, Stops(q, queues)
  PROVE  FollowupInv'
<1>1. Scalars /\ q <= created /\ (entry # NoEntry => entry <= created)
  BY PartsOfInv
<1>2. \A r \in QueueIds : r > created => drain'[r] = drain[r]
  BY <1>1 DEF Scalars, QueueIds, Stops
<1>3. runActive' \in BOOLEAN
  BY <1>1 DEF Scalars
<1>4. \A r \in QueueIds : drain'[r] = drain[r] \/ drain'[r] \in Resting
  BY DEF Stops
<1> QED BY <1>2, <1>3, <1>4, DrainsMove DEF Stops

LEMMA QuietKeeps ==
  ASSUME FollowupInv, NEW q \in QueueIds, QuietPeriodEnds(q)
  PROVE  FollowupInv'
<1> DEFINE t == NextTurn(queues[q], drain[q].forced)
<1>1. /\ drain[q].at = "debounce"
      /\ IF t = Idle
         THEN EndDrain(q, queues)
         ELSE drain' = [drain EXCEPT ![q] = t] /\ UNCHANGED entry
      /\ UNCHANGED <<queues, created, recentIds, runActive, turnFailures, answered,
                     accounted, givenUp, causes>>
  BY DEF QuietPeriodEnds
<1>2. /\ Scalars /\ queues \in [QueueIds -> Objects] /\ drain \in [QueueIds -> Drains]
      /\ entry \in {NoEntry} \cup QueueIds /\ q <= created
      /\ Sound(queues[q], drain[q], recentIds, answered)
  BY <1>1, PartsOfInv
<1>3. turnFailures' \in 0 .. MaxTurnFailures /\ runActive' \in BOOLEAN
  BY <1>1, <1>2 DEF Scalars
<1>4. CASE t = Idle
  <2>1. Stops(q, queues)
    BY <1>1, <1>2, <1>4, EndDrainIs
  <2> QED BY <1>1, <1>3, <2>1, StopsKeeps
<1>5. CASE t # Idle
  <2>1. drain[q].forced \in BOOLEAN
    BY <1>2 DEF Drains
  <2>2. /\ Sound(queues[q], t, recentIds, answered) /\ Faithful(queues[q], t)
        /\ Owned(queues[q], t) \subseteq Own(q)
    BY <1>2, <1>5, <2>1, NextTurnIs DEF Own
  <2>3. drain' = [drain EXCEPT ![q] = t] /\ entry' = entry
    BY <1>1, <1>5
  <2> HIDE DEF t
  <2>4. /\ drain' \in [QueueIds -> Drains] /\ drain'[q] = t
        /\ \A r \in QueueIds \ {q} : drain'[r] = drain[r]
    BY <1>2, <2>2, <2>3, SoundIs
  <2>5. \A W : Together(queues, drain, entry, W) => Together(queues, drain', entry', W)
    BY <1>1, <2>3, <2>4 DEF Together
  <2>6. \A r \in QueueIds : r > created => drain'[r] = drain[r]
    BY <1>2, <2>4 DEF Scalars, QueueIds
  <2> QED BY <1>1, <1>3, <2>2, <2>3, <2>4, <2>5, <2>6, DrainsMove
<1> QED BY <1>4, <1>5

LEMMA TurnThrowsKeeps ==
  ASSUME FollowupInv, NEW q \in QueueIds, TurnThrows(q)
  PROVE  FollowupInv'
<1>1. /\ drain[q].at = "turn" /\ turnFailures < MaxTurnFailures
      /\ turnFailures' = turnFailures + 1 /\ EndDrain(q, queues)
      /\ UNCHANGED <<queues, created, recentIds, runActive, answered, accounted, givenUp, causes>>
  BY DEF TurnThrows, AnotherFailure
<1>2. /\ Scalars /\ queues \in [QueueIds -> Objects] /\ drain \in [QueueIds -> Drains]
      /\ entry \in {NoEntry} \cup QueueIds
  BY PartsOfInv
<1>3. turnFailures' \in 0 .. MaxTurnFailures
  BY <1>1, <1>2 DEF Scalars
<1>4. Stops(q, queues)
  BY <1>1, <1>2, EndDrainIs
<1> QED BY <1>1, <1>3, <1>4, StopsKeeps

(***************************************************************************)
(* A turn returns, whether its run succeeded or was caught failing: what   *)
(* it ran and was to report is answered and accounted for, or given up.    *)
(***************************************************************************)
LEMMA TurnReturnsKeeps ==
  ASSUME FollowupInv, NEW q \in QueueIds, TurnSucceeds(q) \/ RunFails(q)
  PROVE  FollowupInv'
<1> DEFINE t == drain[q]
           o == queues[q]
           w == Left(o, t)
<1>1. /\ t.at = "turn"
      /\ queues' = [queues EXCEPT ![q] = w]
      /\ IF t.later # <<>>
         THEN drain' = [drain EXCEPT ![q] = Following(t)] /\ UNCHANGED entry
         ELSE LoopAgain(q, queues', t.forced)
      /\ answered \subseteq answered' /\ answered' \subseteq answered \cup Ran(t)
      /\ answered' \cup accounted' \cup givenUp' =
           answered \cup accounted \cup givenUp \cup Ran(t) \cup t.summary
      /\ causes' = IF t.kind = "summaryTurn" THEN causes \cup {t.kind} ELSE causes
      /\ UNCHANGED <<created, recentIds, runActive>>
      /\ turnFailures' \in 0 .. MaxTurnFailures
  <2>0. TurnReturns(q)
    BY DEF TurnSucceeds, RunFails
  <2>1. drain \in [QueueIds -> Drains] /\ queues \in [QueueIds -> Objects]
    BY PartsOfInv
  <2>2. [drain EXCEPT ![q] = Following(t)] =
          [drain EXCEPT ![q].batch = FirstOf(t.later, GroupSize(t.later)),
                        ![q].later = After(t.later, GroupSize(t.later)),
                        ![q].summary = {}]
    BY <2>1 DEF Following
  <2>3. queues' = [queues EXCEPT ![q] = w]
    BY <2>0, <2>1 DEF TurnReturns, Left
  <2>4. ASSUME TurnSucceeds(q)
        PROVE  /\ answered \subseteq answered' /\ answered' \subseteq answered \cup Ran(t)
               /\ answered' \cup accounted' \cup givenUp' =
                    answered \cup accounted \cup givenUp \cup Ran(t) \cup t.summary
               /\ turnFailures' \in 0 .. MaxTurnFailures
    <3>1. /\ answered' = answered \cup Ran(t) /\ accounted' = accounted \cup t.summary
          /\ UNCHANGED <<turnFailures, givenUp>>
      BY <2>4 DEF TurnSucceeds
    <3> QED BY <3>1, PartsOfInv DEF Scalars
  <2>5. ASSUME RunFails(q)
        PROVE  /\ answered \subseteq answered' /\ answered' \subseteq answered \cup Ran(t)
               /\ answered' \cup accounted' \cup givenUp' =
                    answered \cup accounted \cup givenUp \cup Ran(t) \cup t.summary
               /\ turnFailures' \in 0 .. MaxTurnFailures
    <3>1. /\ givenUp' = givenUp \cup Ran(t) \cup t.summary /\ UNCHANGED <<answered, accounted>>
      BY <2>5 DEF RunFails
    <3>2. turnFailures < MaxTurnFailures /\ turnFailures' = turnFailures + 1
      BY <2>5 DEF RunFails, AnotherFailure
    <3> QED BY <3>1, <3>2, PartsOfInv DEF Scalars
  <2> QED BY <2>0, <2>2, <2>3, <2>4, <2>5 DEF TurnReturns, Left
<1>2. /\ Scalars /\ queues \in [QueueIds -> Objects] /\ drain \in [QueueIds -> Drains]
      /\ entry \in {NoEntry} \cup QueueIds /\ q <= created
      /\ entry # NoEntry => entry <= created
      /\ \A r \in QueueIds : Sound(queues[r], drain[r], recentIds, answered)
      /\ t \in Drains
  BY <1>1, PartsOfInv
<1>3. /\ w \in Objects /\ Ran(t) \subseteq recentIds /\ Ran(t) \subseteq Own(q)
      /\ Content(w) \subseteq Content(o) /\ t.summary \subseteq recentIds
  BY <1>2, LeftIs, SoundIs DEF Own
<1>4. /\ queues' \in [QueueIds -> Objects] /\ queues'[q] = w
      /\ \A r \in QueueIds \ {q} : queues'[r] = queues[r]
  BY <1>1, <1>2, <1>3
<1> HIDE DEF w
(***************************************************************************)
(* The drain goes on with the next group, or back to the head of its loop. *)
(***************************************************************************)
<1>5. /\ drain' \in [QueueIds -> Drains] /\ entry' \in {entry, NoEntry}
      /\ Sound(w, drain'[q], recentIds, answered') /\ Owned(w, drain'[q]) \subseteq Own(q)
      /\ Faithful(o, t) => Faithful(w, drain'[q])
      /\ \A r \in QueueIds \ {q} : drain'[r] = drain[r] \/ drain'[r] \in Resting
      /\ \A r \in QueueIds \ {q, entry} : drain'[r] = drain[r]
      /\ \A W : Together(queues', drain, entry, W) => Together(queues', drain', entry', W)
  <2>1. CASE t.later # <<>>
    <3>1. drain' = [drain EXCEPT ![q] = Following(t)] /\ entry' = entry
      BY <1>1, <2>1
    <3>2. Following(t) \in Drains
      BY <1>2, FollowingIs
    <3>3. /\ drain' \in [QueueIds -> Drains] /\ drain'[q] = Following(t)
          /\ \A r \in QueueIds \ {q} : drain'[r] = drain[r]
      BY <1>2, <3>1, <3>2
    <3>4. /\ Sound(w, Following(t), recentIds, answered')
          /\ Owned(w, Following(t)) \subseteq Own(q)
          /\ Faithful(o, t) => Faithful(w, Following(t))
      <4>1. /\ Sound(w, Following(t), recentIds, answered \cup Ran(t))
            /\ Owned(w, Following(t)) \subseteq Own(q)
            /\ Faithful(o, t) => Faithful(w, Following(t))
        BY <1>1, <1>2, <2>1, TurnDoneFollows DEF w, Own
      <4> QED BY <1>1, <4>1, FewerRun
    <3>5. \A W : Together(queues', drain, entry, W) => Together(queues', drain', entry', W)
      BY <1>1, <3>1, <3>3 DEF Together
    <3> QED BY <3>1, <3>3, <3>4, <3>5
  <2>2. CASE t.later = <<>>
    <3>1. t.forced \in BOOLEAN /\ LoopAgain(q, queues', t.forced) /\ t.at # "idle"
      BY <1>1, <1>2, <2>2 DEF Drains
    <3>2. Stops(q, queues')
      BY <1>2, <1>4, <3>1, LoopAgainIs
    <3>3. drain'[q] \in Resting
      BY <3>2 DEF Stops
    <3>4. /\ Sound(w, drain'[q], recentIds, answered') /\ Faithful(w, drain'[q])
          /\ Owned(w, drain'[q]) \subseteq Own(q)
      <4>1. /\ Sound(w, drain'[q], recentIds, answered \cup Ran(t)) /\ Faithful(w, drain'[q])
            /\ Owned(w, drain'[q]) \subseteq Own(q)
        BY <1>1, <1>2, <3>3, TurnDoneRests DEF w, Own
      <4> QED BY <1>1, <4>1, FewerRun
    <3> QED BY <3>2, <3>4 DEF Stops
  <2> QED BY <2>1, <2>2
<1>6. ASSUME NEW r \in QueueIds \ {q}
      PROVE  /\ Sound(queues'[r], drain'[r], recentIds', answered')
             /\ Owned(queues'[r], drain'[r]) \subseteq Own(r)
             /\ Faithful(queues[r], drain[r]) => Faithful(queues'[r], drain'[r])
  <2>1. Ran(t) \cap Owned(queues[r], drain[r]) = {}
    <3>1. Own(q) \cap Own(r) = {}
      BY DEF FollowupInv
    <3> QED BY <1>3, <3>1 DEF Own
  <2>2. Sound(queues[r], drain[r], recentIds', answered')
    BY <1>1, <1>2, <2>1, OthersKeep
  <2>3. CASE drain'[r] = drain[r]
    BY <1>4, <2>2, <2>3 DEF Own
  <2>4. CASE drain'[r] \in Resting
    BY <1>4, <2>2, <2>4, RestingKeeps DEF Own
  <2> QED BY <1>5, <2>3, <2>4
<1>7. Scalars'
  <2>1. entry' \in {NoEntry} \cup 1 .. created' /\ created' \in 0 .. MaxQueues
    BY <1>1, <1>2, <1>5 DEF Scalars
  <2>2. answered' \cup accounted' \cup givenUp' \subseteq recentIds'
    BY <1>1, <1>2, <1>3 DEF Scalars
  <2>3. /\ runActive' \in BOOLEAN /\ turnFailures' \in 0 .. MaxTurnFailures
        /\ causes' \subseteq {"dropInTurn", "clearInDrain", "summaryTurn"}
    BY <1>1, <1>2 DEF Scalars
  <2> QED BY <2>1, <2>2, <2>3 DEF Scalars
<1>8. ASSUME NEW r \in QueueIds, r > created'
      PROVE  ~HasWork(queues'[r]) /\ drain'[r] = Idle
  <2>1. r > created /\ r # q /\ r # entry
    BY <1>1, <1>2, <1>8 DEF Scalars, QueueIds
  <2> QED BY <1>4, <1>5, <2>1 DEF FollowupInv
<1>9. ASSUME causes' = {}
      PROVE  /\ Together(queues', drain', entry', Open')
             /\ \A r \in QueueIds : Faithful(queues'[r], drain'[r])
  <2>1. causes = {} /\ t.kind # "summaryTurn"
    BY <1>1, <1>9
  <2>2. Together(queues, drain, entry, Open) /\ \A r \in QueueIds : Faithful(queues[r], drain[r])
    BY <2>1 DEF FollowupInv
  <2>3. q = entry
    BY <1>1, <2>2 DEF Together
  <2>4. Content(o) \subseteq Content(w) \cup Ran(t) \cup t.summary
    BY <1>1, <1>2, <2>1, <2>2, NothingElseTaken DEF w
  <2>5. Open' \subseteq Content(w)
    BY <1>1, <2>2, <2>3, <2>4 DEF Open, Together
  <2>6. Together(queues', drain, entry, Open')
    BY <1>4, <2>2, <2>3, <2>5 DEF Together, QueueIds
  <2>7. \A r \in QueueIds : Faithful(queues'[r], drain'[r])
    BY <1>4, <1>5, <1>6, <2>2
  <2> QED BY <1>5, <2>6, <2>7
<1>10. {} \cap recentIds = {} /\ Owned(queues'[q], drain'[q]) \subseteq Own(q) \cup {}
       /\ Sound(queues'[q], drain'[q], recentIds', answered')
  BY <1>1, <1>4, <1>5
<1> QED BY <1>4, <1>5, <1>6, <1>7, <1>8, <1>9, <1>10, InvFrom
-----------------------------------------------------------------------------
(***************************************************************************)
(* Every step of the queue keeps the invariant, so it holds always.        *)
(***************************************************************************)
LEMMA FollowupSteps == FollowupInv /\ [FollowupNext]_followupVars => FollowupInv'
<1> SUFFICES ASSUME FollowupInv, [FollowupNext]_followupVars
             PROVE  FollowupInv'
  OBVIOUS
<1>1. ASSUME NEW m \in Messages, NEW s \in QueueSettings, EnqueueFollowupRun(m, s)
      PROVE  FollowupInv'
  BY <1>1, EnqueueKeeps
<1>2. CASE ClearFollowupQueue
  BY <1>2, ClearKeeps
<1>3. CASE RunBegins \/ ActiveRunEnds
  BY <1>3, RunKeeps
<1>4. ASSUME NEW q \in QueueIds, QuietPeriodEnds(q)
      PROVE  FollowupInv'
  BY <1>4, QuietKeeps
<1>5. ASSUME NEW q \in QueueIds, TurnSucceeds(q) \/ RunFails(q)
      PROVE  FollowupInv'
  BY <1>5, TurnReturnsKeeps
<1>6. ASSUME NEW q \in QueueIds, TurnThrows(q)
      PROVE  FollowupInv'
  BY <1>6, TurnThrowsKeeps
<1>7. CASE UNCHANGED followupVars
  <2>1. UNCHANGED <<queues, entry, created, drain, recentIds, runActive, turnFailures,
                    answered, accounted, givenUp, causes>>
    BY <1>7 DEF followupVars
  <2> QED BY <2>1, Zenon DEF FollowupInv, FollowupTypeOK, Own, Open
<1> QED BY <1>1, <1>2, <1>3, <1>4, <1>5, <1>6, <1>7 DEF FollowupNext, TurnEnds

THEOREM FollowupInvariant == FollowupSpec => []FollowupInv
<1> QED BY FollowupStarts, FollowupSteps, PTL DEF FollowupSpec

(***************************************************************************)
(* The variables of the follow-up queue keep their types; in particular no *)
(* queue holds a message twice, or both as an item and as a dropped one.   *)
(***************************************************************************)
THEOREM FollowupTypeCorrect == FollowupSpec => []FollowupTypeOK
<1>1. FollowupInv => FollowupTypeOK
  BY DEF FollowupInv
<1> QED BY <1>1, FollowupInvariant, PTL

(***************************************************************************)
(* No message is run by a second turn, whatever is dropped, cleared,       *)
(* repeated or delivered again between and during the turns: what is in a  *)
(* turn belongs to the plan, and no plan has a message that was run.       *)
(***************************************************************************)
THEOREM NeverTwice == FollowupSpec => []NoSecondTurn
<1>1. FollowupInv => NoSecondTurn
  <2> SUFFICES ASSUME FollowupInv, NEW q \in QueueIds, drain[q].kind = "items"
               PROVE  ToSet(drain[q].batch) \cap answered = {}
    BY DEF NoSecondTurn
  <2>1. Sound(queues[q], drain[q], recentIds, answered) /\ drain[q] \in Drains
    BY PartsOfInv
  <2>2. ToSet(drain[q].batch) \subseteq ToSet(Plan(drain[q]))
    BY <2>1, PlanIs
  <2> QED BY <2>1, <2>2 DEF Sound
<1> QED BY <1>1, FollowupInvariant, PTL

(***************************************************************************)
(* An accepted message that was not run, is not accounted for and was not  *)
(* given up (by a run that failed and was caught, or by the cap of the     *)
(* summary) waits with the map's entry, unless an overflow in a turn, a    *)
(* clear during a drain or the turn of a summary outside collect mode came *)
(* before.                                                                 *)
(***************************************************************************)
THEOREM LossHasCause == FollowupSpec => []LossNeedsCause
<1>1. FollowupInv => LossNeedsCause
  <2> SUFFICES ASSUME FollowupInv, causes = {},
                      NEW m \in recentIds \ (answered \cup accounted \cup givenUp)
               PROVE  Waits(m)
    BY DEF LossNeedsCause
  <2>1. Together(queues, drain, entry, Open) /\ m \in Open
    BY DEF FollowupInv, Open
  <2>2. entry \in QueueIds /\ m \in Content(queues[entry])
    BY <2>1, PartsOfInv DEF Together
  <2> QED BY <2>2 DEF Waits, Content
<1> QED BY <1>1, FollowupInvariant, PTL
-----------------------------------------------------------------------------
(***************************************************************************)
(* The reason behind QueueIsWorkedOff: the map's queue is never left with  *)
(* work that nobody comes back to. Each step that ends the last drain or   *)
(* the run schedules the drain of the entry, or deletes it. The drain that *)
(* is under way need not be the entry's: after a clear, that of an older   *)
(* object schedules the entry when it ends.                                *)
(***************************************************************************)
SomebodyIsAt(D, run) == run \/ \E q \in QueueIds : D[q].at # "idle"

WorkIsComeBackTo ==
  entry # NoEntry /\ HasWork(queues[entry]) => SomebodyIsAt(drain, runActive)

LEMMA ScheduleComesBack ==
  ASSUME NEW Q, NEW D \in [QueueIds -> Drains], NEW e \in {NoEntry} \cup QueueIds,
         ScheduleFollowupDrain(Q, D, e), entry' # NoEntry
  PROVE  SomebodyIsAt(drain', FALSE)
<1>1. e \in QueueIds /\ entry' = e
  BY DEF ScheduleFollowupDrain
<1>2. drain'[e].at # "idle"
  BY <1>1 DEF ScheduleFollowupDrain, Debouncing, Idle
<1> QED BY <1>1, <1>2 DEF SomebodyIsAt

LEMMA EndComesBack ==
  ASSUME NEW q \in QueueIds, NEW Q, drain \in [QueueIds -> Drains],
         entry \in {NoEntry} \cup QueueIds, entry' # NoEntry,
         EndDrain(q, Q) \/ \E f \in BOOLEAN : LoopAgain(q, Q, f)
  PROVE  SomebodyIsAt(drain', FALSE)
<1>1. CASE EndDrain(q, Q)
  <2> DEFINE D == [drain EXCEPT ![q] = Idle]
  <2>1. Idle \in Drains
    BY RestingIs DEF Resting
  <2>2. ScheduleFollowupDrain(Q, D, entry) /\ D \in [QueueIds -> Drains]
    BY <1>1, <2>1 DEF EndDrain
  <2> QED BY <2>2, ScheduleComesBack
<1>2. ASSUME NEW f \in BOOLEAN, LoopAgain(q, Q, f), ~EndDrain(q, Q)
      PROVE  SomebodyIsAt(drain', FALSE)
  <2>1. drain' = [drain EXCEPT ![q] = Debouncing(f)]
    BY <1>2 DEF LoopAgain
  <2>2. drain'[q].at # "idle"
    BY <2>1 DEF Debouncing, Idle
  <2> QED BY <2>2 DEF SomebodyIsAt
<1> QED BY <1>1, <1>2

(***************************************************************************)
(* A queue with work in the map is under the drain of some object, or an   *)
(* agent run is active, in whatever order messages, clears, runs, failed   *)
(* turns and overlapping drains come.                                      *)
(***************************************************************************)
THEOREM QueueIsComeBackTo == FollowupSpec => []WorkIsComeBackTo
<1>1. FollowupInit => WorkIsComeBackTo
  BY DEF FollowupInit, WorkIsComeBackTo
<1>2. ASSUME FollowupInv, FollowupInv', WorkIsComeBackTo, [FollowupNext]_followupVars
      PROVE  WorkIsComeBackTo'
  <2> SUFFICES ASSUME entry' # NoEntry, HasWork(queues'[entry'])
               PROVE  SomebodyIsAt(drain', runActive')
    BY DEF WorkIsComeBackTo, HasWork
  <2>0. /\ drain \in [QueueIds -> Drains] /\ entry \in {NoEntry} \cup QueueIds
        /\ entry' \in {NoEntry} \cup QueueIds
    BY <1>2, PartsOfInv DEF FollowupInv, FollowupTypeOK, QueueIds
  <2>1. SomebodyIsAt(drain', FALSE) => SomebodyIsAt(drain', runActive')
    BY DEF SomebodyIsAt
  <2>2. ASSUME NEW m \in Messages, NEW s \in QueueSettings, EnqueueFollowupRun(m, s)
        PROVE  SomebodyIsAt(drain', runActive')
    <3>1. CASE Active
      <4>1. drain' = drain /\ runActive' = runActive
        BY <2>2, <3>1 DEF EnqueueFollowupRun
      <4> QED BY <3>1, <4>1 DEF Active, SomebodyIsAt
    <3>2. CASE ~Active
      <4>1. PICK Q, e : /\ ScheduleFollowupDrain(Q, drain, e)
                        /\ e = IF entry = NoEntry THEN created + 1 ELSE entry
                        /\ entry = NoEntry => created < MaxQueues
        BY <2>2, <3>2 DEF EnqueueFollowupRun
      <4>2. e \in QueueIds
        BY <1>2, <2>0, <4>1, PartsOfInv DEF Scalars, QueueIds
      <4> QED BY <2>0, <2>1, <4>1, <4>2, ScheduleComesBack
    <3> QED BY <3>1, <3>2
  <2>3. CASE ClearFollowupQueue
    BY <2>3 DEF ClearFollowupQueue
  <2>4. CASE RunBegins
    BY <2>4 DEF RunBegins, SomebodyIsAt
  <2>5. CASE ActiveRunEnds
    BY <2>0, <2>1, <2>5, ScheduleComesBack DEF ActiveRunEnds
  <2>6. ASSUME NEW q \in QueueIds, QuietPeriodEnds(q)
        PROVE  SomebodyIsAt(drain', runActive')
    <3> DEFINE t == NextTurn(queues[q], drain[q].forced)
    <3>1. CASE t = Idle
      BY <2>0, <2>1, <2>6, <3>1, EndComesBack DEF QuietPeriodEnds
    <3>2. CASE t # Idle
      <4>1. drain' = [drain EXCEPT ![q] = t] /\ t.at = "turn"
        BY <2>6, <3>2 DEF QuietPeriodEnds, NextTurn, Turn
      <4> HIDE DEF t
      <4>2. drain'[q].at # "idle"
        BY <2>0, <4>1
      <4> QED BY <4>2 DEF SomebodyIsAt
    <3> QED BY <3>1, <3>2
  <2>7. ASSUME NEW q \in QueueIds, TurnReturns(q)
        PROVE  SomebodyIsAt(drain', runActive')
    <3>1. CASE drain[q].later # <<>>
      <4>1. drain[q].at = "turn" /\ drain' = [drain EXCEPT ![q] = Following(drain[q])]
        BY <2>0, <2>7, <3>1 DEF TurnReturns, Following
      <4>2. Following(drain[q]).at = drain[q].at
        BY <2>0 DEF Following, Drains
      <4>3. drain'[q] = Following(drain[q])
        BY <2>0, <4>1
      <4> QED BY <4>1, <4>2, <4>3 DEF SomebodyIsAt
    <3>2. CASE drain[q].later = <<>>
      <4>1. drain[q].forced \in BOOLEAN
        BY <2>0 DEF Drains
      <4>2. LoopAgain(q, queues', drain[q].forced)
        BY <2>7, <3>2 DEF TurnReturns
      <4> QED BY <2>0, <2>1, <4>1, <4>2, EndComesBack
    <3> QED BY <3>1, <3>2
  <2>8. ASSUME NEW q \in QueueIds, TurnThrows(q)
        PROVE  SomebodyIsAt(drain', runActive')
    BY <2>0, <2>1, <2>8, EndComesBack DEF TurnThrows
  <2>9. CASE UNCHANGED followupVars
    BY <1>2, <2>9 DEF followupVars, WorkIsComeBackTo
  <2> QED BY <1>2, <2>2, <2>3, <2>4, <2>5, <2>6, <2>7, <2>8, <2>9
          DEF FollowupNext, TurnEnds, TurnSucceeds, RunFails
<1> QED BY <1>1, <1>2, FollowupInvariant, PTL DEF FollowupSpec
=============================================================================
