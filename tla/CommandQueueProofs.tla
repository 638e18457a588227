------------------------- MODULE CommandQueueProofs -------------------------
(***************************************************************************)
(* Proofs about CommandQueue, for any finite set of tasks, any lanes,      *)
(* waiters and limits.                                                     *)
(*                                                                         *)
(* Each handler that moves entries first edits the queues, the slots and   *)
(* the promises and then pumps. Coherent says of such an edited state what *)
(* the invariant says of the current one, and the lemmas about Pump show   *)
(* that pumping keeps it and leaves no work stranded; what is left for     *)
(* each action is that its edit is coherent.                               *)
(***************************************************************************)
EXTENDS CommandQueue, TLAPS, FiniteSetTheorems, SequenceTheorems

(***************************************************************************)
(* The queues q hold exactly the queued promises p, each once and in its   *)
(* own lane; the slots a are held by exactly the executing entries of      *)
(* generation g, where s tells when an entry started.                      *)
(***************************************************************************)
Typed(q, a, p, s, g) ==
  /\ q \in [Lanes -> Seq(Tasks)]
  /\ a \in [Lanes -> SUBSET Tasks]
  /\ p \in [Tasks -> Phases]
  /\ s \in [Tasks -> Nat]
  /\ g \in Nat
  /\ \A t \in Tasks : s[t] <= g

InQueue(q, p) ==
  /\ \A l \in Lanes : \A i \in 1 .. Len(q[l]) :
       p[q[l][i]] = "queued" /\ LaneOf[q[l][i]] = l
  /\ \A t \in Tasks : p[t] = "queued" =>
       \E i \in 1 .. Len(q[LaneOf[t]]) : q[LaneOf[t]][i] = t

Distinct(q) ==
  \A l \in Lanes : \A i, j \in 1 .. Len(q[l]) : q[l][i] = q[l][j] => i = j

Slots(a, p, s, g) ==
  \A l \in Lanes :
    a[l] = {t \in Tasks : LaneOf[t] = l /\ p[t] = "running" /\ s[t] = g}

Coherent(q, a, p, s, g) ==
  Typed(q, a, p, s, g) /\ InQueue(q, p) /\ Distinct(q) /\ Slots(a, p, s, g)

N(lanes, q, a, m, l) == IF l \in lanes THEN Admitted(q[l], a[l], m[l]) ELSE 0
-----------------------------------------------------------------------------
(***************************************************************************)
(* The first n entries of a queue without repetitions are n tasks.         *)
(***************************************************************************)
LEMMA FrontSize ==
  ASSUME NEW q \in Seq(Tasks), NEW n \in 0 .. Len(q),
         \A i, j \in 1 .. Len(q) : q[i] = q[j] => i = j
  PROVE  IsFiniteSet(Front(q, n)) /\ Cardinality(Front(q, n)) = n
<1> DEFINE f == [i \in 1 .. n |-> q[i]]
<1>1. f \in Bijection(1 .. n, Front(q, n))
  BY DEF Bijection, Injection, Surjection, IsInjective, Front
<1>2. ExistsBijection(1 .. n, Front(q, n))
  BY <1>1 DEF ExistsBijection
<1> QED
  BY <1>2, FS_CountingElements, FS_NatBijection

(***************************************************************************)
(* The number of entries that a lane starts.                               *)
(***************************************************************************)
LEMMA AdmittedBounds ==
  ASSUME NEW q \in Seq(Tasks), NEW a \in SUBSET Tasks, NEW m \in Nat
  PROVE  /\ Cardinality(a) \in Nat
         /\ Admitted(q, a, m) \in 0 .. Len(q)
         /\ Admitted(q, a, m) > 0 => Cardinality(a) + Admitted(q, a, m) <= m
         /\ Admitted(q, a, m) < Len(q) => Cardinality(a) + Admitted(q, a, m) >= m
<1>1. Cardinality(a) \in Nat
  BY QueueAssumption, FS_Subset, FS_CardinalityType
<1>2. Len(q) \in Nat
  BY LenProperties
<1> QED
  BY <1>1, <1>2 DEF Admitted, FreeSlots

(***************************************************************************)
(* Pumping moves the first n entries of a lane from its queue to its       *)
(* slots, and every started entry comes from the queue of its own lane.    *)
(***************************************************************************)
Moves(q, a, p, g, n, l) ==
  /\ n \in 0 .. Len(q[l])
  /\ queue'[l] \in Seq(Tasks)
  /\ Len(queue'[l]) = Len(q[l]) - n
  /\ \A i \in 1 .. Len(queue'[l]) : queue'[l][i] = q[l][n + i]
  /\ activeTaskIds'[l] = a[l] \cup Front(q[l], n)
  /\ \A t \in Front(q[l], n) :
       /\ t \in Tasks /\ p[t] = "queued" /\ LaneOf[t] = l
       /\ phase'[t] = "running" /\ startedIn'[t] = g

(***************************************************************************)
(* What the pump does to one lane: its first entries move from the queue   *)
(* to the slots, and nothing else of it changes.                           *)
(***************************************************************************)
LEMMA PumpMoves ==
  ASSUME NEW lanes \in SUBSET Lanes, NEW q, NEW a, NEW m \in [Lanes -> Nat],
         NEW p, NEW g,
         Coherent(q, a, p, startedIn, g),
         Pump(lanes, q, a, m, p, g)
  PROVE  \A l \in Lanes : Moves(q, a, p, g, N(lanes, q, a, m, l), l)
<1> TAKE l \in Lanes
<1> DEFINE n == N(lanes, q, a, m, l)
<1>1. q[l] \in Seq(Tasks) /\ a[l] \in SUBSET Tasks /\ m[l] \in Nat
  BY DEF Coherent, Typed
<1>2. Len(q[l]) \in Nat
  BY <1>1, LenProperties
<1>3. n \in 0 .. Len(q[l])
  <2>1. Admitted(q[l], a[l], m[l]) \in 0 .. Len(q[l])
    BY <1>1, AdmittedBounds
  <2> QED
    BY <1>2, <2>1 DEF N
<1>4. queue'[l] = SubSeq(q[l], n + 1, Len(q[l]))
  BY DEF Pump, N
<1>5. \A i \in 1 .. Len(q[l]) : q[l][i] \in Tasks
  BY <1>1, ElementOfSeq
<1>6. /\ queue'[l] \in Seq(Tasks)
      /\ Len(queue'[l]) = Len(q[l]) - n
      /\ \A i \in 1 .. Len(queue'[l]) : queue'[l][i] = q[l][n + i]
  <2>1. /\ SubSeq(q[l], n + 1, Len(q[l])) \in Seq(Tasks)
        /\ Len(SubSeq(q[l], n + 1, Len(q[l]))) =
             IF n + 1 <= Len(q[l]) THEN Len(q[l]) - (n + 1) + 1 ELSE 0
        /\ \A i \in 1 .. Len(q[l]) - (n + 1) + 1 :
             SubSeq(q[l], n + 1, Len(q[l]))[i] = q[l][n + 1 + i - 1]
    <3>1. n + 1 \in Int /\ Len(q[l]) \in Int
      BY <1>2, <1>3
    <3>2. \A i \in n + 1 .. Len(q[l]) : q[l][i] \in Tasks
      BY <1>2, <1>3, <1>5
    <3> HIDE DEF n
    <3> QED
      BY <3>1, <3>2, SubSeqProperties
  <2>2. n \in Nat /\ n <= Len(q[l])
    BY <1>2, <1>3
  <2> HIDE DEF n
  <2>3. \A i \in Nat : n + 1 + i - 1 = n + i
    BY <2>2
  <2>4. Len(queue'[l]) = Len(q[l]) - n
    BY <1>2, <1>4, <2>1, <2>2
  <2>5. ASSUME NEW i \in 1 .. Len(queue'[l]) PROVE queue'[l][i] = q[l][n + i]
    <3>1. i \in 1 .. Len(q[l]) - (n + 1) + 1 /\ i \in Nat
      BY <1>2, <2>2, <2>4, <2>5
    <3> QED
      BY <1>4, <2>1, <2>3, <3>1
  <2> QED
    BY <1>4, <2>1, <2>4, <2>5
<1>7. activeTaskIds'[l] = a[l] \cup Front(q[l], n)
  BY DEF Pump, N
<1>8. ASSUME NEW t \in Front(q[l], n)
      PROVE  t \in Tasks /\ p[t] = "queued" /\ LaneOf[t] = l
             /\ phase'[t] = "running" /\ startedIn'[t] = g
  <2>1. PICK i \in 1 .. Len(q[l]) : t = q[l][i]
    BY <1>2, <1>3 DEF Front
  <2>2. t \in Tasks /\ p[t] = "queued" /\ LaneOf[t] = l
    BY <1>5, <2>1 DEF Coherent, InQueue
  <2>3. t \in UNION {Front(q[k], N(lanes, q, a, m, k)) : k \in Lanes}
    OBVIOUS
  <2> QED
    BY <2>2, <2>3 DEF Pump, N
<1> QED
  BY <1>3, <1>6, <1>7, <1>8 DEF Moves

(***************************************************************************)
(* An entry that is not at the front of its own lane is left as it was.    *)
(***************************************************************************)
LEMMA PumpLeaves ==
  ASSUME NEW lanes \in SUBSET Lanes, NEW q, NEW a, NEW m \in [Lanes -> Nat],
         NEW p, NEW g,
         Coherent(q, a, p, startedIn, g),
         Pump(lanes, q, a, m, p, g),
         NEW t \in Tasks,
         t \notin Front(q[LaneOf[t]], N(lanes, q, a, m, LaneOf[t]))
  PROVE  phase'[t] = p[t] /\ startedIn'[t] = startedIn[t]
<1>1. \A l \in Lanes : Moves(q, a, p, g, N(lanes, q, a, m, l), l)
  BY PumpMoves
<1>2. t \notin UNION {Front(q[k], N(lanes, q, a, m, k)) : k \in Lanes}
  BY <1>1 DEF Moves
<1> QED
  BY <1>2 DEF Pump, N

(***************************************************************************)
(* The pump of drainLane keeps queues, slots and promises coherent.        *)
(***************************************************************************)
LEMMA PumpCoherent ==
  ASSUME NEW lanes \in SUBSET Lanes, NEW q, NEW a, NEW m \in [Lanes -> Nat],
         NEW p, NEW g,
         Coherent(q, a, p, startedIn, g),
         Pump(lanes, q, a, m, p, g)
  PROVE  Coherent(queue', activeTaskIds', phase', startedIn', g)
<1> DEFINE n(l) == N(lanes, q, a, m, l)
           moved(l) == Front(q[l], n(l))
<1>1. \A l \in Lanes :
        /\ n(l) \in 0 .. Len(q[l])
        /\ queue'[l] \in Seq(Tasks)
        /\ Len(queue'[l]) = Len(q[l]) - n(l)
        /\ \A i \in 1 .. Len(queue'[l]) : queue'[l][i] = q[l][n(l) + i]
        /\ activeTaskIds'[l] = a[l] \cup moved(l)
        /\ \A t \in moved(l) : /\ t \in Tasks /\ p[t] = "queued" /\ LaneOf[t] = l
                              /\ phase'[t] = "running" /\ startedIn'[t] = g
  <2>1. \A l \in Lanes : Moves(q, a, p, g, N(lanes, q, a, m, l), l)
    BY PumpMoves
  <2> QED
    BY <2>1 DEF Moves
<1>2. \A t \in Tasks : t \notin moved(LaneOf[t]) =>
        phase'[t] = p[t] /\ startedIn'[t] = startedIn[t]
  BY PumpLeaves
<1>3. \A t \in Tasks : LaneOf[t] \in Lanes
  BY QueueAssumption
<1>4. \A l \in Lanes : Len(q[l]) \in Nat
  BY LenProperties DEF Coherent, Typed
<1>5. \A l \in Lanes : moved(l) = {q[l][i] : i \in 1 .. n(l)}
  BY DEF Front
<1> HIDE DEF n, moved
<1>6. Typed(queue', activeTaskIds', phase', startedIn', g)
  <2>1. queue' \in [Lanes -> Seq(Tasks)]
    <3>1. queue' = [l \in Lanes |-> queue'[l]]
      BY DEF Pump
    <3> QED
      BY <1>1, <3>1
  <2>2. activeTaskIds' \in [Lanes -> SUBSET Tasks]
    <3>1. activeTaskIds' = [l \in Lanes |-> activeTaskIds'[l]]
      BY DEF Pump
    <3>2. \A l \in Lanes : activeTaskIds'[l] \subseteq Tasks
      BY <1>1 DEF Coherent, Typed
    <3> QED
      BY <3>1, <3>2
  <2>3. \A t \in Tasks : phase'[t] \in Phases /\ startedIn'[t] \in Nat /\ startedIn'[t] <= g
    <3> TAKE t \in Tasks
    <3>1. CASE t \in moved(LaneOf[t])
      BY <1>1, <1>3, <3>1 DEF Coherent, Typed, Phases
    <3>2. CASE t \notin moved(LaneOf[t])
      BY <1>2, <3>2 DEF Coherent, Typed
    <3> QED
      BY <3>1, <3>2
  <2>4. phase' \in [Tasks -> Phases] /\ startedIn' \in [Tasks -> Nat]
    <3>1. phase' = [t \in Tasks |-> phase'[t]] /\ startedIn' = [t \in Tasks |-> startedIn'[t]]
      BY DEF Pump
    <3> QED
      BY <2>3, <3>1
  <2> QED
    BY <2>1, <2>2, <2>3, <2>4 DEF Coherent, Typed
<1>7. Distinct(queue')
  <2> SUFFICES ASSUME NEW l \in Lanes,
                      NEW i \in 1 .. Len(queue'[l]), NEW j \in 1 .. Len(queue'[l]),
                      queue'[l][i] = queue'[l][j]
               PROVE  i = j
    BY DEF Distinct
  <2>1. n(l) + i \in 1 .. Len(q[l]) /\ n(l) + j \in 1 .. Len(q[l])
    <3>1. Len(q[l]) \in Nat
      BY <1>4
    <3>2. n(l) \in 0 .. Len(q[l]) /\ Len(queue'[l]) = Len(q[l]) - n(l)
      BY <1>1, Zenon
    <3>3. \A len, off \in Nat : \A k \in 1 .. len - off : off + k \in 1 .. len
      OBVIOUS
    <3> QED
      BY <3>1, <3>2, <3>3
  <2>2. q[l][n(l) + i] = q[l][n(l) + j]
    BY <1>1
  <2>3. n(l) + i = n(l) + j
    BY <2>1, <2>2 DEF Coherent, Distinct
  <2> QED
    BY <1>1, <1>4, <2>3
<1>8. InQueue(queue', phase')
  <2>1. ASSUME NEW l \in Lanes, NEW i \in 1 .. Len(queue'[l])
        PROVE  phase'[queue'[l][i]] = "queued" /\ LaneOf[queue'[l][i]] = l
    <3>1. n(l) + i \in 1 .. Len(q[l]) /\ queue'[l][i] = q[l][n(l) + i]
      BY <1>1, <1>4
    <3>2. p[queue'[l][i]] = "queued" /\ LaneOf[queue'[l][i]] = l /\ queue'[l][i] \in Tasks
      <4>1. p[q[l][n(l) + i]] = "queued" /\ LaneOf[q[l][n(l) + i]] = l
        BY <3>1 DEF Coherent, InQueue
      <4>2. queue'[l] \in Seq(Tasks)
        BY <1>1
      <4> QED
        BY <3>1, <4>1, <4>2, ElementOfSeq
    <3>3. \A j \in 1 .. n(l) : j \in 1 .. Len(q[l]) /\ j # n(l) + i
      BY <1>1, <1>4
    <3>4. queue'[l][i] \notin moved(l)
      BY <1>5, <3>1, <3>3 DEF Coherent, Distinct
    <3> QED
      BY <1>2, <3>2, <3>4
  <2>2. ASSUME NEW t \in Tasks, phase'[t] = "queued"
        PROVE  \E i \in 1 .. Len(queue'[LaneOf[t]]) : queue'[LaneOf[t]][i] = t
    <3>1. t \notin moved(LaneOf[t])
      BY <1>1, <1>3, <2>2
    <3>2. PICK i \in 1 .. Len(q[LaneOf[t]]) : q[LaneOf[t]][i] = t
      BY <1>2, <2>2, <3>1 DEF Coherent, InQueue
    <3>3. i \notin 1 .. n(LaneOf[t])
      BY <1>3, <1>5, <3>1, <3>2
    <3>4. i - n(LaneOf[t]) \in 1 .. Len(queue'[LaneOf[t]])
      BY <1>1, <1>3, <1>4, <3>3
    <3>5. queue'[LaneOf[t]][i - n(LaneOf[t])] = t
      <4>1. \A k \in 1 .. Len(queue'[LaneOf[t]]) :
              queue'[LaneOf[t]][k] = q[LaneOf[t]][n(LaneOf[t]) + k]
        <5>1. LaneOf[t] \in Lanes
          BY <1>3
        <5> QED
          BY <1>1, <5>1
      <4>2. n(LaneOf[t]) + (i - n(LaneOf[t])) = i
        BY <1>1, <1>3, <1>4
      <4>3. queue'[LaneOf[t]][i - n(LaneOf[t])] = q[LaneOf[t]][n(LaneOf[t]) + (i - n(LaneOf[t]))]
        BY <3>4, <4>1, Zenon
      <4> QED
        BY <3>2, <4>2, <4>3
    <3> QED
      BY <3>4, <3>5
  <2> QED
    BY <2>1, <2>2 DEF InQueue
<1>9. Slots(activeTaskIds', phase', startedIn', g)
  <2> SUFFICES ASSUME NEW l \in Lanes, NEW t
               PROVE  t \in activeTaskIds'[l] <=>
                        t \in Tasks /\ LaneOf[t] = l /\ phase'[t] = "running" /\ startedIn'[t] = g
    BY DEF Slots
  <2>1. CASE t \in moved(l)
    BY <1>1, <2>1
  <2>2. CASE t \notin moved(l)
    BY <1>1, <1>2, <2>2 DEF Coherent, Slots
  <2> QED
    BY <2>1, <2>2
<1> QED
  BY <1>6, <1>7, <1>8, <1>9 DEF Coherent
-----------------------------------------------------------------------------
(***************************************************************************)
(* How full a lane is after pumping: as full as its limit if entries are   *)
(* left, and no fuller than its limit if an entry started.                 *)
(***************************************************************************)
LEMMA PumpFills ==
  ASSUME NEW lanes \in SUBSET Lanes, NEW q, NEW a, NEW m \in [Lanes -> Nat],
         NEW p, NEW g,
         Coherent(q, a, p, startedIn, g),
         Pump(lanes, q, a, m, p, g)
  PROVE  \A l \in Lanes :
           /\ l \in lanes /\ queue'[l] # <<>> => Cardinality(activeTaskIds'[l]) >= m[l]
           /\ activeTaskIds'[l] # a[l] => Cardinality(activeTaskIds'[l]) <= m[l]
           /\ l \notin lanes => queue'[l] = q[l] /\ activeTaskIds'[l] = a[l]
<1> TAKE l \in Lanes
<1> DEFINE n == N(lanes, q, a, m, l)
<1>1. q[l] \in Seq(Tasks) /\ a[l] \in SUBSET Tasks /\ m[l] \in Nat
  BY DEF Coherent, Typed
<1>2. Len(q[l]) \in Nat
  BY <1>1, LenProperties
<1>3. Moves(q, a, p, g, n, l)
  BY PumpMoves
<1>4. IsFiniteSet(a[l]) /\ Cardinality(a[l]) \in Nat
  BY <1>1, QueueAssumption, FS_Subset, FS_CardinalityType
<1>5. IsFiniteSet(Front(q[l], n)) /\ Cardinality(Front(q[l], n)) = n
  <2>1. \A i, j \in 1 .. Len(q[l]) : q[l][i] = q[l][j] => i = j
    BY DEF Coherent, Distinct
  <2>2. n \in 0 .. Len(q[l])
    BY <1>3 DEF Moves
  <2> HIDE DEF n
  <2> QED
    BY <1>1, <2>1, <2>2, FrontSize
<1>6. Cardinality(activeTaskIds'[l]) = Cardinality(a[l]) + n
  <2>1. a[l] \cap Front(q[l], n) = {}
    BY <1>3 DEF Moves, Coherent, Slots
  <2>2. activeTaskIds'[l] = a[l] \cup Front(q[l], n)
    BY <1>3 DEF Moves
  <2>3. n \in Nat
    BY <1>2, <1>3 DEF Moves
  <2> HIDE DEF n
  <2>4. Cardinality(a[l] \cup Front(q[l], n)) =
          Cardinality(a[l]) + Cardinality(Front(q[l], n)) - Cardinality(a[l] \cap Front(q[l], n))
    BY <1>4, <1>5, FS_Union
  <2>5. Cardinality(a[l] \cap Front(q[l], n)) = 0
    BY <2>1, FS_EmptySet
  <2> QED
    BY <1>4, <1>5, <2>2, <2>3, <2>4, <2>5
<1>7. ASSUME l \in lanes, queue'[l] # <<>>
      PROVE  Cardinality(activeTaskIds'[l]) >= m[l]
  <2>1. Len(queue'[l]) = Len(q[l]) - n /\ queue'[l] \in Seq(Tasks) /\ n \in 0 .. Len(q[l])
    BY <1>3 DEF Moves
  <2>2. n < Len(q[l])
    BY <1>2, <1>7, <2>1, EmptySeq
  <2>3. n = Admitted(q[l], a[l], m[l])
    BY <1>7 DEF N
  <2> QED
    BY <1>1, <1>6, <2>2, <2>3, AdmittedBounds
<1>8. ASSUME activeTaskIds'[l] # a[l]
      PROVE  Cardinality(activeTaskIds'[l]) <= m[l]
  <2>1. n > 0
    <3>1. n \in 0 .. Len(q[l]) /\ activeTaskIds'[l] = a[l] \cup {q[l][i] : i \in 1 .. n}
      BY <1>3 DEF Moves, Front
    <3> HIDE DEF n
    <3>2. n # 0
      BY <1>8, <3>1
    <3> QED
      BY <1>2, <3>1, <3>2
  <2>2. n = Admitted(q[l], a[l], m[l])
    BY <2>1 DEF N
  <2> QED
    BY <1>1, <1>6, <2>1, <2>2, AdmittedBounds
<1>9. ASSUME l \notin lanes
      PROVE  queue'[l] = q[l] /\ activeTaskIds'[l] = a[l]
  <2>1. n = 0
    BY <1>9 DEF N
  <2>2. activeTaskIds'[l] = a[l]
    <3>1. activeTaskIds'[l] = a[l] \cup {q[l][i] : i \in 1 .. n}
      BY <1>3 DEF Moves, Front
    <3> HIDE DEF n
    <3> QED
      BY <2>1, <3>1
  <2>3. queue'[l] = SubSeq(q[l], 1, Len(q[l]))
    BY <2>1 DEF Pump, N
  <2> QED
    BY <1>1, <2>2, <2>3, SubSeqFull
<1> QED
  BY <1>7, <1>8, <1>9
-----------------------------------------------------------------------------
(***************************************************************************)
(* The inductive invariant. NoStrandedWork counts executing entries, so it *)
(* needs queues without repetitions that share no entry with the slots,    *)
(* which is what Coherent says.                                            *)
(***************************************************************************)
QueueInv ==
  /\ Coherent(queue, activeTaskIds, phase, startedIn, generation)
  /\ maxConcurrent \in [Lanes -> Nat \ {0}]
  /\ NoStrandedWork

(***************************************************************************)
(* The empty lanes of getLaneState satisfy the invariant.                  *)
(***************************************************************************)
LEMMA InitInv == Init => QueueInv
<1> SUFFICES ASSUME Init PROVE QueueInv
  OBVIOUS
<1> USE DEF Init
<1>1. Typed(queue, activeTaskIds, phase, startedIn, generation)
  BY EmptySeq DEF Typed, Phases, Settled
<1>2. \A l \in Lanes : Len(queue[l]) = 0
  BY EmptySeq
<1>3. InQueue(queue, phase)
  BY <1>2 DEF InQueue
<1>4. Distinct(queue)
  BY <1>2 DEF Distinct
<1>5. Slots(activeTaskIds, phase, startedIn, generation)
  BY DEF Slots
<1> QED
  BY <1>1, <1>3, <1>4, <1>5 DEF QueueInv, Coherent, NoStrandedWork

(***************************************************************************)
(* The edits that precede the pumping are coherent.                        *)
(***************************************************************************)
LEMMA EnqueueCoherent ==
  ASSUME QueueInv, NEW t \in Tasks, phase[t] = "new"
  PROVE  Coherent([queue EXCEPT ![LaneOf[t]] = Append(@, t)], activeTaskIds,
                  [phase EXCEPT ![t] = "queued"], startedIn, generation)
<1> DEFINE k == LaneOf[t]
           q == [queue EXCEPT ![k] = Append(@, t)]
           p == [phase EXCEPT ![t] = "queued"]
<1> USE DEF QueueInv, Coherent
<1>1. k \in Lanes
  BY QueueAssumption
<1>2. /\ queue \in [Lanes -> Seq(Tasks)] /\ phase \in [Tasks -> Phases]
      /\ \A l \in Lanes : queue[l] \in Seq(Tasks) /\ Len(queue[l]) \in Nat
  BY LenProperties DEF Typed
<1>3. /\ q[k] \in Seq(Tasks)
      /\ Len(q[k]) = Len(queue[k]) + 1
      /\ \A i \in 1 .. Len(queue[k]) : q[k][i] = queue[k][i]
      /\ q[k][Len(queue[k]) + 1] = t
      /\ \A l \in Lanes : l # k => q[l] = queue[l]
  BY <1>1, <1>2, AppendProperties
<1>4. \A u \in Tasks : p[u] = IF u = t THEN "queued" ELSE phase[u]
  BY <1>2
<1>5. q \in [Lanes -> Seq(Tasks)] /\ p \in [Tasks -> Phases]
  BY <1>1, <1>2, <1>3 DEF Phases
<1>6. \A l \in Lanes : \A i \in 1 .. Len(queue[l]) :
        queue[l][i] \in Tasks /\ phase[queue[l][i]] = "queued" /\ LaneOf[queue[l][i]] = l
        /\ queue[l][i] # t
  BY <1>2, ElementOfSeq DEF InQueue
<1>7. \A l \in Lanes : \A i \in 1 .. Len(q[l]) :
        \/ i \in 1 .. Len(queue[l]) /\ q[l][i] = queue[l][i]
        \/ l = k /\ i = Len(queue[k]) + 1 /\ q[l][i] = t
  BY <1>1, <1>2, <1>3
<1> HIDE DEF q, p, k
<1>8. Typed(q, activeTaskIds, p, startedIn, generation)
  BY <1>5 DEF Typed
<1>9. InQueue(q, p)
  <2>1. ASSUME NEW l \in Lanes, NEW i \in 1 .. Len(q[l])
        PROVE  p[q[l][i]] = "queued" /\ LaneOf[q[l][i]] = l
    <3>1. CASE i \in 1 .. Len(queue[l]) /\ q[l][i] = queue[l][i]
      BY <1>4, <1>6, <3>1
    <3>2. CASE l = k /\ i = Len(queue[k]) + 1 /\ q[l][i] = t
      BY <1>4, <3>2 DEF k
    <3> QED
      BY <1>7, <3>1, <3>2
  <2>2. ASSUME NEW u \in Tasks, p[u] = "queued"
        PROVE  \E i \in 1 .. Len(q[LaneOf[u]]) : q[LaneOf[u]][i] = u
    <3>1. CASE u = t
      <4>1. Len(queue[k]) + 1 \in 1 .. Len(q[k])
        BY <1>1, <1>2, <1>3
      <4> QED
        BY <1>3, <3>1, <4>1 DEF k
    <3>2. CASE u # t
      <4>1. LaneOf[u] \in Lanes
        BY QueueAssumption
      <4>2. PICK i \in 1 .. Len(queue[LaneOf[u]]) : queue[LaneOf[u]][i] = u
        BY <1>4, <2>2, <3>2 DEF InQueue
      <4>3. i \in 1 .. Len(q[LaneOf[u]]) /\ q[LaneOf[u]][i] = u
        <5>1. CASE LaneOf[u] = k
          BY <1>1, <1>2, <1>3, <4>2, <5>1
        <5>2. CASE LaneOf[u] # k
          BY <1>3, <4>1, <4>2, <5>2
        <5> QED
          BY <5>1, <5>2
      <4> QED
        BY <4>3
    <3> QED
      BY <3>1, <3>2
  <2> QED
    BY <2>1, <2>2 DEF InQueue
<1>10. Distinct(q)
  <2> SUFFICES ASSUME NEW l \in Lanes, NEW i \in 1 .. Len(q[l]), NEW j \in 1 .. Len(q[l]),
                      q[l][i] = q[l][j]
               PROVE  i = j
    BY DEF Distinct
  <2>1. CASE i \in 1 .. Len(queue[l]) /\ j \in 1 .. Len(queue[l])
             /\ q[l][i] = queue[l][i] /\ q[l][j] = queue[l][j]
    BY <2>1 DEF Distinct
  <2> QED
    BY <1>6, <1>7, <2>1
<1>11. Slots(activeTaskIds, p, startedIn, generation)
  BY <1>4 DEF Slots
<1> QED
  BY <1>8, <1>9, <1>10, <1>11 DEF q, p, k

(***************************************************************************)
(* Taking a settled entry out of its slot keeps the lanes coherent; the    *)
(* pump that follows starts from there.                                    *)
(***************************************************************************)
LEMMA CompleteCoherent ==
  ASSUME QueueInv, NEW t \in Tasks, NEW outcome \in Outcomes,
         phase[t] = "running", startedIn[t] = generation
  PROVE  Coherent(queue, [activeTaskIds EXCEPT ![LaneOf[t]] = @ \ {t}],
                  [phase EXCEPT ![t] = outcome], startedIn, generation)
<1> DEFINE a == [activeTaskIds EXCEPT ![LaneOf[t]] = @ \ {t}]
           p == [phase EXCEPT ![t] = outcome]
<1> USE DEF QueueInv, Coherent
<1>1. outcome # "queued" /\ outcome # "running" /\ outcome \in Phases
  BY DEF Outcomes, Phases, Settled
<1>2. LaneOf[t] \in Lanes
  BY QueueAssumption
<1>3. p \in [Tasks -> Phases] /\ \A u \in Tasks : p[u] = IF u = t THEN outcome ELSE phase[u]
  BY <1>1 DEF Typed
<1>4. a \in [Lanes -> SUBSET Tasks]
      /\ \A l \in Lanes : a[l] = IF l = LaneOf[t] THEN activeTaskIds[l] \ {t} ELSE activeTaskIds[l]
  BY <1>2 DEF Typed
<1> HIDE DEF a, p
<1>5. Typed(queue, a, p, startedIn, generation)
  BY <1>3, <1>4 DEF Typed
<1>6. InQueue(queue, p)
  <2>1. \A l \in Lanes : \A i \in 1 .. Len(queue[l]) : queue[l][i] \in Tasks
    BY ElementOfSeq DEF Typed
  <2> QED
    BY <1>1, <1>3, <2>1 DEF InQueue
<1>7. Slots(a, p, startedIn, generation)
  BY <1>1, <1>2, <1>3, <1>4 DEF Slots
<1> QED
  BY <1>5, <1>6, <1>7 DEF a, p

(***************************************************************************)
(* Emptying all slots while the generation moves on keeps the lanes        *)
(* coherent, for no started entry belongs to the new generation yet.       *)
(***************************************************************************)
LEMMA ResetCoherent ==
  ASSUME QueueInv
  PROVE  Coherent(queue, [l \in Lanes |-> {}], phase, startedIn, generation + 1)
<1> USE DEF QueueInv, Coherent
<1>1. Typed(queue, [l \in Lanes |-> {}], phase, startedIn, generation + 1)
  BY DEF Typed
<1>2. Slots([l \in Lanes |-> {}], phase, startedIn, generation + 1)
  BY DEF Slots, Typed
<1> QED
  BY <1>1, <1>2
-----------------------------------------------------------------------------
(***************************************************************************)
(* A handler that edits coherently and pumps its lanes strands nothing, if *)
(* the lanes that it does not pump had no entry to start.                  *)
(***************************************************************************)
LEMMA StrandsNothing ==
  ASSUME NEW lanes \in SUBSET Lanes, NEW q, NEW a, NEW p, NEW g,
         maxConcurrent' \in [Lanes -> Nat \ {0}],
         Coherent(q, a, p, startedIn, g),
         Pump(lanes, q, a, maxConcurrent', p, g),
         generation' = g,
         \A l \in Lanes \ lanes :
           q[l] # <<>> => Cardinality(a[l]) >= maxConcurrent'[l]
  PROVE  QueueInv'
<1>1. maxConcurrent' \in [Lanes -> Nat]
  OBVIOUS
<1>2. Coherent(queue', activeTaskIds', phase', startedIn', g)
  BY <1>1, PumpCoherent
<1>3. \A l \in Lanes :
        /\ l \in lanes /\ queue'[l] # <<>> =>
             Cardinality(activeTaskIds'[l]) >= maxConcurrent'[l]
        /\ l \notin lanes => queue'[l] = q[l] /\ activeTaskIds'[l] = a[l]
  BY <1>1, PumpFills
<1>4. NoStrandedWork'
  BY <1>3 DEF NoStrandedWork
<1> QED
  BY <1>2, <1>4 DEF QueueInv

(***************************************************************************)
(* setCommandLaneConcurrency keeps the invariant: new slots are filled at  *)
(* once.                                                                   *)
(***************************************************************************)
LEMMA SetConcurrencyInv ==
  ASSUME QueueInv, NEW l \in Lanes, NEW m \in Limits, SetCommandLaneConcurrency(l, m)
  PROVE  QueueInv'
<1>1. maxConcurrent' \in [Lanes -> Nat \ {0}]
  BY QueueAssumption DEF QueueInv, SetCommandLaneConcurrency
<1>2. \A k \in Lanes \ {l} : maxConcurrent'[k] = maxConcurrent[k]
  BY DEF QueueInv, SetCommandLaneConcurrency
<1>3. Pump({l}, queue, activeTaskIds, maxConcurrent', phase, generation)
      /\ generation' = generation
  BY DEF SetCommandLaneConcurrency
<1> QED
  BY <1>1, <1>2, <1>3, StrandsNothing DEF QueueInv, NoStrandedWork

(***************************************************************************)
(* enqueueCommandInLane keeps the invariant: the new entry starts, or all  *)
(* slots of its lane are taken.                                            *)
(***************************************************************************)
LEMMA EnqueueInv ==
  ASSUME QueueInv, NEW t \in Tasks, EnqueueAccepted(t)
  PROVE  QueueInv'
<1> DEFINE q == [queue EXCEPT ![LaneOf[t]] = Append(@, t)]
           p == [phase EXCEPT ![t] = "queued"]
<1>1. LaneOf[t] \in Lanes
  BY QueueAssumption
<1>2. Coherent(q, activeTaskIds, p, startedIn, generation)
  BY EnqueueCoherent DEF EnqueueAccepted
<1>3. Pump({LaneOf[t]}, q, activeTaskIds, maxConcurrent', p, generation)
      /\ maxConcurrent' = maxConcurrent /\ generation' = generation
  BY DEF EnqueueAccepted
<1>4. \A l \in Lanes \ {LaneOf[t]} :
        q[l] # <<>> => Cardinality(activeTaskIds[l]) >= maxConcurrent'[l]
  BY <1>3 DEF QueueInv, NoStrandedWork, Coherent, Typed
<1> HIDE DEF q, p
<1> QED
  BY <1>1, <1>2, <1>3, <1>4, StrandsNothing DEF QueueInv

(***************************************************************************)
(* A completion of the current generation keeps the invariant: the freed   *)
(* slot is filled.                                                         *)
(***************************************************************************)
LEMMA CompleteInv ==
  ASSUME QueueInv, NEW t \in Tasks, NEW outcome \in Outcomes, CompleteCurrent(t, outcome)
  PROVE  QueueInv'
<1> DEFINE a == [activeTaskIds EXCEPT ![LaneOf[t]] = @ \ {t}]
           p == [phase EXCEPT ![t] = outcome]
<1>1. LaneOf[t] \in Lanes
  BY QueueAssumption
<1>2. Coherent(queue, a, p, startedIn, generation)
  BY CompleteCoherent DEF CompleteCurrent
<1>3. Pump({LaneOf[t]}, queue, a, maxConcurrent', p, generation)
      /\ maxConcurrent' = maxConcurrent /\ generation' = generation
  BY DEF CompleteCurrent
<1>4. \A l \in Lanes \ {LaneOf[t]} :
        queue[l] # <<>> => Cardinality(a[l]) >= maxConcurrent'[l]
  BY <1>3 DEF QueueInv, NoStrandedWork, Coherent, Typed
<1> HIDE DEF a, p
<1> QED
  BY <1>1, <1>2, <1>3, <1>4, StrandsNothing DEF QueueInv

(***************************************************************************)
(* resetAllLanes keeps the invariant: every lane with entries is pumped.   *)
(***************************************************************************)
LEMMA ResetInv ==
  ASSUME QueueInv, ResetAllLanes
  PROVE  QueueInv'
<1> DEFINE idle == [l \in Lanes |-> {}]
           lanes == {l \in Lanes : queue[l] # <<>>}
<1>1. Coherent(queue, idle, phase, startedIn, generation + 1)
  BY ResetCoherent
<1>2. Pump(lanes, queue, idle, maxConcurrent', phase, generation + 1)
      /\ maxConcurrent' = maxConcurrent /\ generation' = generation + 1
  BY DEF ResetAllLanes
<1>3. \A l \in Lanes \ lanes : queue[l] = <<>>
  OBVIOUS
<1>4. lanes \in SUBSET Lanes
  OBVIOUS
<1> HIDE DEF idle, lanes
<1> QED
  BY <1>1, <1>2, <1>3, <1>4, StrandsNothing DEF QueueInv

(***************************************************************************)
(* The handlers that settle promises without pumping.                      *)
(***************************************************************************)
LEMMA RefuseInv ==
  ASSUME QueueInv, NEW t \in Tasks, EnqueueRefused(t)
  PROVE  QueueInv'
<1> USE DEF QueueInv, Coherent, EnqueueRefused, laneVars
<1>1. Typed(queue, activeTaskIds, phase, startedIn, generation)'
  BY DEF Typed, Phases, Settled
<1>2. InQueue(queue, phase)'
  <2>1. \A l \in Lanes : \A i \in 1 .. Len(queue[l]) : queue[l][i] \in Tasks
    BY ElementOfSeq DEF Typed
  <2>2. queue' = queue /\ \A u \in Tasks : phase'[u] = "queued" <=> phase[u] = "queued"
    BY DEF Typed
  <2> QED
    BY <2>1, <2>2, QueueAssumption DEF InQueue
<1>3. Slots(activeTaskIds, phase, startedIn, generation)'
  BY DEF Slots, Typed
<1> QED
  BY <1>1, <1>2, <1>3 DEF Distinct, NoStrandedWork

(***************************************************************************)
(* A completion of an older generation keeps the invariant: it touches no  *)
(* slot.                                                                   *)
(***************************************************************************)
LEMMA StaleInv ==
  ASSUME QueueInv, NEW t \in Tasks, NEW outcome \in Outcomes, CompleteStale(t, outcome)
  PROVE  QueueInv'
<1> USE DEF QueueInv, Coherent, CompleteStale, laneVars
<1>1. outcome # "queued" /\ outcome # "running" /\ outcome \in Phases
  BY DEF Outcomes, Phases, Settled
<1>2. Typed(queue, activeTaskIds, phase, startedIn, generation)'
  BY <1>1 DEF Typed
<1>3. InQueue(queue, phase)'
  <2>1. \A l \in Lanes : \A i \in 1 .. Len(queue[l]) : queue[l][i] \in Tasks
    BY ElementOfSeq DEF Typed
  <2>2. queue' = queue /\ \A u \in Tasks : phase'[u] = "queued" <=> phase[u] = "queued"
    BY <1>1 DEF Typed
  <2> QED
    BY <2>1, <2>2, QueueAssumption DEF InQueue
<1>4. Slots(activeTaskIds, phase, startedIn, generation)'
  BY <1>1 DEF Slots, Typed
<1> QED
  BY <1>2, <1>3, <1>4 DEF Distinct, NoStrandedWork

(***************************************************************************)
(* clearCommandLane keeps the invariant: exactly the queued entries of the *)
(* lane are rejected.                                                      *)
(***************************************************************************)
LEMMA ClearInv ==
  ASSUME QueueInv, NEW l \in Lanes, ClearCommandLane(l)
  PROVE  QueueInv'
<1> DEFINE gone == {queue[l][i] : i \in 1 .. Len(queue[l])}
<1> USE DEF QueueInv, Coherent, ClearCommandLane
<1>1. phase' = [t \in Tasks |-> IF t \in gone THEN "cleared" ELSE phase[t]]
  BY DEF Front
<1>2. /\ queue'[l] = <<>> /\ Len(queue'[l]) = 0
      /\ \A k \in Lanes : k # l => queue'[k] = queue[k]
      /\ queue' \in [Lanes -> Seq(Tasks)]
  BY EmptySeq DEF Typed
<1>3. \A t \in gone : t \in Tasks /\ phase[t] = "queued" /\ LaneOf[t] = l
  BY ElementOfSeq DEF Typed, InQueue
<1>4. \A t \in Tasks : phase[t] = "queued" /\ LaneOf[t] = l => t \in gone
  BY DEF InQueue
<1> HIDE DEF gone
<1>5. Typed(queue, activeTaskIds, phase, startedIn, generation)'
  BY <1>1, <1>2 DEF Typed, Phases, Settled
<1>6. InQueue(queue, phase)'
  <2>1. \A k \in Lanes : \A i \in 1 .. Len(queue[k]) : queue[k][i] \in Tasks
    BY ElementOfSeq DEF Typed
  <2>2. ASSUME NEW k \in Lanes, NEW i \in 1 .. Len(queue'[k])
        PROVE  phase'[queue'[k][i]] = "queued" /\ LaneOf[queue'[k][i]] = k
    BY <1>1, <1>2, <1>3, <2>1 DEF InQueue
  <2>3. ASSUME NEW t \in Tasks, phase'[t] = "queued"
        PROVE  \E i \in 1 .. Len(queue'[LaneOf[t]]) : queue'[LaneOf[t]][i] = t
    <3>1. t \notin gone /\ phase[t] = "queued"
      BY <1>1, <2>3
    <3>2. LaneOf[t] # l /\ LaneOf[t] \in Lanes
      BY <1>4, <3>1, QueueAssumption
    <3> QED
      BY <1>2, <3>1, <3>2 DEF InQueue
  <2> QED
    BY <2>2, <2>3 DEF InQueue
<1>7. Slots(activeTaskIds, phase, startedIn, generation)'
  <2>1. \A t \in Tasks : phase'[t] = "running" <=> phase[t] = "running"
    BY <1>1, <1>3
  <2>2. UNCHANGED <<activeTaskIds, startedIn, generation>>
    OBVIOUS
  <2> QED
    BY <2>1, <2>2 DEF Slots
<1>8. Distinct(queue)'
  BY <1>2 DEF Distinct
<1>9. NoStrandedWork'
  BY <1>2 DEF NoStrandedWork
<1> QED
  BY <1>5, <1>6, <1>7, <1>8, <1>9
-----------------------------------------------------------------------------
(***************************************************************************)
(* Every step of the command queue keeps the invariant.                    *)
(***************************************************************************)
LEMMA NextInv == QueueInv /\ [Next]_queueVars => QueueInv'
<1> SUFFICES ASSUME QueueInv, [Next]_queueVars PROVE QueueInv'
  OBVIOUS
<1>1. CASE MarkGatewayDraining
  BY <1>1 DEF MarkGatewayDraining, QueueInv, Coherent, Typed, InQueue, Distinct, Slots,
     NoStrandedWork, laneVars, taskVars
<1>2. CASE \E l \in Lanes, m \in Limits : SetCommandLaneConcurrency(l, m)
  BY <1>2, SetConcurrencyInv
<1>3. CASE \E t \in Tasks : EnqueueCommandInLane(t)
  BY <1>3, EnqueueInv, RefuseInv DEF EnqueueCommandInLane
<1>4. CASE \E t \in Tasks : Complete(t)
  BY <1>4, CompleteInv, StaleInv DEF Complete
<1>5. CASE \E l \in Lanes : ClearCommandLane(l)
  BY <1>5, ClearInv
<1>6. CASE ResetAllLanes
  BY <1>6, ResetInv
<1>7. CASE \E w \in Waiters, hasTimeout \in BOOLEAN : WaitForActiveTasks(w, hasTimeout)
  BY <1>7 DEF WaitForActiveTasks, QueueInv, Coherent, Typed, InQueue, Distinct, Slots,
     NoStrandedWork, laneVars, taskVars
<1>8. CASE \E w \in Waiters : WaiterTimeout(w)
  BY <1>8 DEF WaiterTimeout, QueueInv, Coherent, Typed, InQueue, Distinct, Slots,
     NoStrandedWork, laneVars, taskVars
<1>9. CASE UNCHANGED queueVars
  BY <1>9 DEF queueVars, QueueInv, Coherent, Typed, InQueue, Distinct, Slots,
     NoStrandedWork, laneVars, taskVars
<1> QED
  BY <1>1, <1>2, <1>3, <1>4, <1>5, <1>6, <1>7, <1>8, <1>9 DEF Next

(***************************************************************************)
(* The inductive invariant holds in every behaviour.                       *)
(***************************************************************************)
THEOREM QueueInvariant == Spec => []QueueInv
  BY InitInv, NextInv, PTL DEF Spec

(***************************************************************************)
(* No lane ever leaves an entry queued while it has a free slot, for any   *)
(* lanes, limits and tasks: NoStrandedWork of command-queue.ts.            *)
(***************************************************************************)
THEOREM NothingStranded == Spec => []NoStrandedWork
<1>1. QueueInv => NoStrandedWork
  BY DEF QueueInv
<1> QED
  BY <1>1, QueueInvariant, PTL

(***************************************************************************)
(* The slots of every lane are exactly the executing entries of the        *)
(* current generation: no leaked slot, and none freed by a late            *)
(* completion.                                                             *)
(***************************************************************************)
THEOREM SlotsExact == Spec => []SlotsMatchRunning
<1>1. QueueInv => SlotsMatchRunning
  BY DEF QueueInv, Coherent, Slots, SlotsMatchRunning
<1> QED
  BY <1>1, QueueInvariant, PTL
-----------------------------------------------------------------------------
(***************************************************************************)
(* The variables that QueueInv does not mention keep their types.          *)
(***************************************************************************)
WaiterRecords == [answer : Answers \cup {"idle", "waiting"}, tasks : SUBSET Tasks]

(***************************************************************************)
(* notifyActiveTaskWaiters leaves records of waiters.                      *)
(***************************************************************************)
LEMMA NotifiedType ==
  ASSUME waiter \in [Waiters -> WaiterRecords], NEW a
  PROVE  Notified(a) \in [Waiters -> WaiterRecords]
<1> SUFFICES ASSUME NEW w \in Waiters
             PROVE  Notified(a)[w] \in WaiterRecords
  BY DEF Notified
<1> QED
  BY DEF Notified, WaiterRecords, Answers

(***************************************************************************)
(* Every step keeps the types of the draining flag and of the waiters.     *)
(***************************************************************************)
LEMMA NextType ==
  ASSUME QueueInv, gatewayDraining \in BOOLEAN, waiter \in [Waiters -> WaiterRecords],
         [Next]_queueVars
  PROVE  gatewayDraining' \in BOOLEAN /\ waiter' \in [Waiters -> WaiterRecords]
<1>1. CASE MarkGatewayDraining
  BY <1>1 DEF MarkGatewayDraining
<1>2. CASE \E l \in Lanes, m \in Limits : SetCommandLaneConcurrency(l, m)
  BY <1>2 DEF SetCommandLaneConcurrency
<1>3. CASE \E t \in Tasks : EnqueueCommandInLane(t)
  BY <1>3 DEF EnqueueCommandInLane, EnqueueAccepted, EnqueueRefused
<1>4. CASE \E t \in Tasks : Complete(t)
  BY <1>4, NotifiedType DEF Complete, CompleteCurrent, CompleteStale
<1>5. CASE \E l \in Lanes : ClearCommandLane(l)
  BY <1>5 DEF ClearCommandLane
<1>6. CASE ResetAllLanes
  BY <1>6, NotifiedType DEF ResetAllLanes
<1>7. ASSUME NEW w \in Waiters, NEW hasTimeout \in BOOLEAN, WaitForActiveTasks(w, hasTimeout)
      PROVE  gatewayDraining' \in BOOLEAN /\ waiter' \in [Waiters -> WaiterRecords]
  <2>1. Pending(activeTaskIds) \in SUBSET Tasks
    BY DEF Pending, QueueInv, Coherent, Typed
  <2> QED
    BY <1>7, <2>1 DEF WaitForActiveTasks, WaiterRecords, Answers
<1>8. ASSUME NEW w \in Waiters, WaiterTimeout(w)
      PROVE  gatewayDraining' \in BOOLEAN /\ waiter' \in [Waiters -> WaiterRecords]
  BY <1>8 DEF WaiterTimeout, WaiterRecords, Answers
<1>9. CASE UNCHANGED queueVars
  BY <1>9 DEF queueVars
<1> QED
  BY <1>1, <1>2, <1>3, <1>4, <1>5, <1>6, <1>7, <1>8, <1>9 DEF Next

(***************************************************************************)
(* Type correctness of the command queue's state.                          *)
(***************************************************************************)
THEOREM TypeCorrect == Spec => []TypeOK
<1> DEFINE Rest == gatewayDraining \in BOOLEAN /\ waiter \in [Waiters -> WaiterRecords]
<1>1. Init => Rest
  <2>1. [answer |-> "idle", tasks |-> {}] \in WaiterRecords
    BY DEF WaiterRecords
  <2> QED
    BY <2>1 DEF Init
<1>2. QueueInv /\ Rest /\ [Next]_queueVars => Rest'
  BY NextType
<1>3. QueueInv /\ Rest => TypeOK
  BY DEF QueueInv, Coherent, Typed, TypeOK, WaiterRecords
<1> HIDE DEF Rest
<1> QED
  BY <1>1, <1>2, <1>3, QueueInvariant, PTL DEF Spec
-----------------------------------------------------------------------------
(***************************************************************************)
(* What a step does to a promise: pumping starts queued entries only.      *)
(***************************************************************************)
LEMMA PumpPromises ==
  ASSUME NEW lanes \in SUBSET Lanes, NEW q, NEW a, NEW m \in [Lanes -> Nat],
         NEW p, NEW g,
         Coherent(q, a, p, startedIn, g),
         Pump(lanes, q, a, m, p, g)
  PROVE  \A t \in Tasks : p[t] # "queued" => phase'[t] = p[t]
<1>1. \A l \in Lanes : Moves(q, a, p, g, N(lanes, q, a, m, l), l)
  BY PumpMoves
<1>2. \A t \in Tasks : p[t] # "queued" =>
        t \notin Front(q[LaneOf[t]], N(lanes, q, a, m, LaneOf[t]))
  BY <1>1, QueueAssumption DEF Moves
<1> QED
  BY <1>2, PumpLeaves

(***************************************************************************)
(* No handler touches a settled promise: the pump starts queued entries    *)
(* only, and completions and clears settle running and queued ones.        *)
(***************************************************************************)
LEMMA SettledStays ==
  ASSUME QueueInv, [Next]_queueVars, NEW t \in Tasks, phase[t] \in Settled
  PROVE  phase'[t] = phase[t]
<1>0. /\ phase[t] \notin {"new", "queued", "running"}
      /\ phase \in [Tasks -> Phases]
      /\ maxConcurrent \in [Lanes -> Nat]
      /\ Coherent(queue, activeTaskIds, phase, startedIn, generation)
  BY DEF Settled, Outcomes, QueueInv, Coherent, Typed
<1>1. CASE MarkGatewayDraining
  BY <1>1 DEF MarkGatewayDraining, taskVars
<1>2. ASSUME NEW l \in Lanes, NEW m \in Limits, SetCommandLaneConcurrency(l, m)
      PROVE  phase'[t] = phase[t]
  <2>1. maxConcurrent' \in [Lanes -> Nat]
    BY <1>2, QueueAssumption DEF QueueInv, SetCommandLaneConcurrency
  <2>2. Pump({l}, queue, activeTaskIds, maxConcurrent', phase, generation)
    BY <1>2 DEF SetCommandLaneConcurrency
  <2> QED
    BY <1>0, <2>1, <2>2, PumpPromises
<1>3. ASSUME NEW u \in Tasks, EnqueueAccepted(u)
      PROVE  phase'[t] = phase[t]
  <2> DEFINE q == [queue EXCEPT ![LaneOf[u]] = Append(@, u)]
             p == [phase EXCEPT ![u] = "queued"]
  <2>1. Coherent(q, activeTaskIds, p, startedIn, generation)
    BY <1>3, EnqueueCoherent DEF EnqueueAccepted
  <2>2. Pump({LaneOf[u]}, q, activeTaskIds, maxConcurrent, p, generation)
    BY <1>3 DEF EnqueueAccepted
  <2>3. p[t] = phase[t]
    BY <1>0, <1>3 DEF EnqueueAccepted
  <2>4. {LaneOf[u]} \in SUBSET Lanes
    BY QueueAssumption
  <2> HIDE DEF q, p
  <2> QED
    BY <1>0, <2>1, <2>2, <2>3, <2>4, PumpPromises
<1>4. ASSUME NEW u \in Tasks, EnqueueRefused(u)
      PROVE  phase'[t] = phase[t]
  BY <1>0, <1>4 DEF EnqueueRefused
<1>5. ASSUME NEW u \in Tasks, NEW outcome \in Outcomes, CompleteCurrent(u, outcome)
      PROVE  phase'[t] = phase[t]
  <2> DEFINE a == [activeTaskIds EXCEPT ![LaneOf[u]] = @ \ {u}]
             p == [phase EXCEPT ![u] = outcome]
  <2>1. Coherent(queue, a, p, startedIn, generation)
    BY <1>5, CompleteCoherent DEF CompleteCurrent
  <2>2. Pump({LaneOf[u]}, queue, a, maxConcurrent, p, generation)
    BY <1>5 DEF CompleteCurrent
  <2>3. p[t] = phase[t]
    BY <1>0, <1>5 DEF CompleteCurrent
  <2>4. {LaneOf[u]} \in SUBSET Lanes
    BY QueueAssumption
  <2> HIDE DEF a, p
  <2> QED
    BY <1>0, <2>1, <2>2, <2>3, <2>4, PumpPromises
<1>6. ASSUME NEW u \in Tasks, NEW outcome \in Outcomes, CompleteStale(u, outcome)
      PROVE  phase'[t] = phase[t]
  BY <1>0, <1>6 DEF CompleteStale
<1>7. ASSUME NEW l \in Lanes, ClearCommandLane(l)
      PROVE  phase'[t] = phase[t]
  <2>1. t \notin Front(queue[l], Len(queue[l]))
    BY <1>0 DEF Coherent, InQueue, Front
  <2> QED
    BY <1>7, <2>1 DEF ClearCommandLane
<1>8. CASE ResetAllLanes
  <2> DEFINE idle == [l \in Lanes |-> {}]
             lanes == {l \in Lanes : queue[l] # <<>>}
  <2>1. Coherent(queue, idle, phase, startedIn, generation + 1)
    BY ResetCoherent
  <2>2. Pump(lanes, queue, idle, maxConcurrent, phase, generation + 1)
    BY <1>8 DEF ResetAllLanes
  <2>3. lanes \in SUBSET Lanes
    OBVIOUS
  <2> HIDE DEF idle, lanes
  <2> QED
    BY <1>0, <2>1, <2>2, <2>3, PumpPromises
<1>9. CASE \E w \in Waiters, hasTimeout \in BOOLEAN : WaitForActiveTasks(w, hasTimeout)
  BY <1>9 DEF WaitForActiveTasks, taskVars
<1>10. CASE \E w \in Waiters : WaiterTimeout(w)
  BY <1>10 DEF WaiterTimeout, taskVars
<1>11. CASE UNCHANGED queueVars
  BY <1>11 DEF queueVars, taskVars
<1> QED
  BY <1>1, <1>2, <1>3, <1>4, <1>5, <1>6, <1>7, <1>8, <1>9, <1>10, <1>11
     DEF Next, EnqueueCommandInLane, Complete

(***************************************************************************)
(* A caller's promise settles at most once, and a refused or cleared entry *)
(* never runs.                                                             *)
(***************************************************************************)
THEOREM PromisesSettleOnce == Spec => SettlesOnce
<1>1. QueueInv /\ [Next]_queueVars =>
        [\A t \in Tasks : phase[t] \in Settled => phase'[t] = phase[t]]_queueVars
  BY SettledStays
<1> QED
  BY <1>1, QueueInvariant, PTL DEF Spec, SettlesOnce
-----------------------------------------------------------------------------
(***************************************************************************)
(* What callers and waiters may rely on. A step of the queue either leaves *)
(* slots and generation alone, or pumps an edited state that is coherent   *)
(* (StepShape); each theorem looks at these two kinds of steps instead of  *)
(* the handlers.                                                           *)
(***************************************************************************)
(***************************************************************************)
(* The states of a promise whose entry has left the queue.                 *)
(***************************************************************************)
Started == Settled \cup {"running"}

(***************************************************************************)
(* A step that leaves the slots and the generation alone. A waiter may     *)
(* take its snapshot, or be told that its time is over.                    *)
(***************************************************************************)
Still ==
  /\ UNCHANGED <<activeTaskIds, startedIn, generation>>
  /\ \A t \in Tasks : phase[t] \in Started => phase'[t] \in Started
  /\ \A t \in Tasks : phase'[t] = "running" => phase[t] = "running"
  /\ \A w \in Waiters :
       \/ waiter'[w] = waiter[w]
       \/ /\ waiter'[w].tasks = Pending(activeTaskIds)
          /\ waiter'[w].answer = "drained" => Pending(activeTaskIds) = {}
          /\ waiter'[w].answer = "waiting" => Pending(activeTaskIds) # {}
       \/ waiter'[w].tasks = waiter[w].tasks /\ waiter'[w].answer = "timedOut"

(***************************************************************************)
(* A step that pumps. The edit takes no slot, starts no task and only adds *)
(* to the queues, and the waiters are told when slots were freed.          *)
(***************************************************************************)
Pumped(lanes, q, a, p, g) ==
  /\ Coherent(q, a, p, startedIn, g)
  /\ Pump(lanes, q, a, maxConcurrent', p, g)
  /\ generation' = g
  /\ generation <= g
  /\ \A l \in Lanes : a[l] \subseteq activeTaskIds[l]
  /\ \A l \in Lanes : \A i \in 1 .. Len(queue[l]) :
       i \in 1 .. Len(q[l]) /\ q[l][i] = queue[l][i]
  /\ \A t \in Tasks : /\ phase[t] \in Started => p[t] \in Started
                      /\ p[t] = "running" => phase[t] = "running"
  /\ \/ waiter' = waiter /\ a = activeTaskIds
     \/ waiter' = Notified(a)
     \/ waiter' = Notified(activeTaskIds')

Shape ==
  \/ Still
  \/ \E lanes \in SUBSET Lanes : \E q, a, p, g : Pumped(lanes, q, a, p, g)

(***************************************************************************)
(* Every step of the queue is still or pumps.                              *)
(***************************************************************************)
LEMMA StepShape ==
  ASSUME QueueInv, [Next]_queueVars
  PROVE  Shape /\ maxConcurrent' \in [Lanes -> Nat]
<1>0. /\ phase \in [Tasks -> Phases]
      /\ activeTaskIds \in [Lanes -> SUBSET Tasks]
      /\ generation \in Nat
      /\ Coherent(queue, activeTaskIds, phase, startedIn, generation)
      /\ \A u \in Tasks : phase[u] \in {"new", "queued"} => phase[u] \notin Started
  BY DEF QueueInv, Coherent, Typed, Started, Settled, Outcomes
<1>1. maxConcurrent' \in [Lanes -> Nat]
  BY NextInv DEF QueueInv
<1>2. ASSUME NEW l \in Lanes, NEW m \in Limits, SetCommandLaneConcurrency(l, m)
      PROVE  Shape
  <2>1. Pumped({l}, queue, activeTaskIds, phase, generation)
    BY <1>0, <1>2 DEF SetCommandLaneConcurrency, Pumped
  <2> QED
    BY <2>1 DEF Shape
<1>3. ASSUME NEW u \in Tasks, EnqueueAccepted(u)
      PROVE  Shape
  <2> DEFINE q == [queue EXCEPT ![LaneOf[u]] = Append(@, u)]
             p == [phase EXCEPT ![u] = "queued"]
  <2>1. Coherent(q, activeTaskIds, p, startedIn, generation)
    BY <1>3, EnqueueCoherent DEF EnqueueAccepted
  <2>2. \A t \in Tasks : /\ phase[t] \in Started => p[t] \in Started
                         /\ p[t] = "running" => phase[t] = "running"
    BY <1>0, <1>3 DEF EnqueueAccepted
  <2>3. /\ Pump({LaneOf[u]}, q, activeTaskIds, maxConcurrent', p, generation)
        /\ UNCHANGED <<generation, waiter>>
    BY <1>3 DEF EnqueueAccepted
  <2>4. {LaneOf[u]} \in SUBSET Lanes
    BY QueueAssumption
  <2>5. \A l \in Lanes : \A i \in 1 .. Len(queue[l]) :
          i \in 1 .. Len(q[l]) /\ q[l][i] = queue[l][i]
    <3>1. \A l \in Lanes : queue[l] \in Seq(Tasks) /\ Len(queue[l]) \in Nat
      BY <1>0, LenProperties DEF Coherent, Typed
    <3>2. /\ Len(q[LaneOf[u]]) = Len(queue[LaneOf[u]]) + 1
          /\ \A i \in 1 .. Len(queue[LaneOf[u]]) : q[LaneOf[u]][i] = queue[LaneOf[u]][i]
          /\ \A l \in Lanes : l # LaneOf[u] => q[l] = queue[l]
      BY <1>0, <3>1, AppendProperties, QueueAssumption DEF Coherent, Typed
    <3> HIDE DEF q
    <3> QED
      BY <3>1, <3>2
  <2> HIDE DEF q, p
  <2>6. Pumped({LaneOf[u]}, q, activeTaskIds, p, generation)
    BY <1>0, <2>1, <2>2, <2>3, <2>5 DEF Pumped
  <2> QED
    BY <2>4, <2>6 DEF Shape
<1>4. ASSUME NEW u \in Tasks, NEW outcome \in Outcomes, CompleteCurrent(u, outcome)
      PROVE  Shape
  <2> DEFINE a == [activeTaskIds EXCEPT ![LaneOf[u]] = @ \ {u}]
             p == [phase EXCEPT ![u] = outcome]
  <2>1. Coherent(queue, a, p, startedIn, generation)
    BY <1>4, CompleteCoherent DEF CompleteCurrent
  <2>2. \A t \in Tasks : /\ phase[t] \in Started => p[t] \in Started
                         /\ p[t] = "running" => phase[t] = "running"
    BY <1>0 DEF Started, Settled, Outcomes
  <2>3. /\ Pump({LaneOf[u]}, queue, a, maxConcurrent', p, generation)
        /\ generation' = generation
        /\ waiter' = Notified(a)
    BY <1>4 DEF CompleteCurrent
  <2>4. {LaneOf[u]} \in SUBSET Lanes
    BY QueueAssumption
  <2>5. \A l \in Lanes : a[l] \subseteq activeTaskIds[l]
    BY <1>0
  <2> HIDE DEF a, p
  <2>6. Pumped({LaneOf[u]}, queue, a, p, generation)
    BY <1>0, <2>1, <2>2, <2>3, <2>5 DEF Pumped
  <2> QED
    BY <2>4, <2>6 DEF Shape
<1>5. ASSUME ResetAllLanes
      PROVE  Shape
  <2> DEFINE idle == [l \in Lanes |-> {}]
             lanes == {l \in Lanes : queue[l] # <<>>}
  <2>1. Coherent(queue, idle, phase, startedIn, generation + 1)
    BY ResetCoherent
  <2>2. /\ Pump(lanes, queue, idle, maxConcurrent', phase, generation + 1)
        /\ generation' = generation + 1
        /\ waiter' = Notified(activeTaskIds')
    BY <1>5 DEF ResetAllLanes
  <2>3. lanes \in SUBSET Lanes /\ \A l \in Lanes : idle[l] \subseteq activeTaskIds[l]
    OBVIOUS
  <2> HIDE DEF idle, lanes
  <2>4. Pumped(lanes, queue, idle, phase, generation + 1)
    BY <1>0, <2>1, <2>2, <2>3 DEF Pumped
  <2> QED
    BY <2>3, <2>4 DEF Shape
<1>6. ASSUME NEW u \in Tasks, EnqueueRefused(u) PROVE Still
  BY <1>0, <1>6 DEF Still, EnqueueRefused, laneVars
<1>7. ASSUME NEW u \in Tasks, NEW outcome \in Outcomes, CompleteStale(u, outcome)
      PROVE  Still
  <2>1. \A t \in Tasks : phase[t] \in Started => phase'[t] \in Started
    BY <1>0, <1>7 DEF CompleteStale, Started, Settled
  <2> QED
    BY <1>7, <2>1 DEF Still, CompleteStale, laneVars
<1>8. ASSUME NEW l \in Lanes, ClearCommandLane(l) PROVE Still
  <2>1. \A t \in Tasks : phase[t] \in Started => phase'[t] \in Started
    BY <1>0, <1>8 DEF ClearCommandLane, Started, Settled
  <2> QED
    BY <1>8, <2>1 DEF Still, ClearCommandLane
<1>9. ASSUME NEW v \in Waiters, NEW hasTimeout \in BOOLEAN, WaitForActiveTasks(v, hasTimeout)
      PROVE  Still
  <2> DEFINE now == Pending(activeTaskIds)
             new == [tasks |-> now, answer |-> IF now = {} THEN "drained"
                                               ELSE IF hasTimeout THEN "waiting" ELSE "timedOut"]
  <2>1. waiter' = [waiter EXCEPT ![v] = new]
    BY <1>9 DEF WaitForActiveTasks
  <2>2. /\ new.tasks = now
        /\ new.answer = "drained" => now = {}
        /\ new.answer = "waiting" => now # {}
    OBVIOUS
  <2>3. UNCHANGED <<activeTaskIds, startedIn, generation, phase>>
    BY <1>9 DEF WaitForActiveTasks, laneVars, taskVars
  <2> HIDE DEF new, now
  <2>4. \A w \in Waiters : waiter'[w] = waiter[w] \/ waiter'[w] = new
    BY <2>1
  <2> QED
    BY <2>2, <2>3, <2>4 DEF Still, now
<1>10. ASSUME NEW v \in Waiters, WaiterTimeout(v)
       PROVE  Still
  <2>1. waiter' = [waiter EXCEPT ![v] = [waiter[v] EXCEPT !.answer = "timedOut"]]
    BY <1>10 DEF WaiterTimeout
  <2>2. UNCHANGED <<activeTaskIds, startedIn, generation, phase>>
    BY <1>10 DEF WaiterTimeout, laneVars, taskVars
  <2> QED
    BY <2>1, <2>2 DEF Still
<1>11. ASSUME MarkGatewayDraining \/ UNCHANGED queueVars PROVE Still
  BY <1>11 DEF Still, MarkGatewayDraining, queueVars, laneVars, taskVars
<1> QED
  BY <1>1, <1>2, <1>3, <1>4, <1>5, <1>6, <1>7, <1>8, <1>9, <1>10, <1>11
     DEF Shape, Next, EnqueueCommandInLane, Complete
-----------------------------------------------------------------------------
(***************************************************************************)
(* A step that is still or pumps starts entries of a lane only up to its   *)
(* limit.                                                                  *)
(***************************************************************************)
WithinLimit ==
  \A l \in Lanes :
    activeTaskIds'[l] \ activeTaskIds[l] # {} =>
      Cardinality(activeTaskIds'[l]) <= maxConcurrent'[l]

LEMMA ShapeAdmits ==
  ASSUME Shape, maxConcurrent' \in [Lanes -> Nat]
  PROVE  WithinLimit
<1>1. CASE Still
  BY <1>1 DEF Still, WithinLimit
<1>2. ASSUME NEW lanes \in SUBSET Lanes, NEW q, NEW a, NEW p, NEW g,
             Pumped(lanes, q, a, p, g)
      PROVE  WithinLimit
  <2>1. \A l \in Lanes :
          activeTaskIds'[l] # a[l] => Cardinality(activeTaskIds'[l]) <= maxConcurrent'[l]
    BY <1>2, PumpFills DEF Pumped
  <2>2. \A l \in Lanes : a[l] \subseteq activeTaskIds[l]
    BY <1>2 DEF Pumped
  <2> QED
    BY <2>1, <2>2 DEF WithinLimit
<1> QED
  BY <1>1, <1>2 DEF Shape

(***************************************************************************)
(* The pump never fills a lane beyond its limit, however limits shrink and *)
(* generations change under it.                                            *)
(***************************************************************************)
THEOREM AdmissionBounded == Spec => AdmissionWithinLimit
<1>1. QueueInv /\ [Next]_queueVars => [WithinLimit]_queueVars
  BY StepShape, ShapeAdmits
<1> QED
  BY <1>1, QueueInvariant, PTL DEF Spec, AdmissionWithinLimit, WithinLimit
-----------------------------------------------------------------------------
(***************************************************************************)
(* A queue without repetitions that holds the queued promises of its lane  *)
(* and nothing else holds each of them at one place.                       *)
(***************************************************************************)
LEMMA QueueHolds == QueueInv => QueueHoldsPromises
<1> SUFFICES ASSUME QueueInv, NEW t \in Tasks, NEW l \in Lanes
             PROVE  Cardinality({i \in 1 .. Len(queue[l]) : queue[l][i] = t}) =
                      IF phase[t] = "queued" /\ LaneOf[t] = l THEN 1 ELSE 0
  BY DEF QueueHoldsPromises
<1> DEFINE places == {i \in 1 .. Len(queue[l]) : queue[l][i] = t}
<1>1. CASE phase[t] = "queued" /\ LaneOf[t] = l
  <2>1. PICK i \in 1 .. Len(queue[l]) : queue[l][i] = t
    BY <1>1 DEF QueueInv, Coherent, InQueue
  <2>2. places = {i}
    BY <2>1 DEF QueueInv, Coherent, Distinct
  <2> QED
    BY <1>1, <2>2, FS_Singleton
<1>2. CASE ~(phase[t] = "queued" /\ LaneOf[t] = l)
  <2>1. places = {}
    BY <1>2 DEF QueueInv, Coherent, InQueue
  <2> QED
    BY <1>2, <2>1, FS_EmptySet
<1> QED
  BY <1>1, <1>2

(***************************************************************************)
(* Every waiting promise is in its lane's queue, once, and queues hold     *)
(* nothing else.                                                           *)
(***************************************************************************)
THEOREM PromisesQueued == Spec => []QueueHoldsPromises
BY QueueHolds, QueueInvariant, PTL

(***************************************************************************)
(* What the inductive invariant of the queue promises its clients, under   *)
(* whatever specification it is shown to hold.                             *)
(***************************************************************************)
LEMMA QueuePromises ==
  QueueInv => NoStrandedWork /\ SlotsMatchRunning /\ QueueHoldsPromises
BY QueueHolds DEF QueueInv, Coherent, Slots, SlotsMatchRunning
-----------------------------------------------------------------------------
(***************************************************************************)
(* Pumping leaves a started entry alone and frees no slot.                 *)
(***************************************************************************)
LEMMA PumpKeepsStarted ==
  ASSUME QueueInv, [Next]_queueVars,
         NEW lanes \in SUBSET Lanes, NEW q, NEW a, NEW p, NEW g, Pumped(lanes, q, a, p, g)
  PROVE  /\ \A t \in Tasks : phase[t] \in Started =>
              phase'[t] = p[t] /\ p[t] \in Started /\ startedIn'[t] = startedIn[t]
         /\ Pending(a) \subseteq Pending(activeTaskIds')
<1>1. maxConcurrent' \in [Lanes -> Nat]
  BY StepShape
<1>2. Coherent(q, a, p, startedIn, g) /\ Pump(lanes, q, a, maxConcurrent', p, g)
  BY DEF Pumped
<1>3. \A l \in Lanes : Moves(q, a, p, g, N(lanes, q, a, maxConcurrent', l), l)
  BY <1>1, <1>2, PumpMoves
<1>4. ASSUME NEW t \in Tasks, phase[t] \in Started
      PROVE  phase'[t] = p[t] /\ p[t] \in Started /\ startedIn'[t] = startedIn[t]
  <2>1. p[t] \in Started
    BY <1>4 DEF Pumped
  <2>2. p[t] # "queued"
    BY <2>1 DEF Started, Settled, Outcomes
  <2>3. t \notin Front(q[LaneOf[t]], N(lanes, q, a, maxConcurrent', LaneOf[t]))
    BY <1>3, <2>2, QueueAssumption DEF Moves
  <2> QED
    BY <1>1, <1>2, <2>1, <2>3, PumpLeaves
<1>5. Pending(a) \subseteq Pending(activeTaskIds')
  BY <1>3 DEF Moves, Pending
<1> QED
  BY <1>4, <1>5

(***************************************************************************)
(* The invariant about waiters: a snapshot holds started entries only, so  *)
(* that nothing but a reset can take a running one out of its slot.        *)
(***************************************************************************)
WaiterInv ==
  /\ waiter \in [Waiters -> WaiterRecords]
  /\ \A w \in Waiters : waiter[w].tasks \subseteq {t \in Tasks : phase[t] \in Started}
  /\ WaitersNotMissed
  /\ DrainedMeansSettled

(***************************************************************************)
(* A step that leaves the slots alone keeps the invariant about waiters.   *)
(***************************************************************************)
LEMMA StillKeepsWaiters ==
  ASSUME QueueInv, WaiterInv, [Next]_queueVars, Still,
         waiter' \in [Waiters -> WaiterRecords]
  PROVE  WaiterInv'
<1>1. Pending(activeTaskIds) \subseteq {t \in Tasks : phase[t] \in Started}
  BY DEF QueueInv, Coherent, Typed, Slots, Pending, Started
<1>2. Pending(activeTaskIds)' = Pending(activeTaskIds)
  BY DEF Still
<1>3. ASSUME NEW w \in Waiters
      PROVE  /\ waiter'[w].tasks \subseteq {t \in Tasks : phase'[t] \in Started}
             /\ waiter'[w].answer = "waiting" =>
                  waiter'[w].tasks \cap Pending(activeTaskIds) # {}
             /\ waiter'[w].answer = "drained" =>
                  \A t \in waiter'[w].tasks :
                    phase'[t] \in Settled \/ (phase'[t] = "running" /\ startedIn[t] < generation)
  <2>1. waiter'[w].tasks \subseteq {t \in Tasks : phase'[t] \in Started}
    BY <1>1 DEF Still, WaiterInv
  <2>2. CASE waiter'[w] = waiter[w]
    <3>1. ASSUME waiter[w].answer = "drained", NEW t \in waiter[w].tasks
          PROVE  phase'[t] \in Settled \/ (phase'[t] = "running" /\ startedIn[t] < generation)
      <4>1. CASE phase[t] \in Settled
        BY <2>1, <2>2, <3>1, <4>1, SettledStays
      <4>2. CASE phase[t] \notin Settled
        <5>1. startedIn[t] < generation
          BY <3>1, <4>2 DEF WaiterInv, DrainedMeansSettled
        <5>2. phase'[t] \in Started
          BY <2>1, <2>2, <3>1
        <5> QED
          BY <5>1, <5>2 DEF Started
      <4> QED
        BY <4>1, <4>2
    <3> QED
      BY <2>1, <2>2, <3>1 DEF WaiterInv, WaitersNotMissed
  <2>3. CASE /\ waiter'[w].tasks = Pending(activeTaskIds)
             /\ waiter'[w].answer = "drained" => Pending(activeTaskIds) = {}
             /\ waiter'[w].answer = "waiting" => Pending(activeTaskIds) # {}
    BY <2>1, <2>3
  <2>4. CASE waiter'[w].tasks = waiter[w].tasks /\ waiter'[w].answer = "timedOut"
    BY <2>1, <2>4
  <2> QED
    BY <2>2, <2>3, <2>4 DEF Still
<1> QED
  BY <1>2, <1>3 DEF WaiterInv, WaitersNotMissed, DrainedMeansSettled, Still

(***************************************************************************)
(* A step that pumps keeps the invariant about waiters: who is told has    *)
(* nothing left to wait for, and who is not told still has.                *)
(***************************************************************************)
LEMMA PumpedKeepsWaiters ==
  ASSUME QueueInv, WaiterInv, [Next]_queueVars,
         NEW lanes \in SUBSET Lanes, NEW q, NEW a, NEW p, NEW g, Pumped(lanes, q, a, p, g),
         waiter' \in [Waiters -> WaiterRecords]
  PROVE  WaiterInv'
<1>1. \A t \in Tasks : phase[t] \in Started =>
        phase'[t] = p[t] /\ phase'[t] \in Started /\ startedIn'[t] = startedIn[t]
  BY PumpKeepsStarted
<1>2. Pending(a) \subseteq Pending(activeTaskIds')
  BY PumpKeepsStarted
<1>3. generation' = g /\ generation <= g /\ generation \in Nat /\ g \in Nat
  BY DEF Pumped, QueueInv, Coherent, Typed
<1>4. \A t \in Tasks : p[t] = "running" /\ t \notin Pending(a) => startedIn[t] < g
  <2> SUFFICES ASSUME NEW t \in Tasks, p[t] = "running", t \notin Pending(a)
               PROVE  startedIn[t] < g
    OBVIOUS
  <2>1. startedIn[t] \in Nat /\ startedIn[t] <= g
    BY DEF Pumped, Coherent, Typed
  <2>2. startedIn[t] # g
    BY QueueAssumption DEF Pumped, Coherent, Slots, Pending
  <2> QED
    BY <1>3, <2>1, <2>2
<1>5. ASSUME NEW b, Pending(a) \subseteq Pending(b), Pending(b) \subseteq Pending(activeTaskIds'),
             waiter' = Notified(b) \/ (waiter' = waiter /\ b = activeTaskIds),
             NEW w \in Waiters
      PROVE  /\ waiter'[w].tasks \subseteq {t \in Tasks : phase'[t] \in Started}
             /\ waiter'[w].answer = "waiting" =>
                  waiter'[w].tasks \cap Pending(activeTaskIds') # {}
             /\ waiter'[w].answer = "drained" =>
                  \A t \in waiter'[w].tasks :
                    phase'[t] \in Settled \/ (phase'[t] = "running" /\ startedIn'[t] < generation')
  <2>1. waiter[w] \in WaiterRecords
    BY DEF WaiterInv
  <2>2. waiter'[w].tasks = waiter[w].tasks
    BY <1>5, <2>1 DEF Notified, WaiterRecords
  <2>3. \A t \in waiter[w].tasks : t \in Tasks /\ phase[t] \in Started
    BY DEF WaiterInv
  <2>4. waiter'[w].answer = "waiting" => waiter[w].tasks \cap Pending(b) # {}
    BY <1>5, <2>1 DEF Notified, WaiterRecords, WaiterInv, WaitersNotMissed
  <2>5. waiter'[w].answer = "drained" =>
          waiter[w].answer = "drained" \/ waiter[w].tasks \cap Pending(b) = {}
    BY <1>5, <2>1 DEF Notified, WaiterRecords
  <2>6. ASSUME waiter[w].answer = "drained", NEW t \in waiter[w].tasks
        PROVE  phase'[t] \in Settled \/ (phase'[t] = "running" /\ startedIn'[t] < generation')
    <3>1. CASE phase[t] \in Settled
      BY <2>3, <2>6, <3>1, SettledStays
    <3>2. CASE phase[t] \notin Settled
      <4>1. startedIn[t] < generation
        BY <2>6, <3>2 DEF WaiterInv, DrainedMeansSettled
      <4>2. startedIn'[t] = startedIn[t] /\ startedIn[t] \in Nat
        BY <1>1, <2>3, <2>6 DEF QueueInv, Coherent, Typed
      <4>3. startedIn'[t] < generation'
        BY <1>3, <4>1, <4>2
      <4> QED
        BY <1>1, <2>3, <2>6, <4>3 DEF Started
    <3> QED
      BY <3>1, <3>2
  <2>7. ASSUME waiter[w].tasks \cap Pending(b) = {}, NEW t \in waiter[w].tasks
        PROVE  phase'[t] \in Settled \/ (phase'[t] = "running" /\ startedIn'[t] < generation')
    <3>1. phase'[t] = p[t] /\ phase'[t] \in Started /\ startedIn'[t] = startedIn[t]
      BY <1>1, <2>3, <2>7
    <3>2. t \notin Pending(a)
      BY <1>5, <2>7
    <3> QED
      BY <1>3, <1>4, <2>3, <2>7, <3>1, <3>2 DEF Started
  <2>8. waiter'[w].tasks \subseteq {t \in Tasks : phase'[t] \in Started}
    BY <1>1, <2>2, <2>3
  <2> QED
    BY <1>5, <2>2, <2>4, <2>5, <2>6, <2>7, <2>8
<1>6. \E b : /\ Pending(a) \subseteq Pending(b)
             /\ Pending(b) \subseteq Pending(activeTaskIds')
             /\ waiter' = Notified(b) \/ (waiter' = waiter /\ b = activeTaskIds)
  BY <1>2 DEF Pumped
<1>7. PICK b : /\ Pending(a) \subseteq Pending(b)
               /\ Pending(b) \subseteq Pending(activeTaskIds')
               /\ waiter' = Notified(b) \/ (waiter' = waiter /\ b = activeTaskIds)
  BY <1>6
<1>8. \A w \in Waiters :
        /\ waiter'[w].tasks \subseteq {t \in Tasks : phase'[t] \in Started}
        /\ waiter'[w].answer = "waiting" =>
             waiter'[w].tasks \cap Pending(activeTaskIds') # {}
        /\ waiter'[w].answer = "drained" =>
             \A t \in waiter'[w].tasks :
               phase'[t] \in Settled \/ (phase'[t] = "running" /\ startedIn'[t] < generation')
  BY <1>5, <1>7
<1> QED
  BY <1>8 DEF WaiterInv, WaitersNotMissed, DrainedMeansSettled, Pending

(***************************************************************************)
(* The invariant about waiters holds in every behaviour.                   *)
(***************************************************************************)
LEMMA WaitersInitial == Init => WaiterInv
<1>1. [answer |-> "idle", tasks |-> {}] \in WaiterRecords
  BY DEF WaiterRecords
<1> QED
  BY <1>1 DEF Init, WaiterInv, WaitersNotMissed, DrainedMeansSettled

LEMMA WaitersStep ==
  QueueInv /\ gatewayDraining \in BOOLEAN /\ WaiterInv /\ [Next]_queueVars => WaiterInv'
<1> SUFFICES ASSUME QueueInv, gatewayDraining \in BOOLEAN, WaiterInv, [Next]_queueVars
             PROVE  WaiterInv'
  OBVIOUS
<1>1. waiter' \in [Waiters -> WaiterRecords]
  BY NextType DEF WaiterInv
<1>2. CASE Still
  BY <1>1, <1>2, StillKeepsWaiters
<1>3. ASSUME NEW lanes \in SUBSET Lanes, NEW q, NEW a, NEW p, NEW g,
             Pumped(lanes, q, a, p, g)
      PROVE  WaiterInv'
  BY <1>1, <1>3, PumpedKeepsWaiters
<1> QED
  BY <1>2, <1>3, StepShape DEF Shape

THEOREM WaiterInvariant == Spec => []WaiterInv
<1>1. TypeOK => gatewayDraining \in BOOLEAN
  BY DEF TypeOK
<1> QED
  BY <1>1, WaitersInitial, WaitersStep, QueueInvariant, TypeCorrect, PTL DEF Spec

(***************************************************************************)
(* An entry that has started keeps the generation it started in.           *)
(***************************************************************************)
LEMMA StartedInStays ==
  ASSUME QueueInv, [Next]_queueVars, NEW t \in Tasks, phase[t] \in Started
  PROVE  startedIn'[t] = startedIn[t]
<1>1. CASE Still
  BY <1>1 DEF Still
<1>2. ASSUME NEW lanes \in SUBSET Lanes, NEW q, NEW a, NEW p, NEW g,
             Pumped(lanes, q, a, p, g)
      PROVE  startedIn'[t] = startedIn[t]
  BY <1>2, PumpKeepsStarted
<1> QED
  BY <1>1, <1>2, StepShape DEF Shape

(***************************************************************************)
(* No completion and no reset that frees the last entry a waiter waits for *)
(* misses the waiter.                                                      *)
(***************************************************************************)
THEOREM NoWaiterMissed == Spec => []WaitersNotMissed
<1>1. WaiterInv => WaitersNotMissed
  BY DEF WaiterInv
<1> QED
  BY <1>1, WaiterInvariant, PTL

(***************************************************************************)
(* A waiter is answered "drained" only when every entry of its snapshot    *)
(* has settled or was given up by a reset.                                 *)
(***************************************************************************)
THEOREM DrainedIsTrue == Spec => []DrainedMeansSettled
<1>1. WaiterInv => DrainedMeansSettled
  BY DEF WaiterInv
<1> QED
  BY <1>1, WaiterInvariant, PTL
-----------------------------------------------------------------------------
(***************************************************************************)
(* A queued entry that the pump starts was at the front of its lane.       *)
(***************************************************************************)
LEMMA PumpStarts ==
  ASSUME NEW lanes \in SUBSET Lanes, NEW q, NEW a, NEW m \in [Lanes -> Nat],
         NEW p, NEW g,
         Coherent(q, a, p, startedIn, g),
         Pump(lanes, q, a, m, p, g)
  PROVE  \A l \in Lanes : \A t \in Tasks :
           p[t] = "queued" /\ LaneOf[t] = l /\ phase'[t] = "running" =>
             t \in Front(q[l], N(lanes, q, a, m, l))
<1>1. \A t \in Tasks : t \notin Front(q[LaneOf[t]], N(lanes, q, a, m, LaneOf[t])) =>
        phase'[t] = p[t]
  BY PumpLeaves
<1> QED
  BY <1>1

(***************************************************************************)
(* A step that is still or pumps starts the entries at the front of a lane *)
(* before those behind them.                                               *)
(***************************************************************************)
InOrder ==
  \A l \in Lanes : \A i, j \in 1 .. Len(queue[l]) :
    i < j /\ phase'[queue[l][j]] = "running" => phase'[queue[l][i]] # "queued"

LEMMA ShapeInOrder ==
  ASSUME QueueInv, Shape, maxConcurrent' \in [Lanes -> Nat]
  PROVE  InOrder
<1>1. \A l \in Lanes : \A i \in 1 .. Len(queue[l]) :
        queue[l][i] \in Tasks /\ phase[queue[l][i]] = "queued"
  BY ElementOfSeq DEF QueueInv, Coherent, Typed, InQueue
<1>2. CASE Still
  BY <1>1, <1>2 DEF Still, InOrder
<1>3. ASSUME NEW lanes \in SUBSET Lanes, NEW q, NEW a, NEW p, NEW g,
             Pumped(lanes, q, a, p, g),
             NEW l \in Lanes, NEW i \in 1 .. Len(queue[l]), NEW j \in 1 .. Len(queue[l]),
             i < j, phase'[queue[l][j]] = "running"
      PROVE  phase'[queue[l][i]] # "queued"
  <2> DEFINE n == N(lanes, q, a, maxConcurrent', l)
  <2>1. Coherent(q, a, p, startedIn, g) /\ Pump(lanes, q, a, maxConcurrent', p, g)
    BY <1>3 DEF Pumped
  <2>2. maxConcurrent' \in [Lanes -> Nat]
    OBVIOUS
  <2>3. Moves(q, a, p, g, n, l)
    BY <2>1, <2>2, PumpMoves
  <2>4. /\ i \in 1 .. Len(q[l]) /\ q[l][i] = queue[l][i]
        /\ j \in 1 .. Len(q[l]) /\ q[l][j] = queue[l][j]
    BY <1>3 DEF Pumped
  <2>5. p[q[l][j]] = "queued" /\ LaneOf[q[l][j]] = l /\ q[l][j] \in Tasks
    BY <1>1, <2>1, <2>4 DEF Coherent, InQueue
  <2>6. q[l][j] \in Front(q[l], n)
    <3>1. phase'[q[l][j]] = "running"
      BY <1>3, <2>4
    <3> QED
      BY <2>1, <2>2, <2>5, <3>1, PumpStarts
  <2> HIDE DEF n
  <2>7. n \in 0 .. Len(q[l])
    BY <2>3 DEF Moves
  <2>8. Len(q[l]) \in Nat
    BY <2>1, LenProperties DEF Coherent, Typed
  <2>9. j \in 1 .. n
    <3>1. PICK k \in 1 .. n : q[l][j] = q[l][k]
      BY <2>6 DEF Front
    <3>2. k \in 1 .. Len(q[l])
      BY <2>7, <2>8
    <3> QED
      BY <2>1, <2>4, <3>1, <3>2 DEF Coherent, Distinct
  <2>10. i \in 1 .. n
    BY <1>3, <2>4, <2>7, <2>8, <2>9
  <2>11. queue[l][i] \in Front(q[l], n)
    BY <2>4, <2>10 DEF Front
  <2> QED
    BY <2>3, <2>11 DEF Moves
<1> QED
  BY <1>2, <1>3 DEF Shape, InOrder

(***************************************************************************)
(* Entries of a lane start in the order in which they were queued.         *)
(***************************************************************************)
THEOREM FirstInFirstStarted == Spec => StartsInOrder
<1>1. QueueInv /\ [Next]_queueVars => [InOrder]_queueVars
  BY StepShape, ShapeInOrder
<1> QED
  BY <1>1, QueueInvariant, PTL DEF Spec, StartsInOrder, InOrder
=============================================================================
