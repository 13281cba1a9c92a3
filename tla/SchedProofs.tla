---------------------------- MODULE SchedProofs ----------------------------
(***************************************************************************)
(* Proofs about Sched: the queue operations of sched.c, type correctness,  *)
(* the agreement of the two queues with the states of the threads, the     *)
(* flags, the joins, and the order of the queues by priority.              *)
(***************************************************************************)
EXTENDS Sched, FiniteSetTheorems, SequenceTheorems, WellFoundedInduction,
        TLAPS

-----------------------------------------------------------------------------
(* Queues *)

\* A set of places has a first one.
LEMMA FirstPlace ==
  ASSUME NEW S \in SUBSET Nat, S # {}
  PROVE  \E i \in S : \A j \in S : i <= j
<1> DEFINE below(i) == {j \in S : j <= i}
           T == {below(i) : i \in S}
<1>0. \A j \in S : j \in Nat
  OBVIOUS
<1>1. IsWellFoundedOn(StrictSubsetOrdering(S), FiniteSubsetsOf(S))
  BY FS_StrictSubsetOrderingWellFounded
<1>2. ASSUME NEW i \in S  PROVE below(i) \in FiniteSubsetsOf(S)
  <2>0. i \in Nat /\ \A j \in S : j <= i => j \in 0..i
    BY <1>0
  <2>1. below(i) \subseteq 0..i
    BY <2>0
  <2>2. IsFiniteSet(0..i)
    BY <2>0, FS_Interval
  <2> HIDE DEF below
  <2>3. IsFiniteSet(below(i))
    BY <2>1, <2>2, FS_Subset
  <2> QED BY <2>3 DEF FiniteSubsetsOf, below
<1>3. PICK t \in T : \A u \in T : ~ (<<u, t>> \in StrictSubsetOrdering(S))
  <2>1. T \subseteq FiniteSubsetsOf(S) /\ T # {}
    BY <1>2
  <2> HIDE DEF T
  <2> QED BY <1>1, <2>1, WFMin, Zenon
<1>4. PICK i \in S : t = below(i)
  BY <1>3
<1>5. ASSUME NEW j \in S, j < i  PROVE FALSE
  <2>0. /\ \A x \in S : x <= j => x <= i
        /\ i <= i /\ ~ (i <= j)
    BY <1>0, <1>5
  <2>1. below(j) \subseteq below(i) /\ i \in below(i) /\ i \notin below(j)
    BY <2>0
  <2>2. <<below(j), below(i)>> \in StrictSubsetOrdering(S)
    BY <2>1 DEF StrictSubsetOrdering
  <2> QED BY <1>3, <1>4, <2>2
<1> QED BY <1>5

\* The place where _ThreadInsert puts a thread is between the front and the end
\* of the queue.
LEMMA InsertPlace ==
  ASSUME NEW q \in Seq(Threads), NEW lower \in SUBSET DOMAIN q
  PROVE  (CHOOSE i \in lower \cup {Len(q) + 1} : \A j \in lower : i <= j)
            \in 1..(Len(q) + 1)
<1> DEFINE P(i) == i \in lower \cup {Len(q) + 1} /\ \A j \in lower : i <= j
<1>1. lower \subseteq Nat /\ Len(q) \in Nat /\ DOMAIN q = 1..Len(q)
  BY LenProperties
<1>2. lower \subseteq 1..Len(q)
  BY <1>1
<1>3. \E i : P(i)
  <2>1. CASE lower = {}
    BY <2>1
  <2>2. CASE lower # {}
    BY <1>1, <2>2, FirstPlace
  <2> QED BY <2>1, <2>2
<1>4. P(CHOOSE i : P(i))
  BY <1>3
<1>5. (CHOOSE i : P(i)) \in 1..(Len(q) + 1)
  <2> HIDE DEF P
  <2> DEFINE c == CHOOSE i : P(i)
  <2>1. P(c)
    BY <1>4
  <2> HIDE DEF c
  <2>2. c \in 1..(Len(q) + 1)
    BY <1>1, <1>2, <2>1 DEF P
  <2> QED BY <2>2 DEF c
<1> QED BY <1>5

\* _ThreadInsert adds the thread to the queue and keeps the others.
LEMMA InsertType ==
  ASSUME NEW q \in Seq(Threads), NEW t \in Threads, NEW prio
  PROVE  /\ Insert(q, t, prio) \in Seq(Threads)
         /\ Members(Insert(q, t, prio)) = Members(q) \cup {t}
         /\ NoDuplicates(q) /\ t \notin Members(q)
              => NoDuplicates(Insert(q, t, prio))
<1> DEFINE lower == {i \in DOMAIN q : prio[q[i]] < prio[t]}
           k == CHOOSE i \in lower \cup {Len(q) + 1} : \A j \in lower : i <= j
           r == [i \in 1..(Len(q) + 1) |->
                   IF i < k THEN q[i] ELSE IF i = k THEN t ELSE q[i - 1]]
<1>1. Insert(q, t, prio) = r
  BY DEF Insert
<1>2. k \in 1..(Len(q) + 1)
  <2>1. lower \in SUBSET DOMAIN q
    OBVIOUS
  <2> HIDE DEF lower
  <2> QED BY <2>1, InsertPlace
<1> HIDE DEF k
<1>3. Len(q) \in Nat /\ DOMAIN q = 1..Len(q) /\ \A i \in 1..Len(q) : q[i] \in Threads
  BY LenProperties, ElementOfSeq
<1>4. DOMAIN r = 1..(Len(q) + 1)
  OBVIOUS
<1>5. r \in Seq(Threads)
  <2>1. \A i \in 1..(Len(q) + 1) : r[i] \in Threads
    BY <1>2, <1>3
  <2> QED BY <2>1, <1>3, IsASeq
<1>6. Members(r) = Members(q) \cup {t}
  <2>1. ASSUME NEW x \in Members(q)  PROVE x \in Members(r)
    <3>1. PICK i \in 1..Len(q) : x = q[i]
      BY <1>3, <2>1 DEF Members
    <3>2. CASE i < k
      <4>1. i \in DOMAIN r /\ r[i] = x
        BY <1>2, <1>3, <1>4, <3>1, <3>2
      <4> QED BY <4>1 DEF Members
    <3>3. CASE ~(i < k)
      <4>1. i + 1 \in DOMAIN r /\ r[i + 1] = x
        BY <1>2, <1>3, <1>4, <3>1, <3>3
      <4> QED BY <4>1 DEF Members
    <3> QED BY <3>2, <3>3
  <2>2. t \in Members(r)
    <3>1. k \in DOMAIN r /\ r[k] = t
      BY <1>2, <1>3
    <3> QED BY <3>1 DEF Members
  <2>3. ASSUME NEW i \in DOMAIN r  PROVE r[i] \in Members(q) \cup {t}
    BY <1>2, <1>3 DEF Members
  <2>4. \A x \in Members(r) : x \in Members(q) \cup {t}
    BY <2>3 DEF Members
  <2> QED BY <2>1, <2>2, <2>4
<1>7. ASSUME NoDuplicates(q), t \notin Members(q)  PROVE NoDuplicates(r)
  <2>1. SUFFICES ASSUME NEW i \in 1..(Len(q) + 1), NEW j \in 1..(Len(q) + 1),
                        r[i] = r[j]
                 PROVE  i = j
    BY <1>4 DEF NoDuplicates
  <2>2. \A l \in 1..Len(q) : q[l] # t
    BY <1>3, <1>7 DEF Members
  <2>3. \A l, m \in 1..Len(q) : q[l] = q[m] => l = m
    BY <1>3, <1>7 DEF NoDuplicates
  <2> QED BY <1>2, <1>3, <2>1, <2>2, <2>3
<1> QED BY <1>1, <1>5, <1>6, <1>7

\* The place of a member is a place of the queue.
LEMMA PlaceType ==
  ASSUME NEW q, NEW t \in Members(q)
  PROVE  Place(q, t) \in DOMAIN q /\ q[Place(q, t)] = t
BY DEF Members, Place

\* _ThreadRemove takes the thread out of the queue and keeps the others.
LEMMA RemoveType ==
  ASSUME NEW q \in Seq(Threads), NEW t \in Members(q), NoDuplicates(q)
  PROVE  /\ Remove(q, t) \in Seq(Threads)
         /\ Members(Remove(q, t)) = Members(q) \ {t}
         /\ NoDuplicates(Remove(q, t))
<1> DEFINE k == Place(q, t)
           r == [i \in 1..(Len(q) - 1) |-> IF i < k THEN q[i] ELSE q[i + 1]]
<1>1. Remove(q, t) = r
  BY DEF Remove
<1>2. Len(q) \in Nat /\ DOMAIN q = 1..Len(q) /\ \A i \in 1..Len(q) : q[i] \in Threads
  BY LenProperties, ElementOfSeq
<1>3. k \in 1..Len(q) /\ q[k] = t
  BY <1>2, PlaceType
<1> HIDE DEF k
<1>4. \A l, m \in 1..Len(q) : q[l] = q[m] => l = m
  BY <1>2 DEF NoDuplicates
<1>5. Len(q) - 1 \in Nat /\ DOMAIN r = 1..(Len(q) - 1)
  BY <1>2, <1>3
<1>6. r \in Seq(Threads)
  <2>1. \A i \in 1..(Len(q) - 1) : r[i] \in Threads
    BY <1>2, <1>3
  <2> QED BY <2>1, <1>5, IsASeq
<1>7. Members(r) = Members(q) \ {t}
  <2>1. ASSUME NEW x \in Members(q), x # t  PROVE x \in Members(r)
    <3>1. PICK i \in 1..Len(q) : x = q[i]
      BY <1>2, <2>1 DEF Members
    <3>2. CASE i < k
      <4>1. i \in DOMAIN r /\ r[i] = x
        BY <1>2, <1>3, <1>5, <3>1, <3>2
      <4> QED BY <4>1 DEF Members
    <3>3. CASE ~(i < k)
      <4>1. i # k
        BY <1>3, <2>1, <3>1
      <4>2. i - 1 \in DOMAIN r /\ r[i - 1] = x
        BY <1>2, <1>3, <1>5, <3>1, <3>3, <4>1
      <4> QED BY <4>2 DEF Members
    <3> QED BY <3>2, <3>3
  <2>2. ASSUME NEW i \in DOMAIN r  PROVE r[i] \in Members(q) /\ r[i] # t
    BY <1>2, <1>3, <1>4 DEF Members
  <2>3. \A x \in Members(r) : x \in Members(q) \ {t}
    BY <2>2 DEF Members
  <2> QED BY <2>1, <2>3
<1>8. NoDuplicates(r)
  <2>1. SUFFICES ASSUME NEW i \in 1..(Len(q) - 1), NEW j \in 1..(Len(q) - 1),
                        r[i] = r[j]
                 PROVE  i = j
    BY <1>5 DEF NoDuplicates
  <2> QED BY <1>2, <1>3, <1>4, <2>1
<1> QED BY <1>1, <1>6, <1>7, <1>8

\* A queue has finitely many members.
LEMMA MembersFinite ==
  ASSUME NEW q \in Seq(Threads)
  PROVE  IsFiniteSet(Members(q))
<1>1. DOMAIN q = 1..Len(q) /\ Len(q) \in Nat
  BY LenProperties
<1>2. IsFiniteSet(1..Len(q))
  BY <1>1, FS_Interval
<1>3. Members(q) = {q[i] : i \in 1..Len(q)}
  BY <1>1 DEF Members
<1> DEFINE f == [i \in 1..Len(q) |-> q[i]]
<1>4. f \in Surjection(1..Len(q), Members(q))
  BY <1>3 DEF Surjection
<1> QED BY <1>2, <1>4, FS_Surjection

LEMMA ConcatMembers ==
  ASSUME NEW q \in Seq(Threads), NEW s \in Seq(Threads)
  PROVE  q \o s \in Seq(Threads) /\ Members(q \o s) = Members(q) \cup Members(s)
<1>1. /\ q \o s \in Seq(Threads) /\ Len(q \o s) = Len(q) + Len(s)
      /\ \A i \in 1..(Len(q) + Len(s)) :
           (q \o s)[i] = IF i <= Len(q) THEN q[i] ELSE s[i - Len(q)]
  BY ConcatProperties
<1>2. /\ Len(q) \in Nat /\ DOMAIN q = 1..Len(q)
      /\ Len(s) \in Nat /\ DOMAIN s = 1..Len(s)
      /\ DOMAIN (q \o s) = 1..(Len(q) + Len(s))
  BY <1>1, LenProperties
<1>3. ASSUME NEW i \in DOMAIN q  PROVE q[i] \in Members(q \o s)
  <2>1. i \in DOMAIN (q \o s) /\ (q \o s)[i] = q[i]
    BY <1>1, <1>2
  <2> QED BY <2>1 DEF Members
<1>4. ASSUME NEW i \in DOMAIN s  PROVE s[i] \in Members(q \o s)
  <2>1. i + Len(q) \in DOMAIN (q \o s) /\ (q \o s)[i + Len(q)] = s[i]
    BY <1>1, <1>2
  <2> QED BY <2>1 DEF Members
<1>5. ASSUME NEW i \in DOMAIN (q \o s)
      PROVE  (q \o s)[i] \in Members(q) \cup Members(s)
  <2>1. CASE i <= Len(q)
    BY <1>1, <1>2, <2>1 DEF Members
  <2>2. CASE ~ (i <= Len(q))
    <3>1. i - Len(q) \in DOMAIN s /\ (q \o s)[i] = s[i - Len(q)]
      BY <1>1, <1>2, <2>2
    <3> QED BY <3>1 DEF Members
  <2> QED BY <2>1, <2>2
<1>6. /\ \A x \in Members(q) : x \in Members(q \o s)
      /\ \A x \in Members(s) : x \in Members(q \o s)
      /\ \A x \in Members(q \o s) : x \in Members(q) \cup Members(s)
  BY <1>3, <1>4, <1>5 DEF Members
<1> QED BY <1>1, <1>6

\* What ThreadFinish makes of the queues when it wakes the joiners are queues of
\* the threads they should hold.
LEMMA ArrangementsType ==
  ASSUME NEW c \in Seq(Threads), NEW S \in SUBSET Members(c),
         NEW prio \in [Threads -> Int], NEW q \in Arrangements(S, c, prio)
  PROVE  q \in Seq(Threads) /\ Members(q) = S /\ NoDuplicates(q)
<1>1. IsFiniteSet(S)
  BY MembersFinite, FS_Subset
<1>2. Cardinality(S) \in Nat
  BY <1>1, FS_CardinalityType
<1>3. Members(c) \subseteq Threads /\ DOMAIN c \subseteq Int
  BY ElementOfSeq, LenProperties DEF Members
<1>4. q \in [1..Cardinality(S) -> S] /\ Members(q) = S
  BY DEF Arrangements
<1>5. q \in Seq(Threads)
  <2>1. \A i \in 1..Cardinality(S) : q[i] \in Threads
    BY <1>3, <1>4
  <2>2. q = [i \in 1..Cardinality(S) |-> q[i]]
    BY <1>4
  <2> QED BY <1>2, <2>1, <2>2, IsASeq
<1>6. ASSUME NEW i \in DOMAIN q, NEW j \in DOMAIN q, i < j, q[i] = q[j]  PROVE FALSE
  <2>1. \/ prio[q[i]] > prio[q[j]]
        \/ prio[q[i]] = prio[q[j]] /\ Place(c, q[i]) < Place(c, q[j])
    BY <1>6 DEF Arrangements
  <2>2. q[i] \in Members(c) /\ q[i] \in Threads
    BY <1>3, <1>4
  <2>3. prio[q[i]] \in Int
    BY <2>2
  <2>4. Place(c, q[i]) \in Int
    BY <2>2, <1>3, PlaceType
  <2> QED BY <1>6, <2>1, <2>3, <2>4
<1>7. NoDuplicates(q)
  <2>1. DOMAIN q \subseteq Int
    BY <1>2, <1>4
  <2> QED BY <1>6, <2>1 DEF NoDuplicates
<1> QED BY <1>4, <1>5, <1>7

-----------------------------------------------------------------------------
(* The actions that move threads between the queues *)

\* The queues, the states and what the threads sleep on.
QueuesOK ==
  /\ running \in Seq(Threads) /\ stopped \in Seq(Threads)
  /\ state \in [Threads -> States]
  /\ sleep \in [Threads -> Threads \cup Semaphores \cup {None}]
  /\ QueuesMatchStates

\* The other variables of TypeOK.
FieldsOK ==
  /\ priority \in [Threads -> Int]
  /\ partial \in [Threads -> BOOLEAN]
  /\ inst \in [Threads -> Instructions \cup {Noop, None}]
  /\ catches \in [Threads -> 0..CatchBound]
  /\ count \in [Semaphores -> Int]
  /\ timers \in [Threads -> 0..TimerBound]
  /\ signaling \in BOOLEAN /\ aborting \in BOOLEAN
  /\ pending \subseteq Internal \cup External
  /\ complete \in BOOLEAN /\ value \in BOOLEAN
  /\ phase \in Phases /\ thread \in Threads \cup {None} /\ steps \in 0..Slice
  /\ list \in {"running", "stopped"} /\ walk \in Threads \cup {None}

\* While an instruction is executed there is a thread that executes it and its
\* slice is not over.
SliceOK == phase \in {"exec", "post"} => thread \in Threads /\ steps < Slice

\* The thread that ThreadsSignal comes to is in one of the queues, so that its
\* successor can be read.
WalkOK == phase = "walk" /\ walk # None => Running(walk) \/ Suspended(walk)

IInv == QueuesOK /\ FieldsOK /\ SliceOK /\ WalkOK

LEMMA ResumeOK ==
  ASSUME QueuesOK, NEW t \in Threads, Suspended(t), Resume(t),
         sleep' = [sleep EXCEPT ![t] = None] \/ UNCHANGED sleep
  PROVE  QueuesOK' /\ \A u \in Threads : u # t => state'[u] = state[u]
<1> USE DEF QueuesOK, QueuesMatchStates, Resume, Running, Suspended
<1>1. /\ t \in Members(stopped) /\ t \notin Members(running)
      /\ NoDuplicates(stopped) /\ NoDuplicates(running)
  BY DEF States
<1>2. /\ stopped' \in Seq(Threads) /\ NoDuplicates(stopped')
      /\ Members(stopped') = Members(stopped) \ {t}
  BY <1>1, RemoveType
<1>3. /\ running' \in Seq(Threads) /\ NoDuplicates(running')
      /\ Members(running') = Members(running) \cup {t}
  BY <1>1, InsertType
<1>4. state' \in [Threads -> States] /\ \A u \in Threads : u # t => state'[u] = state[u]
  BY DEF States
<1>5. sleep' \in [Threads -> Threads \cup Semaphores \cup {None}]
  OBVIOUS
<1>6. Members(running') = {u \in Threads : state'[u] = "running"}
  BY <1>3, <1>4
<1>7. Members(stopped') = {u \in Threads : state'[u] = "suspended"}
  BY <1>2, <1>4
<1> QED BY <1>2, <1>3, <1>4, <1>5, <1>6, <1>7

LEMMA WakeOneOK ==
  ASSUME QueuesOK, NEW x, WakeOne(x)
  PROVE  QueuesOK'
<1>1. CASE UNCHANGED queues
  BY <1>1 DEF queues, QueuesOK, QueuesMatchStates, Running, Suspended
<1>2. CASE ~ UNCHANGED queues
  <2>1. PICK t \in Sleepers(x) : Resume(t) /\ sleep' = [sleep EXCEPT ![t] = None]
    BY <1>2 DEF WakeOne
  <2>2. t \in Threads /\ Suspended(t)
    BY DEF Sleepers
  <2> QED BY <2>1, <2>2, ResumeOK
<1> QED BY <1>1, <1>2

\* A thread that goes from one of the queues to its end takes its joiners out of
\* the stop queue, and nobody else changes its state.
LEMMA FinishOK ==
  ASSUME QueuesOK, priority \in [Threads -> Int], NEW t \in Threads, Finish(t)
  PROVE  /\ QueuesOK'
         /\ \A u \in Threads :
              u # t => \/ state'[u] = state[u]
                       \/ Suspended(u) /\ state'[u] = "running"
<1>1. CASE state[t] = "finished"
  <2>1. UNCHANGED queues
    BY <1>1 DEF Finish
  <2> QED BY <2>1 DEF queues, QueuesOK, QueuesMatchStates, Running, Suspended
<1>2. CASE state[t] # "finished"
  <2> DEFINE q == IF Running(t) THEN Remove(running, t) ELSE running
             s == IF Suspended(t) THEN Remove(stopped, t) ELSE stopped
             W == Sleepers(t) \ {t}
  <2>1. /\ running' \in Arrangements(Members(q) \cup W, q \o s, priority)
        /\ stopped' \in Arrangements(Members(s) \ W, s, priority)
        /\ state' = [u \in Threads |-> IF u = t THEN "finished"
                                       ELSE IF u \in W THEN "running"
                                       ELSE state[u]]
        /\ sleep' = [u \in Threads |-> IF u \in W THEN None ELSE sleep[u]]
    BY <1>2 DEF Finish
  <2>2. q \in Seq(Threads) /\ Members(q) = {u \in Threads : Running(u)} \ {t}
    BY RemoveType DEF QueuesOK, QueuesMatchStates
  <2>3. s \in Seq(Threads) /\ Members(s) = {u \in Threads : Suspended(u)} \ {t}
    BY RemoveType DEF QueuesOK, QueuesMatchStates
  <2>4. W \subseteq Members(s) /\ \A u \in W : u \in Threads /\ Suspended(u)
    BY <2>3 DEF Sleepers
  <2> HIDE DEF q, s, W
  <2>5. q \o s \in Seq(Threads) /\ Members(q \o s) = Members(q) \cup Members(s)
    BY <2>2, <2>3, ConcatMembers
  <2>6. /\ running' \in Seq(Threads) /\ NoDuplicates(running')
        /\ Members(running') = Members(q) \cup W
    BY <2>1, <2>4, <2>5, ArrangementsType
  <2>7. /\ stopped' \in Seq(Threads) /\ NoDuplicates(stopped')
        /\ Members(stopped') = Members(s) \ W
    BY <2>1, <2>3, ArrangementsType
  <2>8. /\ state' \in [Threads -> States]
        /\ sleep' \in [Threads -> Threads \cup Semaphores \cup {None}]
    BY <2>1 DEF QueuesOK, States
  <2>9. /\ \A u \in Threads : state'[u] = "running" <=> u \in Members(q) \cup W
        /\ \A u \in Threads : state'[u] = "suspended" <=> u \in Members(s) \ W
    BY <2>1, <2>2, <2>3, <2>4 DEF Running, Suspended
  <2>10. Members(q) \cup W \subseteq Threads /\ Members(s) \subseteq Threads
    BY <2>2, <2>3, <2>4
  <2>11. /\ Members(running') = {u \in Threads : state'[u] = "running"}
         /\ Members(stopped') = {u \in Threads : state'[u] = "suspended"}
    BY <2>6, <2>7, <2>9, <2>10
  <2>12. \A u \in Threads : u # t => \/ state'[u] = state[u]
                                     \/ Suspended(u) /\ state'[u] = "running"
    BY <2>1, <2>4
  <2> QED BY <2>6, <2>7, <2>8, <2>11, <2>12
            DEF QueuesOK, QueuesMatchStates, Running, Suspended
<1> QED BY <1>1, <1>2

\* A thread goes behind others of its queue, or to another place of it.
LEMMA MoveOK ==
  ASSUME NEW q \in Seq(Threads), NEW t \in Members(q), NEW prio, NoDuplicates(q)
  PROVE  /\ Insert(Remove(q, t), t, prio) \in Seq(Threads)
         /\ Members(Insert(Remove(q, t), t, prio)) = Members(q)
         /\ NoDuplicates(Insert(Remove(q, t), t, prio))
<1> DEFINE r == Remove(q, t)
<1>1. r \in Seq(Threads) /\ Members(r) = Members(q) \ {t} /\ NoDuplicates(r)
  BY RemoveType
<1>2. t \in Threads
  BY ElementOfSeq DEF Members
<1> HIDE DEF r
<1>3. /\ Insert(r, t, prio) \in Seq(Threads)
      /\ Members(Insert(r, t, prio)) = Members(r) \cup {t}
      /\ NoDuplicates(Insert(r, t, prio))
  BY <1>1, <1>2, InsertType
<1> QED BY <1>1, <1>3 DEF r

\* What the assumptions on the constants say about numbers.
LEMMA Numbers ==
  /\ PrioritySync \in Int /\ Priorities \subseteq Int /\ CatchBound \in Nat
  /\ TimerBound \in Nat /\ CountBound \in Nat /\ Slice \in Nat /\ Slice > 0
BY SchedConstants

LEMMA CatchOK ==
  ASSUME FieldsOK, NEW t \in Threads, NEW code, Catch(t, code),
         code \in [Threads -> Instructions \cup {Noop, None}]
  PROVE  /\ inst' \in [Threads -> Instructions \cup {Noop, None}]
         /\ catches' \in [Threads -> 0..CatchBound]
<1>1. catches \in [Threads -> 0..CatchBound]
  BY DEF FieldsOK
<1>2. catches[t] > 0 => catches[t] - 1 \in 0..CatchBound
  BY <1>1, Numbers
<1> QED BY <1>1, <1>2 DEF Catch

\* An exception raised in a thread.
LEMMA SignalThreadOK ==
  ASSUME QueuesOK, FieldsOK, NEW t \in Threads, NEW code, SignalThread(t, code),
         code \in [Threads -> Instructions \cup {Noop, None}]
  PROVE  /\ QueuesOK'
         /\ \A u \in Threads :
              u # t => \/ state'[u] = state[u]
                       \/ Suspended(u) /\ state'[u] = "running"
         /\ inst' \in [Threads -> Instructions \cup {Noop, None}]
         /\ catches' \in [Threads -> 0..CatchBound]
         /\ signaling' \in BOOLEAN /\ aborting' \in BOOLEAN
         /\ pending' \subseteq Internal \cup External
<1>1. CASE Catch(t, code) /\ Suspended(t)
  <2>1. \/ Resume(t) /\ sleep' = [sleep EXCEPT ![t] = None] /\ UNCHANGED flags
        \/ Die(t, code)
    BY <1>1 DEF SignalThread
  <2>2. ~ Die(t, code)
    BY <1>1 DEF Catch, Die, FieldsOK
  <2>3. QueuesOK' /\ \A u \in Threads : u # t => state'[u] = state[u]
    BY <1>1, <2>1, <2>2, ResumeOK
  <2> QED BY <1>1, CatchOK, <2>1, <2>2, <2>3 DEF FieldsOK, flags
<1>2. CASE Catch(t, code) /\ ~ Suspended(t)
  <2>1. UNCHANGED queues /\ UNCHANGED flags
    BY <1>2 DEF SignalThread, Catch, Die, FieldsOK
  <2>2. QueuesOK' /\ \A u \in Threads : u # t => state'[u] = state[u]
    BY <2>1 DEF queues, QueuesOK, QueuesMatchStates, Running, Suspended
  <2> QED BY <1>2, CatchOK, <2>1, <2>2 DEF FieldsOK, flags
<1>3. CASE Die(t, code)
  <2>1. Finish(t) /\ inst' = code /\ UNCHANGED catches
    BY <1>3 DEF Die
  <2>2. SetSignal("error") \/ UNCHANGED flags
    BY <1>3 DEF SignalThread, Die, Catch, FieldsOK
  <2>3. /\ signaling' \in BOOLEAN /\ aborting' \in BOOLEAN
        /\ pending' \subseteq Internal \cup External
    BY <2>2 DEF SetSignal, flags, FieldsOK, Internal
  <2> QED BY <2>1, <2>3, FinishOK DEF FieldsOK
<1> QED BY <1>1, <1>2, <1>3 DEF SignalThread

-----------------------------------------------------------------------------
(* Instructions *)

\* The instruction that is fetched is executed by a thread.
LEMMA FetchOK ==
  ASSUME IInv, NEW i, Fetch(i)
  PROVE  /\ thread \in Threads /\ thread' \in Threads \cup {None}
         /\ Fetched(i) \in [Threads -> Instructions \cup {Noop, None}]
         /\ phase' = "post" /\ phase' \in Phases /\ steps' \in 0..Slice
         /\ list' \in {"running", "stopped"} /\ walk' \in Threads \cup {None}
         /\ SliceOK' /\ WalkOK'
<1>1. thread \in Threads /\ steps < Slice /\ phase' = "post"
  BY DEF IInv, SliceOK, Fetch
<1>2. i \in Instructions \cup {Noop, None}
  BY <1>1 DEF IInv, FieldsOK, Fetch
<1>3. Fetched(i) \in [Threads -> Instructions \cup {Noop, None}]
  BY <1>1, <1>2 DEF IInv, FieldsOK, Fetched
<1>4. UNCHANGED <<thread, steps, list, walk>>
  BY DEF Fetch, cursor
<1> QED BY <1>1, <1>3, <1>4 DEF IInv, FieldsOK, SliceOK, WalkOK, Phases

\* The thread is about to be stopped; the queues are not touched yet.
LEMMA ThreadSleepOK ==
  ASSUME IInv, thread \in Threads, NEW x \in Threads \cup Semaphores, ThreadSleep(x)
  PROVE  /\ QueuesOK' /\ priority' \in [Threads -> Int]
         /\ signaling' \in BOOLEAN /\ aborting' \in BOOLEAN
         /\ pending' \subseteq Internal \cup External
<1>1. sleep' \in [Threads -> Threads \cup Semaphores \cup {None}]
  BY DEF ThreadSleep, IInv, QueuesOK
<1>2. QueuesOK'
  BY <1>1 DEF ThreadSleep, IInv, QueuesOK, QueuesMatchStates, Running, Suspended
<1>3. priority' \in [Threads -> Int]
  BY Numbers DEF ThreadSleep, IInv, FieldsOK
<1> QED BY <1>2, <1>3 DEF ThreadSleep, SetSignal, IInv, FieldsOK, Internal

LEMMA QueuesUnchanged ==
  ASSUME QueuesOK, UNCHANGED queues
  PROVE  QueuesOK'
BY DEF queues, QueuesOK, QueuesMatchStates, Running, Suspended

LEMMA WaitOK ==
  ASSUME IInv, thread \in Threads, NEW s \in Semaphores, Wait(s)
  PROVE  /\ QueuesOK' /\ priority' \in [Threads -> Int]
         /\ partial' \in [Threads -> BOOLEAN] /\ count' \in [Semaphores -> Int]
         /\ signaling' \in BOOLEAN /\ aborting' \in BOOLEAN
         /\ pending' \subseteq Internal \cup External
         /\ complete' \in BOOLEAN
<1> DEFINE Blocks == /\ count' = [count EXCEPT ![s] = @ - 1]
                     /\ partial' = [partial EXCEPT ![thread] = TRUE]
                     /\ ThreadSleep(s)
                     /\ complete' = FALSE
<1>1. CASE Blocks
  <2>1. /\ QueuesOK' /\ priority' \in [Threads -> Int]
        /\ signaling' \in BOOLEAN /\ aborting' \in BOOLEAN
        /\ pending' \subseteq Internal \cup External
    BY <1>1, ThreadSleepOK
  <2>2. partial' \in [Threads -> BOOLEAN] /\ count' \in [Semaphores -> Int]
    BY <1>1 DEF IInv, FieldsOK
  <2> QED BY <1>1, <2>1, <2>2
<1>2. CASE ~ Blocks
  <2>1. /\ UNCHANGED <<partial, priority, queues, flags>>
        /\ count' = count \/ count' = [count EXCEPT ![s] = @ - 1]
        /\ complete' \in BOOLEAN
    BY <1>2 DEF Wait
  <2>2. QueuesOK'
    BY <2>1, QueuesUnchanged DEF IInv
  <2> QED BY <2>1, <2>2 DEF IInv, FieldsOK, flags
<1> QED BY <1>1, <1>2

\* Every instruction preserves the invariant.
LEMMA ExecuteOK ==
  ASSUME IInv, Execute
  PROVE  IInv'
<1> USE DEF Takes, Completes
<1>1. ASSUME NEW s \in Semaphores, SemaphoreWait(s)  PROVE IInv'
  <2>1. Fetch(Instruction("wait", s, 0)) /\ inst' = Fetched(Instruction("wait", s, 0))
        /\ Wait(s) /\ UNCHANGED <<value, catches, timers>>
    BY <1>1 DEF SemaphoreWait
  <2> QED BY <2>1, FetchOK, WaitOK DEF IInv, FieldsOK
<1>2. ASSUME NEW s \in Semaphores, SemaphoreTest(s)  PROVE IInv'
  <2>1. Fetch(Instruction("test", s, 0)) /\ inst' = Fetched(Instruction("test", s, 0))
        /\ UNCHANGED <<catches, timers>> /\ value' \in BOOLEAN
    BY <1>2 DEF SemaphoreTest
  <2>2. CASE Wait(s)
    BY <2>1, <2>2, FetchOK, WaitOK DEF IInv, FieldsOK
  <2>3. CASE ~ Wait(s)
    <3>1. UNCHANGED <<count, partial, priority, queues, flags>> /\ complete' = FALSE
      BY <1>2, <2>3 DEF SemaphoreTest
    <3> QED BY <2>1, <3>1, FetchOK, QueuesUnchanged DEF IInv, FieldsOK, flags
  <2> QED BY <2>2, <2>3
<1>3. ASSUME NEW s \in Semaphores, SemaphoreSignal(s)  PROVE IInv'
  <2>1. /\ Fetch(Instruction("signal", s, 0))
        /\ inst' = Fetched(Instruction("signal", s, 0))
        /\ UNCHANGED <<value, priority, partial, catches, timers, flags>>
        /\ complete' \in BOOLEAN
        /\ count' = count \/ count' = [count EXCEPT ![s] = @ + 1]
        /\ UNCHANGED queues \/ WakeOne(s)
    BY <1>3 DEF SemaphoreSignal
  <2>2. QueuesOK'
    BY <2>1, QueuesUnchanged, WakeOneOK DEF IInv
  <2>3. count' \in [Semaphores -> Int]
    BY <2>1 DEF IInv, FieldsOK
  <2> QED BY <2>1, <2>2, <2>3, FetchOK DEF IInv, FieldsOK, flags
<1>4. ASSUME NEW t \in Threads, ThreadJoin(t)  PROVE IInv'
  <2>1. /\ Fetch(Instruction("join", t, 0)) /\ inst' = Fetched(Instruction("join", t, 0))
        /\ UNCHANGED <<value, partial, catches, count, timers>> /\ complete' = FALSE
    BY <1>4 DEF ThreadJoin
  <2>2. CASE ThreadSleep(t)
    BY <2>1, <2>2, FetchOK, ThreadSleepOK DEF IInv, FieldsOK
  <2>3. CASE UNCHANGED <<priority, queues, flags>>
    BY <2>1, <2>3, FetchOK, QueuesUnchanged DEF IInv, FieldsOK, flags
  <2> QED BY <1>4, <2>2, <2>3 DEF ThreadJoin
<1>5. ASSUME NEW t \in Threads, ThreadKill(t)  PROVE IInv'
  <2>1. /\ Fetch(Instruction("kill", t, 0)) /\ inst' = Fetched(Instruction("kill", t, 0))
        /\ UNCHANGED <<value, priority, partial, catches, count, timers, flags>>
        /\ complete' = FALSE /\ Finish(t)
    BY <1>5 DEF ThreadKill
  <2>2. QueuesOK'
    BY <2>1, FinishOK DEF IInv, FieldsOK
  <2> QED BY <2>1, <2>2, FetchOK DEF IInv, FieldsOK, flags
<1>6. ASSUME NEW t \in Threads, ThreadSendSignal(t)  PROVE IInv'
  <2> DEFINE i == Instruction("send_signal", t, 0)
  <2>1. /\ Fetch(i) /\ complete' = FALSE
        /\ UNCHANGED <<value, priority, partial, count, timers>>
    BY <1>6 DEF ThreadSendSignal
  <2>2. CASE SignalThread(t, Fetched(i))
    BY <2>1, <2>2, FetchOK, SignalThreadOK DEF IInv, FieldsOK
  <2>3. CASE SetSignal("exception") /\ inst' = Fetched(i) /\ UNCHANGED <<catches, queues>>
    <3>1. /\ signaling' \in BOOLEAN /\ aborting' \in BOOLEAN
          /\ pending' \subseteq Internal \cup External
      BY <2>3 DEF SetSignal, IInv, FieldsOK, Internal
    <3> QED BY <2>1, <2>3, <3>1, FetchOK, QueuesUnchanged DEF IInv, FieldsOK
  <2> QED BY <1>6, <2>2, <2>3 DEF ThreadSendSignal
<1>7. ASSUME NEW t \in Threads, ThreadFork(t)  PROVE IInv'
  <2>1. /\ Fetch(Instruction("fork", None, 0))
        /\ inst' = Fetched(Instruction("fork", None, 0))
        /\ UNCHANGED <<value, stopped, sleep, priority, partial, catches, count, timers, flags>>
        /\ complete' = TRUE /\ state[t] = "unborn"
        /\ state' = [state EXCEPT ![t] = "running"]
        /\ running' = Insert(running, t, priority)
    BY <1>7 DEF ThreadFork
  <2>2. t \notin Members(running) /\ NoDuplicates(running) /\ running \in Seq(Threads)
    BY <2>1 DEF IInv, QueuesOK, QueuesMatchStates, Running
  <2>3. /\ running' \in Seq(Threads) /\ NoDuplicates(running')
        /\ Members(running') = Members(running) \cup {t}
    BY <2>1, <2>2, InsertType
  <2>4. state' \in [Threads -> States]
    BY <2>1 DEF IInv, QueuesOK, States
  <2>5. /\ Members(running') = {u \in Threads : state'[u] = "running"}
        /\ Members(stopped') = {u \in Threads : state'[u] = "suspended"}
    BY <2>1, <2>3 DEF IInv, QueuesOK, QueuesMatchStates, Running, Suspended
  <2>6. QueuesOK'
    BY <2>1, <2>3, <2>4, <2>5 DEF IInv, QueuesOK, QueuesMatchStates, Running, Suspended
  <2> QED BY <2>1, <2>6, FetchOK DEF IInv, FieldsOK, flags
<1>8. ASSUME NEW t \in Threads, NEW p \in Priorities, ThreadSetPriority(t, p)  PROVE IInv'
  <2>1. /\ Fetch(Instruction("set_priority", t, p))
        /\ inst' = Fetched(Instruction("set_priority", t, p))
        /\ UNCHANGED <<value, state, sleep, partial, catches, count, timers, flags>>
        /\ complete' = FALSE
    BY <1>8 DEF ThreadSetPriority
  <2>2. priority' \in [Threads -> Int]
    BY <1>8, Numbers DEF ThreadSetPriority, IInv, FieldsOK
  <2>3. \/ UNCHANGED running
        \/ Running(t) /\ running' = Insert(Remove(running, t), t, priority')
    BY <1>8 DEF ThreadSetPriority
  <2>4. \/ UNCHANGED stopped
        \/ Suspended(t) /\ stopped' = Insert(Remove(stopped, t), t, priority')
    BY <1>8 DEF ThreadSetPriority
  <2>5. /\ running' \in Seq(Threads) /\ NoDuplicates(running')
        /\ Members(running') = Members(running)
    BY <2>3, MoveOK DEF IInv, QueuesOK, QueuesMatchStates
  <2>6. /\ stopped' \in Seq(Threads) /\ NoDuplicates(stopped')
        /\ Members(stopped') = Members(stopped)
    BY <2>4, MoveOK DEF IInv, QueuesOK, QueuesMatchStates
  <2>7. QueuesOK'
    BY <2>1, <2>5, <2>6 DEF IInv, QueuesOK, QueuesMatchStates, Running, Suspended
  <2> QED BY <2>1, <2>2, <2>7, FetchOK DEF IInv, FieldsOK, flags
<1>9. ASSUME ThreadDoSleep  PROVE IInv'
  <2>1. /\ Fetch(Instruction("sleep", None, 0))
        /\ inst' = Fetched(Instruction("sleep", None, 0))
        /\ UNCHANGED <<value, queues, priority, catches, count>> /\ complete' = FALSE
    BY <1>9 DEF ThreadDoSleep
  <2>2. thread \in Threads
    BY <2>1, FetchOK
  <2>3. CASE UNCHANGED <<timers, partial, flags>>
    BY <2>1, <2>3, FetchOK, QueuesUnchanged DEF IInv, FieldsOK, flags
  <2>4. CASE /\ timers[thread] < TimerBound
             /\ timers' = [timers EXCEPT ![thread] = @ + 1]
             /\ partial' = [partial EXCEPT ![thread] = TRUE]
             /\ SetSignal("suspend")
    <3>1. timers' \in [Threads -> 0..TimerBound] /\ partial' \in [Threads -> BOOLEAN]
      BY <2>2, <2>4, Numbers DEF IInv, FieldsOK
    <3>2. /\ signaling' \in BOOLEAN /\ aborting' \in BOOLEAN
          /\ pending' \subseteq Internal \cup External
      BY <2>4 DEF SetSignal, IInv, FieldsOK, Internal
    <3> QED BY <2>1, <3>1, <3>2, FetchOK, QueuesUnchanged DEF IInv, FieldsOK
  <2> QED BY <1>9, <2>3, <2>4 DEF ThreadDoSleep
<1>10. ASSUME ThreadTry \/ ThreadEndTry  PROVE IInv'
  <2>1. PICK i : /\ Fetch(i) /\ inst' = Fetched(i) /\ complete' \in BOOLEAN
                 /\ UNCHANGED <<value, queues, priority, partial, count, timers, flags>>
    <3>1. CASE ThreadTry
      BY <3>1, FetchOK DEF ThreadTry, IInv, FieldsOK
    <3>2. CASE ThreadEndTry
      BY <3>2, FetchOK DEF ThreadEndTry, IInv, FieldsOK
    <3> QED BY <1>10, <3>1, <3>2
  <2>2. thread \in Threads
    BY <2>1, FetchOK
  <2>3. catches' \in [Threads -> 0..CatchBound]
    BY <1>10, <2>2, Numbers DEF ThreadTry, ThreadEndTry, IInv, FieldsOK
  <2> QED BY <2>1, <2>3, FetchOK, QueuesUnchanged DEF IInv, FieldsOK, flags
<1>11. ASSUME ThreadEnd  PROVE IInv'
  <2>1. /\ Fetch(Instruction("end", None, 0)) /\ inst' = Fetched(Instruction("end", None, 0))
        /\ UNCHANGED <<value, queues, priority, partial, catches, count, timers>>
        /\ complete' = FALSE /\ SetSignal("finished")
    BY <1>11 DEF ThreadEnd
  <2>2. /\ signaling' \in BOOLEAN /\ aborting' \in BOOLEAN
        /\ pending' \subseteq Internal \cup External
    BY <2>1 DEF SetSignal, IInv, FieldsOK, Internal
  <2> QED BY <2>1, <2>2, FetchOK, QueuesUnchanged DEF IInv, FieldsOK
<1>12. ASSUME ThreadNoop  PROVE IInv'
  <2>1. /\ Fetch(Noop) /\ inst' = Fetched(Noop) /\ complete' = FALSE
        /\ UNCHANGED <<value, queues, priority, partial, catches, count, timers, flags>>
    BY <1>12 DEF ThreadNoop
  <2> QED BY <2>1, FetchOK, QueuesUnchanged DEF IInv, FieldsOK, flags
<1> HIDE DEF Takes, Completes
<1> QED BY <1>1, <1>2, <1>3, <1>4, <1>5, <1>6, <1>7, <1>8, <1>9, <1>10, <1>11, <1>12
        DEF Execute

-----------------------------------------------------------------------------
(* After an instruction *)

LEMMA PostOK ==
  ASSUME IInv, Post
  PROVE  IInv'
<1>1. thread \in Threads /\ steps < Slice /\ phase = "post"
  BY DEF IInv, SliceOK, Post, AbortSuspend, AbortFinished, AbortException,
         AbortOther, StepDone, Leave
<1>2. ASSUME Leave, inst' \in [Threads -> Instructions \cup {Noop, None}],
             catches' \in [Threads -> 0..CatchBound], QueuesOK',
             signaling' \in BOOLEAN, aborting' \in BOOLEAN,
             pending' \subseteq Internal \cup External
      PROVE  IInv'
  BY <1>2 DEF Leave, cursor, IInv, FieldsOK, SliceOK, WalkOK, Phases
<1>3. CASE AbortSuspend
  <2>1. /\ pending' \subseteq Internal \cup External
        /\ UNCHANGED <<sleep, signaling, aborting, inst, catches>> /\ Leave
    BY <1>3 DEF AbortSuspend, IInv, FieldsOK
  <2>2. CASE ~ Running(thread)
    <3>1. UNCHANGED queues
      BY <1>3, <2>2 DEF AbortSuspend, queues
    <3> QED BY <1>2, <2>1, <3>1, QueuesUnchanged DEF IInv, FieldsOK
  <2>3. CASE Running(thread)
    <3>1. /\ state' = [state EXCEPT ![thread] = "suspended"]
          /\ running' = Remove(running, thread)
          /\ stopped' = Insert(stopped, thread, priority)
      BY <1>3, <2>3 DEF AbortSuspend
    <3>2. /\ thread \in Members(running) /\ thread \notin Members(stopped)
          /\ NoDuplicates(running) /\ NoDuplicates(stopped)
      BY <1>1, <2>3 DEF IInv, QueuesOK, QueuesMatchStates, Running, Suspended
    <3>3. /\ running' \in Seq(Threads) /\ NoDuplicates(running')
          /\ Members(running') = Members(running) \ {thread}
      BY <3>1, <3>2, RemoveType DEF IInv, QueuesOK
    <3>4. /\ stopped' \in Seq(Threads) /\ NoDuplicates(stopped')
          /\ Members(stopped') = Members(stopped) \cup {thread}
      BY <1>1, <3>1, <3>2, InsertType DEF IInv, QueuesOK
    <3>5. state' \in [Threads -> States]
      BY <3>1 DEF IInv, QueuesOK, States
    <3>6. /\ Members(running') = {u \in Threads : state'[u] = "running"}
          /\ Members(stopped') = {u \in Threads : state'[u] = "suspended"}
      BY <1>1, <3>1, <3>3, <3>4 DEF IInv, QueuesOK, QueuesMatchStates, Running, Suspended
    <3>7. QueuesOK'
      BY <2>1, <3>3, <3>4, <3>5, <3>6
      DEF IInv, QueuesOK, QueuesMatchStates, Running, Suspended
    <3> QED BY <1>2, <2>1, <3>7 DEF IInv, FieldsOK
  <2> QED BY <2>2, <2>3
<1>4. CASE AbortFinished
  <2>1. /\ pending' \subseteq Internal \cup External /\ Finish(thread)
        /\ UNCHANGED <<signaling, aborting, inst, catches>> /\ Leave
    BY <1>4 DEF AbortFinished, IInv, FieldsOK
  <2>2. QueuesOK'
    BY <1>1, <2>1, FinishOK DEF IInv, FieldsOK
  <2> QED BY <1>2, <2>1, <2>2 DEF IInv, FieldsOK
<1>5. CASE AbortException
  <2>1. /\ pending' \subseteq Internal \cup External /\ Leave /\ UNCHANGED signaling
    BY <1>5 DEF AbortException, IInv, FieldsOK
  <2>2. CASE Catch(thread, inst) /\ aborting' = FALSE /\ UNCHANGED queues
    <3>1. /\ inst' \in [Threads -> Instructions \cup {Noop, None}]
          /\ catches' \in [Threads -> 0..CatchBound]
      BY <1>1, <2>2, CatchOK DEF IInv, FieldsOK
    <3> QED BY <1>2, <2>1, <2>2, <3>1, QueuesUnchanged DEF IInv, FieldsOK
  <2>3. CASE Die(thread, inst) /\ aborting' = (thread = HeadOf(running))
    <3>1. Finish(thread) /\ UNCHANGED <<inst, catches>> /\ aborting' \in BOOLEAN
      BY <2>3 DEF Die
    <3>2. QueuesOK'
      BY <1>1, <3>1, FinishOK DEF IInv, FieldsOK
    <3> QED BY <1>2, <2>1, <3>1, <3>2 DEF IInv, FieldsOK
  <2> QED BY <1>5, <2>2, <2>3 DEF AbortException
<1>6. CASE AbortOther
  <2>1. /\ pending' \subseteq Internal \cup External /\ Leave
        /\ UNCHANGED <<queues, signaling, aborting, inst, catches>>
    BY <1>6 DEF AbortOther, IInv, FieldsOK
  <2> QED BY <1>2, <2>1, QueuesUnchanged DEF IInv, FieldsOK
<1>7. CASE StepDone
  <2>1. /\ partial' = [partial EXCEPT ![thread] = FALSE]
        /\ inst' = [inst EXCEPT ![thread] = None]
        /\ steps' = steps + 1
        /\ \/ phase' = "exec" /\ steps + 1 < Slice
           \/ phase' = "top"
        /\ UNCHANGED <<state, sleep, priority, catches, count, timers, flags,
                       thread, complete, value, cursor>>
    BY <1>7 DEF StepDone
  <2>2. \/ UNCHANGED running
        \/ Running(thread) /\ running' = Insert(Remove(running, thread), thread, priority)
    BY <1>7 DEF StepDone
  <2>3. \/ UNCHANGED stopped
        \/ Suspended(thread) /\ stopped' = Insert(Remove(stopped, thread), thread, priority)
    BY <1>7 DEF StepDone
  <2>4. /\ running' \in Seq(Threads) /\ NoDuplicates(running')
        /\ Members(running') = Members(running)
    BY <1>1, <2>2, MoveOK DEF IInv, QueuesOK, QueuesMatchStates
  <2>5. /\ stopped' \in Seq(Threads) /\ NoDuplicates(stopped')
        /\ Members(stopped') = Members(stopped)
    BY <1>1, <2>3, MoveOK DEF IInv, QueuesOK, QueuesMatchStates
  <2>6. QueuesOK'
    BY <2>1, <2>4, <2>5 DEF IInv, QueuesOK, QueuesMatchStates, Running, Suspended
  <2>7. steps' \in 0..Slice
    BY <1>1, <2>1, Numbers DEF IInv, FieldsOK
  <2>8. SliceOK' /\ WalkOK' /\ phase' \in Phases
    BY <1>1, <2>1 DEF SliceOK, WalkOK, Phases
  <2> QED BY <2>1, <2>6, <2>7, <2>8 DEF IInv, FieldsOK, flags, cursor
<1> QED BY <1>3, <1>4, <1>5, <1>6, <1>7 DEF Post

-----------------------------------------------------------------------------
(* The loop *)

\* The head of a queue and the thread behind one of its threads.
LEMMA HeadOfOK ==
  ASSUME NEW q \in Seq(Threads)
  PROVE  /\ HeadOf(q) = None \/ HeadOf(q) \in Members(q)
         /\ HeadOf(q) \in Threads \cup {None}
<1>1. CASE q = <<>>
  BY <1>1 DEF HeadOf
<1>2. CASE q # <<>>
  <2>1. HeadOf(q) = q[1] /\ 1 \in DOMAIN q
    BY <1>2, LenProperties DEF HeadOf
  <2>2. q[1] \in Threads
    BY <2>1, ElementOfSeq, LenProperties
  <2> QED BY <2>1, <2>2 DEF Members
<1> QED BY <1>1, <1>2

LEMMA BehindOK ==
  ASSUME QueuesOK, NEW t \in Threads, Running(t) \/ Suspended(t), Behind(t) # None
  PROVE  /\ Behind(t) \in Threads /\ Behind(t) # t
         /\ Running(Behind(t)) \/ Suspended(Behind(t))
<1> DEFINE q == IF Running(t) THEN running ELSE stopped
           k == Place(q, t)
<1>1. /\ q \in Seq(Threads) /\ NoDuplicates(q) /\ t \in Members(q)
      /\ \A u \in Members(q) : u \in Threads /\ (Running(u) \/ Suspended(u))
  BY DEF QueuesOK, QueuesMatchStates
<1>2. Behind(t) = IF k < Len(q) THEN q[k + 1] ELSE None
  BY DEF Behind
<1> HIDE DEF q
<1>3. k \in DOMAIN q /\ q[k] = t /\ DOMAIN q = 1..Len(q) /\ Len(q) \in Nat
  BY <1>1, PlaceType, LenProperties
<1> HIDE DEF k
<1>4. k < Len(q) /\ Behind(t) = q[k + 1]
  BY <1>2
<1>5. k + 1 \in DOMAIN q /\ k + 1 # k
  BY <1>3, <1>4
<1>6. Behind(t) \in Members(q) /\ Behind(t) # t
  BY <1>1, <1>3, <1>4, <1>5 DEF Members, NoDuplicates
<1> QED BY <1>1, <1>6

LEMMA LoopOK ==
  ASSUME IInv, Loop
  PROVE  IInv'
<1>1. CASE Dispatch
  <2>1. /\ thread' = HeadOf(running) /\ running # <<>> /\ steps' = 0 /\ phase' = "exec"
        /\ UNCHANGED <<queues, thvars, count, timers, flags, complete, value, cursor>>
    BY <1>1 DEF Dispatch, HeadOf
  <2>2. thread' \in Threads
    BY <2>1, HeadTailProperties DEF IInv, QueuesOK, HeadOf
  <2>3. steps' \in 0..Slice /\ steps' < Slice
    BY <2>1, Numbers
  <2> QED BY <2>1, <2>2, <2>3, QueuesUnchanged
          DEF thvars, flags, cursor, IInv, FieldsOK, SliceOK, WalkOK, Phases
<1>2. CASE \/ Return \/ TakeSignals \/ CheckTimer \/ Expired
  <2>1. /\ UNCHANGED <<queues, thvars, count, timers, slice, cursor>>
        /\ signaling' \in BOOLEAN /\ aborting' \in BOOLEAN /\ pending' \subseteq pending
        /\ phase' \in {"done", "interrupt", "expire", "top"}
    BY <1>2 DEF Return, TakeSignals, CheckTimer, Expired, flags, IInv, FieldsOK
  <2> QED BY <2>1, QueuesUnchanged
          DEF thvars, slice, cursor, IInv, FieldsOK, SliceOK, WalkOK, Phases
<1>3. CASE CheckInterrupt
  <2>1. /\ UNCHANGED <<queues, thvars, count, timers, signaling, aborting, slice>>
        /\ pending' \subseteq pending
        /\ \/ phase' = "walk" /\ list' = "running" /\ walk' = HeadOf(running)
           \/ phase' = "alarm" /\ UNCHANGED cursor
    BY <1>3 DEF CheckInterrupt
  <2>2. /\ HeadOf(running) \in Threads \cup {None}
        /\ HeadOf(running) # None => Running(HeadOf(running))
    BY HeadOfOK DEF IInv, QueuesOK, QueuesMatchStates
  <2>3. WalkOK'
    BY <2>1, <2>2 DEF WalkOK, queues, Running, Suspended
  <2> QED BY <2>1, <2>2, <2>3, QueuesUnchanged
          DEF thvars, slice, cursor, IInv, FieldsOK, SliceOK, Phases
<1>4. CASE WalkSignal
  <2>1. /\ phase = "walk" /\ walk # None /\ phase' = "walk" /\ walk' = Behind(walk)
        /\ SignalThread(walk, inst)
        /\ UNCHANGED <<priority, partial, count, timers, slice, list>>
    BY <1>4 DEF WalkSignal
  <2>2. walk \in Threads /\ (Running(walk) \/ Suspended(walk))
    BY <2>1 DEF IInv, FieldsOK, WalkOK
  <2>3. /\ walk' \in Threads \cup {None}
        /\ walk' # None => /\ walk' \in Threads /\ walk' # walk
                           /\ Running(walk') \/ Suspended(walk')
    BY <2>1, <2>2, BehindOK DEF IInv
  <2>4. /\ QueuesOK'
        /\ \A u \in Threads :
             u # walk => \/ state'[u] = state[u]
                         \/ Suspended(u) /\ state'[u] = "running"
        /\ inst' \in [Threads -> Instructions \cup {Noop, None}]
        /\ catches' \in [Threads -> 0..CatchBound]
        /\ signaling' \in BOOLEAN /\ aborting' \in BOOLEAN
        /\ pending' \subseteq Internal \cup External
    BY <2>1, <2>2, SignalThreadOK DEF IInv, FieldsOK
  <2>5. WalkOK'
    BY <2>3, <2>4 DEF WalkOK, Running, Suspended
  <2> QED BY <2>1, <2>3, <2>4, <2>5 DEF slice, IInv, FieldsOK, SliceOK
<1>5. CASE WalkNext
  <2>1. /\ UNCHANGED <<queues, thvars, count, timers, flags, slice>>
        /\ \/ phase' = "walk" /\ list' = "stopped" /\ walk' = HeadOf(stopped)
           \/ phase' = "alarm" /\ UNCHANGED cursor
    BY <1>5 DEF WalkNext
  <2>2. /\ HeadOf(stopped) \in Threads \cup {None}
        /\ HeadOf(stopped) # None => Suspended(HeadOf(stopped))
    BY HeadOfOK DEF IInv, QueuesOK, QueuesMatchStates
  <2>3. WalkOK'
    BY <2>1, <2>2 DEF WalkOK, queues, Running, Suspended
  <2> QED BY <2>1, <2>2, <2>3, QueuesUnchanged
          DEF thvars, flags, slice, cursor, IInv, FieldsOK, SliceOK, Phases
<1>6. ASSUME NEW t \in Threads, Expire(t)  PROVE IInv'
  <2>1. /\ timers[t] > 0 /\ timers' = [timers EXCEPT ![t] = @ - 1] /\ phase' = "expire"
        /\ UNCHANGED <<sleep, thvars, count, flags, slice, cursor>>
    BY <1>6 DEF Expire
  <2>2. QueuesOK'
    <3>1. CASE Suspended(t)
      BY <1>6, <3>1, ResumeOK DEF Expire, IInv
    <3>2. CASE ~ Suspended(t)
      <4>1. UNCHANGED queues
        BY <1>6, <3>2 DEF Expire, queues
      <4> QED BY <4>1, QueuesUnchanged DEF IInv
    <3> QED BY <3>1, <3>2
  <2>3. timers' \in [Threads -> 0..TimerBound]
    BY <2>1, Numbers DEF IInv, FieldsOK
  <2> QED BY <2>1, <2>2, <2>3
          DEF thvars, flags, slice, cursor, IInv, FieldsOK, SliceOK, WalkOK, Phases
<1> QED BY <1>1, <1>2, <1>3, <1>4, <1>5, <1>6 DEF Loop

\* The UNIX signal handlers.
LEMMA HandlersOK ==
  ASSUME IInv, Interrupt \/ Alarm
  PROVE  IInv'
<1>1. /\ UNCHANGED <<queues, thvars, count, timers, slice, cursor>>
      /\ phase' = phase \/ phase' = "exited"
      /\ signaling' \in BOOLEAN /\ aborting' \in BOOLEAN
      /\ pending' \subseteq Internal \cup External
  BY DEF Interrupt, Alarm, SetSignal, flags, External, IInv, FieldsOK
<1>2. QueuesOK'
  BY <1>1, QueuesUnchanged DEF IInv
<1>3. WalkOK'
  BY <1>1 DEF WalkOK, queues, cursor, Running, Suspended, IInv
<1> QED BY <1>1, <1>2, <1>3
        DEF thvars, slice, cursor, IInv, FieldsOK, SliceOK, Phases

LEMMA InitOK == Init => IInv
<1> SUFFICES ASSUME Init PROVE IInv
  OBVIOUS
<1>1. /\ Initial \in Seq(Threads) /\ NoDuplicates(Initial)
      /\ InitCount \in [Semaphores -> Int]
  BY SchedConstants DEF NoDuplicates
<1>2. Members(Initial) \subseteq Threads
  BY <1>1, ElementOfSeq DEF Members
<1>3. Members(<<>>) = {} /\ NoDuplicates(<<>>) /\ <<>> \in Seq(Threads)
  BY EmptySeq DEF Members, NoDuplicates
<1>4. QueuesOK
  BY <1>1, <1>2, <1>3 DEF Init, QueuesOK, QueuesMatchStates, Running, Suspended, States
<1>5. FieldsOK
  <2>1. 0 \in 0..CatchBound /\ 0 \in 0..TimerBound /\ 0 \in 0..Slice /\ 0 \in Int
    BY Numbers
  <2>2. /\ priority \in [Threads -> Int] /\ catches \in [Threads -> 0..CatchBound]
        /\ timers \in [Threads -> 0..TimerBound] /\ steps \in 0..Slice
    BY <2>1 DEF Init
  <2>3. /\ partial \in [Threads -> BOOLEAN]
        /\ inst \in [Threads -> Instructions \cup {Noop, None}]
        /\ count \in [Semaphores -> Int]
    BY <1>1 DEF Init
  <2>4. /\ signaling \in BOOLEAN /\ aborting \in BOOLEAN
        /\ pending \subseteq Internal \cup External
        /\ complete \in BOOLEAN /\ value \in BOOLEAN
        /\ phase \in Phases /\ thread \in Threads \cup {None}
        /\ list \in {"running", "stopped"} /\ walk \in Threads \cup {None}
    BY DEF Init, Phases
  <2> QED BY <2>2, <2>3, <2>4 DEF FieldsOK
<1> QED BY <1>4, <1>5 DEF IInv, SliceOK, WalkOK, Init

LEMMA NextOK == IInv /\ [Next]_vars => IInv'
<1> SUFFICES ASSUME IInv, [Next]_vars PROVE IInv'
  OBVIOUS
<1>1. CASE Next
  BY <1>1, ExecuteOK, PostOK, LoopOK, HandlersOK DEF Next, Internals
<1>2. CASE UNCHANGED vars
  <2>1. QueuesOK'
    BY <1>2, QueuesUnchanged DEF vars, IInv
  <2> QED BY <1>2, <2>1 DEF vars, queues, thvars, flags, slice, cursor,
                            IInv, FieldsOK, SliceOK, WalkOK, Running, Suspended
<1> QED BY <1>1, <1>2

-----------------------------------------------------------------------------
(* Flags *)

Raised == pending \cap {"suspend", "finished", "exception"}

\* The flags that an instruction raises for its thread are there only until the
\* end of the instruction, which then is aborted.
FlagsOK ==
  /\ phase = "post" /\ Raised # {} => Aborted
  /\ phase = "post" => \A f, g \in Raised : f = g
  /\ phase \notin {"post", "exited"} => Raised = {}

\* What an exception in a thread does to the flags.
LEMMA SignalThreadFlags ==
  ASSUME NEW t, NEW code, SignalThread(t, code)
  PROVE  SetSignal("error") \/ UNCHANGED flags
BY DEF SignalThread

LEMMA ExecuteFlags ==
  ASSUME FlagsOK, Execute
  PROVE  FlagsOK'
<1>1. phase = "exec" /\ phase' = "post"
  BY DEF Execute, SemaphoreWait, SemaphoreTest, SemaphoreSignal, ThreadJoin, ThreadKill,
         ThreadSendSignal, ThreadSetPriority, ThreadDoSleep, ThreadFork, ThreadTry,
         ThreadEndTry, ThreadEnd, ThreadNoop, Takes, Fetch
<1>2. Raised = {}
  BY <1>1 DEF FlagsOK
<1>3. ASSUME UNCHANGED flags  PROVE FlagsOK'
  BY <1>1, <1>2, <1>3 DEF FlagsOK, flags, Raised
<1>4. ASSUME NEW f \in Internal, SetSignal(f), complete' = FALSE  PROVE FlagsOK'
  <2>1. Raised' \subseteq {f} /\ aborting'
    BY <1>2, <1>4 DEF SetSignal, Raised
  <2> QED BY <1>1, <1>4, <2>1 DEF FlagsOK, Aborted
<1>5. ASSUME NEW s \in Semaphores, Wait(s)  PROVE FlagsOK'
  <2>1. UNCHANGED flags \/ (SetSignal("suspend") /\ complete' = FALSE)
    BY <1>5 DEF Wait, ThreadSleep
  <2>2. CASE UNCHANGED flags
    BY <1>3, <2>2
  <2>3. CASE SetSignal("suspend") /\ complete' = FALSE
    BY <1>4, <2>3 DEF Internal
  <2> QED BY <2>1, <2>2, <2>3
<1>6. ASSUME NEW s \in Semaphores,
             SemaphoreWait(s) \/ SemaphoreTest(s) \/ SemaphoreSignal(s)
      PROVE  FlagsOK'
  BY <1>3, <1>5, <1>6 DEF SemaphoreWait, SemaphoreTest, SemaphoreSignal
<1>7. ASSUME NEW t \in Threads, ThreadSendSignal(t)  PROVE FlagsOK'
  <2>1. \/ SetSignal("exception")
        \/ SignalThread(t, Fetched(Instruction("send_signal", t, 0)))
    BY <1>7 DEF ThreadSendSignal
  <2>2. \/ SetSignal("exception") \/ SetSignal("error") \/ UNCHANGED flags
    BY <2>1, SignalThreadFlags
  <2>3. complete' = FALSE
    BY <1>7 DEF ThreadSendSignal, Completes
  <2> QED BY <1>3, <1>4, <2>2, <2>3 DEF Internal
<1>8. ASSUME NEW t \in Threads, ThreadJoin(t)  PROVE FlagsOK'
  <2>1. UNCHANGED flags \/ (SetSignal("suspend") /\ complete' = FALSE)
    BY <1>8 DEF ThreadJoin, ThreadSleep, Completes
  <2> QED BY <1>3, <1>4, <2>1 DEF Internal
<1>9. ASSUME NEW t \in Threads,
             \/ ThreadKill(t) \/ ThreadFork(t)
             \/ \E p \in Priorities : ThreadSetPriority(t, p)
      PROVE  FlagsOK'
  BY <1>3, <1>9 DEF ThreadKill, ThreadFork, ThreadSetPriority
<1>10. ASSUME ThreadDoSleep \/ ThreadEnd  PROVE FlagsOK'
  <2>1. \/ UNCHANGED flags
        \/ SetSignal("suspend") /\ complete' = FALSE
        \/ SetSignal("finished") /\ complete' = FALSE
    BY <1>10 DEF ThreadDoSleep, ThreadEnd, Completes
  <2> QED BY <1>3, <1>4, <2>1 DEF Internal
<1>11. ASSUME ThreadTry \/ ThreadEndTry \/ ThreadNoop  PROVE FlagsOK'
  BY <1>3, <1>11 DEF ThreadTry, ThreadEndTry, ThreadNoop
<1> QED BY <1>6, <1>7, <1>8, <1>9, <1>10, <1>11 DEF Execute

LEMMA PostFlags ==
  ASSUME FlagsOK, Post
  PROVE  FlagsOK'
<1>1. phase = "post" /\ phase' \notin {"post", "exited"}
  BY DEF Post, AbortSuspend, AbortFinished, AbortException, AbortOther, StepDone, Leave
<1>2. Raised' = {}
  <2>1. CASE StepDone
    BY <1>1, <2>1 DEF StepDone, FlagsOK, flags, Raised
  <2>2. CASE AbortOther
    BY <2>2 DEF AbortOther, Raised
  <2>3. ASSUME NEW f \in Raised, pending' \subseteq pending \ {f}  PROVE Raised' = {}
    <3>1. \A g \in Raised : g = f
      BY <1>1, <2>3 DEF FlagsOK
    <3>2. \A g \in Raised' : g \in Raised /\ g # f
      BY <2>3 DEF Raised
    <3> QED BY <3>1, <3>2
  <2>4. CASE AbortSuspend \/ AbortFinished \/ AbortException
    BY <2>3, <2>4 DEF AbortSuspend, AbortFinished, AbortException, Raised
  <2> QED BY <2>1, <2>2, <2>4 DEF Post
<1> QED BY <1>1, <1>2 DEF FlagsOK

LEMMA LoopFlags ==
  ASSUME FlagsOK, Loop
  PROVE  FlagsOK'
<1>1. phase \notin {"post", "exited"} /\ phase' \notin {"post", "exited"}
  BY DEF Loop, Dispatch, Return, TakeSignals, CheckInterrupt, WalkSignal, WalkNext,
         CheckTimer, Expire, Expired
<1>2. \/ pending' \subseteq pending
      \/ SetSignal("error")
  <2>1. CASE WalkSignal
    BY <2>1, SignalThreadFlags DEF WalkSignal, flags
  <2>2. CASE ~ WalkSignal
    BY <2>2 DEF Loop, Dispatch, Return, TakeSignals, CheckInterrupt, WalkNext,
                CheckTimer, Expire, Expired, flags
  <2> QED BY <2>1, <2>2
<1> QED BY <1>1, <1>2 DEF FlagsOK, Raised, SetSignal

LEMMA NextFlags == FlagsOK /\ [Next]_vars => FlagsOK'
<1> SUFFICES ASSUME FlagsOK, [Next]_vars PROVE FlagsOK'
  OBVIOUS
<1>1. CASE Interrupt \/ Alarm
  <2>1. /\ phase' = phase \/ phase' = "exited"
        /\ Raised' = Raised /\ complete' = complete
        /\ aborting' = aborting \/ aborting' = TRUE
    BY <1>1 DEF Interrupt, Alarm, SetSignal, flags, slice, Raised
  <2> QED BY <2>1 DEF FlagsOK, Aborted
<1>2. CASE UNCHANGED vars
  BY <1>2 DEF vars, flags, slice, FlagsOK, Raised, Aborted
<1> QED BY <1>1, <1>2, ExecuteFlags, PostFlags, LoopFlags DEF Next, Internals

-----------------------------------------------------------------------------
(* Joins *)

Join(u) == Instruction("join", u, 0)

\* The thread that executes is in the run queue when its instruction starts, and
\* is not in the stop queue when it ends.
ThreadOK ==
  /\ phase = "exec" => Running(thread)
  /\ phase = "post" => ~ Suspended(thread)

\* A thread that joins is asleep on the thread it waits for, which has not
\* finished: when it is suspended, and already when it is about to be.
JoinOK ==
  /\ \A t, u \in Threads :
       Suspended(t) /\ inst[t] = Join(u) => sleep[t] = u /\ state[u] # "finished"
  /\ phase = "post" /\ "suspend" \in pending =>
       \A u \in Threads :
         inst[thread] = Join(u) => sleep[thread] = u /\ state[u] # "finished"

\* No thread falls asleep, no sleeper changes what it sleeps on or the
\* instruction that it is in, and who sleeps on a thread does so no more when
\* that thread is finished.
Quiet ==
  \A u \in Threads : state'[u] = "suspended" =>
    /\ Suspended(u) /\ sleep'[u] = sleep[u]
    /\ \A v \in Threads : state'[v] = "finished" => state[v] = "finished" \/ sleep[u] # v

LEMMA QuietQueues ==
  ASSUME UNCHANGED <<state, sleep>>
  PROVE  Quiet
BY DEF Quiet, Suspended

LEMMA QuietResume ==
  ASSUME QueuesOK, NEW t \in Threads, Suspended(t), Resume(t),
         sleep' = [sleep EXCEPT ![t] = None] \/ UNCHANGED sleep
  PROVE  Quiet
BY DEF Quiet, Resume, Suspended, QueuesOK

LEMMA QuietFinish ==
  ASSUME QueuesOK, NEW t \in Threads, Finish(t)
  PROVE  Quiet
<1>1. CASE state[t] = "finished"
  BY <1>1, QuietQueues DEF Finish, queues
<1>2. CASE state[t] # "finished"
  <2>1. /\ state' = [u \in Threads |-> IF u = t THEN "finished"
                                       ELSE IF u \in Sleepers(t) \ {t} THEN "running"
                                       ELSE state[u]]
        /\ sleep' = [u \in Threads |-> IF u \in Sleepers(t) \ {t} THEN None ELSE sleep[u]]
    BY <1>2 DEF Finish
  <2>2. ASSUME NEW u \in Threads, state'[u] = "suspended"
        PROVE  u # t /\ Suspended(u) /\ sleep'[u] = sleep[u] /\ sleep[u] # t
    BY <2>1, <2>2 DEF Sleepers, Suspended
  <2>3. \A v \in Threads : state'[v] = "finished" => v = t \/ state[v] = "finished"
    BY <2>1
  <2> QED BY <2>2, <2>3 DEF Quiet
<1> QED BY <1>1, <1>2

LEMMA QuietWakeOne ==
  ASSUME QueuesOK, NEW x, WakeOne(x)
  PROVE  Quiet
<1>1. CASE UNCHANGED queues
  BY <1>1, QuietQueues DEF queues
<1>2. CASE ~ UNCHANGED queues
  <2>1. PICK t \in Sleepers(x) : Resume(t) /\ sleep' = [sleep EXCEPT ![t] = None]
    BY <1>2 DEF WakeOne
  <2> QED BY <2>1, QuietResume DEF Sleepers
<1> QED BY <1>1, <1>2

LEMMA QuietSignalThread ==
  ASSUME QueuesOK, NEW t \in Threads, NEW code \in [Threads -> Instructions \cup {Noop, None}],
         SignalThread(t, code)
  PROVE  Quiet /\ (inst' = code \/ inst' = [code EXCEPT ![t] = Noop])
<1>1. inst' = code \/ inst' = [code EXCEPT ![t] = Noop]
  BY DEF SignalThread, Catch, Die
<1>2. CASE UNCHANGED queues
  BY <1>1, <1>2, QuietQueues DEF queues
<1>3. CASE Suspended(t) /\ Resume(t) /\ sleep' = [sleep EXCEPT ![t] = None]
  BY <1>1, <1>3, QuietResume
<1>4. CASE Finish(t)
  BY <1>1, <1>4, QuietFinish
<1> QED BY <1>2, <1>3, <1>4, <1>1 DEF SignalThread, Die

\* ThreadSleep changes what the executing thread sleeps on, which is not yet
\* suspended.
LEMMA QuietThreadSleep ==
  ASSUME QueuesOK, Running(thread), NEW x, ThreadSleep(x)
  PROVE  Quiet
BY DEF Quiet, ThreadSleep, Running, Suspended, QueuesOK

LEMMA OtherOp ==
  ASSUME NEW op, op # "join", NEW on, NEW to, NEW u
  PROVE  Instruction(op, on, to) # Join(u)
<1>1. Instruction(op, on, to).op = op /\ Join(u).op = "join"
  BY DEF Join, Instruction
<1> QED BY <1>1

\* A sleeper keeps the instruction that it is in, or goes to its catch block.
Asleep == \A u \in Threads : state'[u] = "suspended" => inst'[u] \in {inst[u], Noop}

\* An instruction is quiet; it stops its thread only later, and if it is a join
\* then on a thread that has not finished.
LEMMA ExecuteQuiet ==
  ASSUME IInv, FlagsOK, ThreadOK, Execute
  PROVE  /\ Quiet /\ Asleep /\ phase' = "post" /\ thread' = thread
         /\ "suspend" \in pending' =>
              \A u \in Threads :
                inst'[thread] = Join(u) => sleep'[thread] = u /\ state'[u] # "finished"
<1>1. /\ phase = "exec" /\ phase' = "post" /\ thread' = thread
      /\ thread \in Threads /\ Running(thread) /\ "suspend" \notin pending
  <2>1. phase = "exec" /\ phase' = "post" /\ thread' = thread
    BY DEF Execute, SemaphoreWait, SemaphoreTest, SemaphoreSignal, ThreadJoin, ThreadKill,
           ThreadSendSignal, ThreadSetPriority, ThreadDoSleep, ThreadFork, ThreadTry,
           ThreadEndTry, ThreadEnd, ThreadNoop, Takes, Fetch
  <2> QED BY <2>1 DEF FlagsOK, Raised, ThreadOK, IInv, SliceOK
<1> DEFINE Goal == /\ Quiet /\ Asleep
                   /\ "suspend" \in pending' =>
                        \A u \in Threads :
                          inst'[thread] = Join(u) =>
                            sleep'[thread] = u /\ state'[u] # "finished"
<1>2. ASSUME NEW i, inst' = Fetched(i), Quiet  PROVE Asleep
  <2>1. \A u \in Threads : u # thread => inst'[u] = inst[u]
    BY <1>2 DEF Fetched, IInv, FieldsOK
  <2>2. state'[thread] # "suspended"
    BY <1>1, <1>2 DEF Quiet, Running, Suspended
  <2> QED BY <2>1, <2>2 DEF Asleep
<1>3. ASSUME NEW op, NEW on, NEW to, Takes(Instruction(op, on, to)), Quiet, op # "join"
      PROVE  Goal
  <2>1. inst' = Fetched(Instruction(op, on, to))
    BY <1>3 DEF Takes
  <2>2. inst'[thread] = Instruction(op, on, to)
    BY <1>1, <2>1 DEF Fetched, IInv, FieldsOK
  <2>3. \A u : Instruction(op, on, to) # Join(u)
    BY <1>3, OtherOp
  <2> QED BY <1>2, <1>3, <2>1, <2>2, <2>3
<1>4. QueuesOK
  BY DEF IInv
<1>5. ASSUME NEW s \in Semaphores,
             SemaphoreWait(s) \/ SemaphoreTest(s) \/ SemaphoreSignal(s)
      PROVE  Goal
  <2>1. \/ Takes(Instruction("wait", s, 0))
        \/ Takes(Instruction("test", s, 0))
        \/ Takes(Instruction("signal", s, 0))
    BY <1>5 DEF SemaphoreWait, SemaphoreTest, SemaphoreSignal
  <2>2. UNCHANGED queues \/ ThreadSleep(s) \/ WakeOne(s)
    BY <1>5 DEF SemaphoreWait, SemaphoreTest, SemaphoreSignal, Wait
  <2>3. Quiet
    BY <1>1, <1>4, <2>2, QuietThreadSleep, QuietWakeOne, QuietQueues DEF queues
  <2> QED BY <1>3, <2>1, <2>3
<1>6. ASSUME NEW t \in Threads, ThreadJoin(t)  PROVE Goal
  <2>1. inst' = Fetched(Join(t))
    BY <1>6 DEF ThreadJoin, Takes, Join
  <2>2. CASE ThreadSleep(t) /\ state[t] # "finished"
    <3>1. Quiet
      BY <1>1, <1>4, <2>2, QuietThreadSleep
    <3>2. sleep'[thread] = t /\ state' = state
      BY <1>1, <1>4, <2>2 DEF ThreadSleep, QueuesOK
    <3>3. inst'[thread] = Join(t)
      BY <1>1, <2>1 DEF Fetched, IInv, FieldsOK
    <3>4. \A u \in Threads : Join(t) = Join(u) => t = u
      BY DEF Join, Instruction
    <3> QED BY <1>2, <2>1, <2>2, <3>1, <3>2, <3>3, <3>4
  <2>3. CASE UNCHANGED <<priority, queues, flags>>
    <3>1. Quiet
      BY <2>3, QuietQueues DEF queues
    <3>2. "suspend" \notin pending'
      BY <1>1, <2>3 DEF flags
    <3> QED BY <1>2, <2>1, <3>1, <3>2
  <2> QED BY <1>6, <2>2, <2>3 DEF ThreadJoin
<1>7. ASSUME NEW t \in Threads, ThreadKill(t)  PROVE Goal
  <2>1. Takes(Instruction("kill", t, 0))
    BY <1>7 DEF ThreadKill
  <2>2. Quiet
    BY <1>4, <1>7, QuietFinish DEF ThreadKill
  <2> QED BY <1>3, <2>1, <2>2
<1>8. ASSUME NEW t \in Threads, ThreadSendSignal(t)  PROVE Goal
  <2> DEFINE i == Instruction("send_signal", t, 0)
  <2>1. Fetch(i)
    BY <1>8 DEF ThreadSendSignal
  <2>2. CASE inst' = Fetched(i) /\ UNCHANGED queues
    <3>1. Quiet
      BY <2>2, QuietQueues DEF queues
    <3> QED BY <1>3, <2>1, <2>2, <3>1 DEF Takes
  <2>3. CASE SignalThread(t, Fetched(i))
    <3>1. Fetched(i) \in [Threads -> Instructions \cup {Noop, None}]
      BY <2>1, FetchOK
    <3>2. Quiet /\ (inst' = Fetched(i) \/ inst' = [Fetched(i) EXCEPT ![t] = Noop])
      BY <1>4, <2>3, <3>1, QuietSignalThread
    <3>3. state'[thread] # "suspended"
      BY <1>1, <3>2 DEF Quiet, Running, Suspended
    <3>4. \A u \in Threads : u # thread => inst'[u] \in {inst[u], Noop}
      BY <3>1, <3>2 DEF Fetched, IInv, FieldsOK
    <3>5. "suspend" \notin pending'
      <4>1. SetSignal("error") \/ UNCHANGED flags
        BY <2>3, SignalThreadFlags
      <4> QED BY <1>1, <4>1 DEF SetSignal, flags
    <3> QED BY <3>2, <3>3, <3>4, <3>5 DEF Asleep
  <2> QED BY <1>8, <2>2, <2>3 DEF ThreadSendSignal
<1>9. ASSUME NEW t \in Threads,
             ThreadFork(t) \/ \E p \in Priorities : ThreadSetPriority(t, p)
      PROVE  Goal
  <2>1. \/ Takes(Instruction("fork", None, 0))
        \/ \E p \in Priorities : Takes(Instruction("set_priority", t, p))
    BY <1>9 DEF ThreadFork, ThreadSetPriority
  <2>2. Quiet
    <3>1. CASE ThreadFork(t)
      BY <1>4, <3>1 DEF ThreadFork, Quiet, Suspended, QueuesOK
    <3>2. CASE \E p \in Priorities : ThreadSetPriority(t, p)
      BY <3>2, QuietQueues DEF ThreadSetPriority
    <3> QED BY <1>9, <3>1, <3>2
  <2> QED BY <1>3, <2>1, <2>2
<1>10. ASSUME ThreadDoSleep \/ ThreadTry \/ ThreadEndTry \/ ThreadEnd \/ ThreadNoop
       PROVE  Goal
  <2>1. \E op \in {"sleep", "try", "endtry", "end", "noop"} :
          Takes(Instruction(op, None, 0))
    BY <1>10 DEF ThreadDoSleep, ThreadTry, ThreadEndTry, ThreadEnd, ThreadNoop, Noop
  <2>2. UNCHANGED queues
    BY <1>10 DEF ThreadDoSleep, ThreadTry, ThreadEndTry, ThreadEnd, ThreadNoop
  <2>3. Quiet
    BY <2>2, QuietQueues DEF queues
  <2> QED BY <1>3, <2>1, <2>3
<1>11. Goal
  BY <1>5, <1>6, <1>7, <1>8, <1>9, <1>10 DEF Execute
<1> QED BY <1>1, <1>11

\* After an instruction and between instructions only AbortSuspend is not quiet.
LEMMA RestQuiet ==
  ASSUME IInv, ThreadOK, Post \/ Loop, ~ AbortSuspend
  PROVE  Quiet /\ Asleep
<1>1. QueuesOK /\ inst \in [Threads -> Instructions \cup {Noop, None}]
  BY DEF IInv, FieldsOK
<1>2. ASSUME Quiet, UNCHANGED inst  PROVE Asleep
  BY <1>2 DEF Asleep
<1>3. CASE Post
  <2>1. thread \in Threads /\ ~ Suspended(thread)
    BY <1>3 DEF IInv, SliceOK, ThreadOK, Post, AbortSuspend, AbortFinished,
                AbortException, AbortOther, StepDone, Leave
  <2>2. CASE AbortFinished
    BY <1>1, <1>2, <2>1, <2>2, QuietFinish DEF AbortFinished
  <2>3. CASE AbortException
    <3>1. CASE Catch(thread, inst) /\ UNCHANGED queues
      <4>1. Quiet
        BY <3>1, QuietQueues DEF queues
      <4>2. \A u \in Threads : inst'[u] \in {inst[u], Noop}
        BY <1>1, <3>1 DEF Catch
      <4> QED BY <4>1, <4>2 DEF Asleep
    <3>2. CASE Die(thread, inst)
      BY <1>1, <1>2, <2>1, <3>2, QuietFinish DEF Die
    <3> QED BY <2>3, <3>1, <3>2 DEF AbortException
  <2>4. CASE AbortOther
    BY <1>2, <2>4, QuietQueues DEF AbortOther, queues
  <2>5. CASE StepDone
    <3>1. Quiet
      BY <2>5, QuietQueues DEF StepDone
    <3>2. state'[thread] # "suspended"
      BY <2>1, <3>1 DEF Quiet
    <3>3. \A u \in Threads : u # thread => inst'[u] = inst[u]
      BY <1>1, <2>5 DEF StepDone
    <3> QED BY <3>1, <3>2, <3>3 DEF Asleep
  <2> QED BY <1>3, <2>2, <2>3, <2>4, <2>5 DEF Post
<1>4. CASE Loop
  <2>1. CASE WalkSignal
    <3>1. walk \in Threads /\ SignalThread(walk, inst)
      BY <2>1 DEF WalkSignal, IInv, FieldsOK
    <3>2. Quiet /\ (inst' = inst \/ inst' = [inst EXCEPT ![walk] = Noop])
      BY <1>1, <3>1, QuietSignalThread
    <3>3. \A u \in Threads : inst'[u] \in {inst[u], Noop}
      BY <1>1, <3>2
    <3> QED BY <3>2, <3>3 DEF Asleep
  <2>2. ASSUME NEW t \in Threads, Expire(t)  PROVE Quiet /\ Asleep
    <3>1. CASE Suspended(t)
      BY <1>1, <1>2, <2>2, <3>1, QuietResume DEF Expire, thvars
    <3>2. CASE ~ Suspended(t)
      BY <1>2, <2>2, <3>2, QuietQueues DEF Expire, thvars
    <3> QED BY <3>1, <3>2
  <2>3. CASE \/ Dispatch \/ Return \/ TakeSignals \/ CheckInterrupt \/ WalkNext
             \/ CheckTimer \/ Expired
    BY <1>2, <2>3, QuietQueues DEF Dispatch, Return, TakeSignals, CheckInterrupt,
       WalkNext, CheckTimer, Expired, queues, thvars
  <2> QED BY <1>4, <2>1, <2>2, <2>3 DEF Loop
<1> QED BY <1>3, <1>4

\* The executing thread is in the run queue.
LEMMA ThreadOKNext ==
  ASSUME IInv, FlagsOK, ThreadOK, [Next]_vars
  PROVE  ThreadOK'
<1>1. CASE Execute
  <2>1. Quiet /\ phase' = "post" /\ thread' = thread
    BY <1>1, ExecuteQuiet
  <2>2. phase = "exec"
    BY <1>1 DEF Execute, SemaphoreWait, SemaphoreTest, SemaphoreSignal, ThreadJoin,
       ThreadKill, ThreadSendSignal, ThreadSetPriority, ThreadDoSleep, ThreadFork,
       ThreadTry, ThreadEndTry, ThreadEnd, ThreadNoop, Takes, Fetch
  <2>3. thread \in Threads /\ Running(thread)
    BY <2>2 DEF ThreadOK, IInv, SliceOK
  <2>4. state'[thread] # "suspended"
    BY <2>1, <2>3 DEF Quiet, Running, Suspended
  <2> QED BY <2>1, <2>4 DEF ThreadOK, Suspended
<1>2. CASE StepDone
  <2>1. phase' # "post" /\ (phase' = "exec" => HeadOf(running') = thread) /\ thread' = thread
    BY <1>2 DEF StepDone
  <2>2. thread \in Threads /\ thread # None
    BY <1>2, SchedConstants DEF StepDone, IInv, SliceOK
  <2>3. IInv'
    BY <1>2, PostOK DEF Post
  <2>4. running' \in Seq(Threads) /\ \A t \in Members(running') : state'[t] = "running"
    BY <2>3 DEF IInv, QueuesOK, QueuesMatchStates, Running
  <2>5. HeadOf(running') = None \/ HeadOf(running') \in Members(running')
    BY <2>4, HeadOfOK
  <2> QED BY <2>1, <2>2, <2>4, <2>5 DEF ThreadOK, Running
<1>3. CASE Dispatch
  <2>1. thread' = HeadOf(running) /\ UNCHANGED queues /\ phase' = "exec"
    BY <1>3 DEF Dispatch, HeadOf
  <2>2. running \in Seq(Threads) /\ running # <<>>
    BY <1>3 DEF Dispatch, IInv, QueuesOK
  <2>3. HeadOf(running) \in Members(running)
    <3>1. HeadOf(running) = running[1] /\ 1 \in DOMAIN running
      BY <2>2, LenProperties DEF HeadOf
    <3> QED BY <3>1 DEF Members
  <2> QED BY <2>1, <2>3 DEF ThreadOK, IInv, QueuesOK, QueuesMatchStates, queues, Running
<1>4. CASE Post /\ ~ StepDone
  BY <1>4 DEF Post, AbortSuspend, AbortFinished, AbortException, AbortOther, Leave, ThreadOK
<1>5. CASE Loop /\ ~ Dispatch
  BY <1>5 DEF Loop, Return, TakeSignals, CheckInterrupt, WalkSignal, WalkNext,
              CheckTimer, Expire, Expired, ThreadOK
<1>6. CASE Interrupt \/ Alarm \/ UNCHANGED vars
  BY <1>6 DEF Interrupt, Alarm, vars, queues, slice, ThreadOK, Running, Suspended
<1> QED BY <1>1, <1>2, <1>3, <1>4, <1>5, <1>6 DEF Next, Internals

LEMMA JoinOKNext ==
  ASSUME IInv, FlagsOK, ThreadOK, JoinOK, [Next]_vars
  PROVE  JoinOK'
<1> DEFINE Sleeping == \A t, u \in Threads :
             Suspended(t) /\ inst[t] = Join(u) => sleep[t] = u /\ state[u] # "finished"
<1>1. \A u \in Threads : Noop # Join(u)
  BY DEF Noop, Join, Instruction
<1>2. ASSUME Quiet, Asleep  PROVE Sleeping'
  <2>1. ASSUME NEW t \in Threads, NEW u \in Threads, state'[t] = "suspended",
               inst'[t] = Join(u)
        PROVE  sleep'[t] = u /\ state'[u] # "finished"
    <3>1. inst[t] = Join(u)
      BY <1>1, <1>2, <2>1 DEF Asleep
    <3>2. Suspended(t) /\ sleep'[t] = sleep[t]
      BY <1>2, <2>1 DEF Quiet
    <3>3. sleep[t] = u /\ state[u] # "finished"
      BY <3>1, <3>2 DEF JoinOK
    <3> QED BY <1>2, <2>1, <3>2, <3>3 DEF Quiet
  <2> QED BY <2>1 DEF Suspended
<1>3. CASE Execute
  BY <1>2, <1>3, ExecuteQuiet DEF JoinOK
<1>4. CASE AbortSuspend
  <2>1. /\ phase = "post" /\ phase' = "top" /\ "suspend" \in pending
        /\ thread \in Threads /\ UNCHANGED <<sleep, inst>>
        /\ state' = state \/ state' = [state EXCEPT ![thread] = "suspended"]
    BY <1>4 DEF AbortSuspend, Leave, IInv, SliceOK
  <2>2. \A u \in Threads : state'[u] = "suspended" => Suspended(u) \/ u = thread
    BY <2>1 DEF Suspended, IInv, QueuesOK
  <2>3. \A u \in Threads : state'[u] = "finished" => state[u] = "finished"
    BY <2>1 DEF IInv, QueuesOK
  <2> QED BY <2>1, <2>2, <2>3 DEF JoinOK, Suspended
<1>5. CASE (Post \/ Loop) /\ ~ AbortSuspend
  <2>1. Sleeping'
    BY <1>2, <1>5, RestQuiet
  <2>2. phase' # "post"
    BY <1>5 DEF Post, AbortSuspend, AbortFinished, AbortException, AbortOther, StepDone,
       Leave, Loop, Dispatch, Return, TakeSignals, CheckInterrupt, WalkSignal, WalkNext,
       CheckTimer, Expire, Expired
  <2> QED BY <2>1, <2>2 DEF JoinOK
<1>6. CASE Interrupt \/ Alarm \/ UNCHANGED vars
  <2>1. /\ UNCHANGED <<state, sleep, inst, thread>>
        /\ phase' = "post" => phase = "post"
        /\ "suspend" \in pending' => "suspend" \in pending
    BY <1>6 DEF Interrupt, Alarm, SetSignal, vars, queues, thvars, flags, slice
  <2> QED BY <2>1 DEF JoinOK, Suspended
<1> QED BY <1>3, <1>4, <1>5, <1>6 DEF Next, Internals

-----------------------------------------------------------------------------
(* Order of the queues *)

\* A queue is sorted but for the place of x.
SortedBut(q, prio, x) ==
  \A i, j \in DOMAIN q :
    i < j /\ q[i] # x /\ q[j] # x => prio[q[i]] >= prio[q[j]]

\* What _ThreadInsert finds: every thread in front of the place is at least as
\* urgent, and the thread at the place is less urgent.
LEMMA InsertPlaceFirst ==
  ASSUME NEW q \in Seq(Threads), NEW lower \in SUBSET DOMAIN q,
         NEW k, k = CHOOSE i \in lower \cup {Len(q) + 1} : \A j \in lower : i <= j
  PROVE  /\ k \in 1..(Len(q) + 1)
         /\ k \in lower \cup {Len(q) + 1} /\ \A j \in lower : k <= j
<1> DEFINE P(i) == i \in lower \cup {Len(q) + 1} /\ \A j \in lower : i <= j
<1>1. lower \subseteq 1..Len(q) /\ Len(q) \in Nat
  BY LenProperties
<1>2. \E i : P(i)
  <2>1. CASE lower = {}
    BY <2>1
  <2>2. CASE lower # {}
    BY <1>1, <2>2, FirstPlace
  <2> QED BY <2>1, <2>2
<1>3. P(CHOOSE i : P(i))
  BY <1>2
<1>4. P(k)
  BY <1>3
<1> QED BY <1>4, InsertPlace

\* _ThreadInsert keeps a queue sorted.
LEMMA InsertSorted ==
  ASSUME NEW q \in Seq(Threads), NEW t \in Threads, NEW prio \in [Threads -> Int],
         SortedBy(q, prio)
  PROVE  SortedBy(Insert(q, t, prio), prio)
<1> DEFINE lower == {i \in DOMAIN q : prio[q[i]] < prio[t]}
           k == CHOOSE i \in lower \cup {Len(q) + 1} : \A j \in lower : i <= j
           r == [i \in 1..(Len(q) + 1) |->
                   IF i < k THEN q[i] ELSE IF i = k THEN t ELSE q[i - 1]]
<1>1. Insert(q, t, prio) = r
  BY DEF Insert
<1>2. /\ k \in 1..(Len(q) + 1)
      /\ k \in lower \cup {Len(q) + 1} /\ \A j \in lower : k <= j
  <2>1. lower \in SUBSET DOMAIN q
    OBVIOUS
  <2> HIDE DEF lower
  <2> QED BY <2>1, InsertPlaceFirst
<1> HIDE DEF k
<1>3. Len(q) \in Nat /\ DOMAIN q = 1..Len(q) /\ \A i \in 1..Len(q) : q[i] \in Threads
  BY LenProperties, ElementOfSeq
<1>4. \A i \in 1..Len(q) : prio[q[i]] \in Int
  BY <1>3
<1>5. ASSUME NEW i \in 1..Len(q), i < k  PROVE prio[q[i]] >= prio[t]
  <2>1. i \notin lower
    BY <1>2, <1>3, <1>5
  <2> QED BY <1>3, <1>4, <2>1
<1>6. ASSUME NEW i \in 1..Len(q), k <= i  PROVE prio[q[i]] < prio[t]
  <2>1. k \in lower
    BY <1>2, <1>3, <1>6
  <2>2. prio[q[k]] < prio[t] /\ k \in 1..Len(q)
    BY <1>3, <2>1
  <2>3. CASE k = i
    BY <2>2, <2>3
  <2>4. CASE k < i
    <3>1. k \in DOMAIN q /\ i \in DOMAIN q
      BY <1>3, <2>2
    <3>2. prio[q[k]] >= prio[q[i]]
      BY <2>4, <3>1 DEF SortedBy
    <3> QED BY <1>4, <2>2, <3>2
  <2>5. k = i \/ k < i
    BY <1>2, <1>3, <1>6
  <2> QED BY <2>3, <2>4, <2>5
<1>7. ASSUME NEW i \in 1..(Len(q) + 1), NEW j \in 1..(Len(q) + 1), i < j
      PROVE  prio[r[i]] >= prio[r[j]]
  <2>1. CASE j < k
    <3>1. i \in 1..Len(q) /\ j \in 1..Len(q) /\ r[i] = q[i] /\ r[j] = q[j]
      BY <1>2, <1>3, <1>7, <2>1
    <3> QED BY <1>3, <1>7, <3>1 DEF SortedBy
  <2>2. CASE j = k
    <3>1. i \in 1..Len(q) /\ r[i] = q[i] /\ r[j] = t
      BY <1>2, <1>3, <1>7, <2>2
    <3> QED BY <1>2, <1>5, <1>7, <2>2, <3>1
  <2>3. CASE k < j
    <3>1. j - 1 \in 1..Len(q) /\ r[j] = q[j - 1] /\ k <= j - 1
      BY <1>2, <1>3, <2>3
    <3>2. prio[q[j - 1]] < prio[t]
      BY <1>6, <3>1
    <3>3. CASE i < k
      <4>1. i \in 1..Len(q) /\ r[i] = q[i]
        BY <1>2, <1>3, <3>3
      <4> QED BY <1>4, <1>5, <3>1, <3>2, <3>3, <4>1
    <3>4. CASE i = k
      BY <1>4, <3>1, <3>2, <3>4
    <3>5. CASE k < i
      <4>1. i - 1 \in 1..Len(q) /\ r[i] = q[i - 1] /\ i - 1 < j - 1
        BY <1>2, <1>3, <1>7, <3>5
      <4> QED BY <1>3, <3>1, <4>1 DEF SortedBy
    <3> QED BY <1>2, <3>3, <3>4, <3>5
  <2> QED BY <1>2, <2>1, <2>2, <2>3
<1>8. DOMAIN r = 1..(Len(q) + 1)
  OBVIOUS
<1> HIDE DEF r
<1> QED BY <1>1, <1>7, <1>8 DEF SortedBy

\* _ThreadRemove leaves a sorted queue, whatever the priority of the thread is.
LEMMA RemoveSorted ==
  ASSUME NEW q \in Seq(Threads), NEW t \in Members(q), NoDuplicates(q), NEW prio,
         SortedBut(q, prio, t)
  PROVE  SortedBy(Remove(q, t), prio)
<1> DEFINE k == Place(q, t)
           r == [i \in 1..(Len(q) - 1) |-> IF i < k THEN q[i] ELSE q[i + 1]]
<1>1. Remove(q, t) = r
  BY DEF Remove
<1>2. Len(q) \in Nat /\ DOMAIN q = 1..Len(q)
  BY LenProperties
<1>3. k \in 1..Len(q) /\ q[k] = t
  BY <1>2, PlaceType
<1> HIDE DEF k
<1>4. \A l, m \in 1..Len(q) : q[l] = q[m] => l = m
  BY <1>2 DEF NoDuplicates
<1>5. ASSUME NEW i \in 1..(Len(q) - 1), NEW j \in 1..(Len(q) - 1), i < j
      PROVE  prio[r[i]] >= prio[r[j]]
  <2> DEFINE l(x) == IF x < k THEN x ELSE x + 1
  <2>1. /\ l(i) \in 1..Len(q) /\ l(j) \in 1..Len(q) /\ l(i) < l(j)
        /\ l(i) # k /\ l(j) # k /\ r[i] = q[l(i)] /\ r[j] = q[l(j)]
    BY <1>2, <1>3, <1>5
  <2> HIDE DEF l, r
  <2> QED BY <1>2, <1>3, <1>4, <2>1 DEF SortedBut
<1>6. DOMAIN r = 1..(Len(q) - 1)
  OBVIOUS
<1> HIDE DEF r
<1> QED BY <1>1, <1>5, <1>6 DEF SortedBy

\* What ThreadFinish makes of the queues is sorted.
LEMMA ArrangementsSorted ==
  ASSUME NEW c \in Seq(Threads), NEW S \in SUBSET Members(c),
         NEW prio \in [Threads -> Int], NEW q \in Arrangements(S, c, prio)
  PROVE  SortedBy(q, prio)
<1>1. q \in Seq(Threads)
  BY ArrangementsType
<1>2. \A i \in DOMAIN q : prio[q[i]] \in Int
  BY <1>1, LenProperties, ElementOfSeq
<1>3. \A i, j \in DOMAIN q : i < j => prio[q[i]] > prio[q[j]] \/ prio[q[i]] = prio[q[j]]
  BY DEF Arrangements
<1> QED BY <1>2, <1>3 DEF SortedBy


-----------------------------------------------------------------------------
(* Priorities *)

BothSorted == SortedBy(running, priority) /\ SortedBy(stopped, priority)

\* Only the thread that is about to be stopped may be in a place that is not that
\* of its priority: ThreadSleep has changed it in the queue.
OrderOK ==
  /\ SortedBy(stopped, priority) /\ SortedBut(running, priority, thread)
  /\ \/ phase \in {"post", "exited"}
     \/ SortedBy(running, priority)
  /\ phase = "post" /\ "suspend" \notin pending => SortedBy(running, priority)
  /\ phase = "post" /\ "suspend" \in pending => Running(thread)
  /\ phase = "exec" => HeadOf(running) = thread

LEMMA SortedAlone ==
  ASSUME NEW q, NEW prio, NEW x, SortedBy(q, prio)
  PROVE  SortedBut(q, prio, x)
BY DEF SortedBy, SortedBut

\* A queue without t is sorted whatever the priority of t becomes.
LEMMA SortedWithout ==
  ASSUME NEW q, NEW prio, NEW new, NEW t, SortedBy(q, prio), t \notin Members(q),
         \A u \in Members(q) : u # t => new[u] = prio[u]
  PROVE  SortedBy(q, new)
BY DEF SortedBy, Members

LEMMA ResumeSorted ==
  ASSUME QueuesOK, priority \in [Threads -> Int], BothSorted, UNCHANGED priority,
         NEW t \in Threads, Suspended(t), Resume(t)
  PROVE  BothSorted'
<1>1. t \in Members(stopped) /\ NoDuplicates(stopped)
  BY DEF QueuesOK, QueuesMatchStates
<1>2. SortedBy(stopped', priority)
  BY <1>1, SortedAlone, RemoveSorted DEF QueuesOK, Resume, BothSorted
<1>3. SortedBy(running', priority)
  BY InsertSorted DEF QueuesOK, Resume, BothSorted
<1> QED BY <1>2, <1>3 DEF BothSorted

LEMMA WakeOneSorted ==
  ASSUME QueuesOK, priority \in [Threads -> Int], BothSorted, UNCHANGED priority,
         NEW x, WakeOne(x)
  PROVE  BothSorted'
<1>1. CASE UNCHANGED queues
  BY <1>1 DEF queues, BothSorted
<1>2. CASE ~ UNCHANGED queues
  <2>1. PICK t \in Sleepers(x) : Resume(t)
    BY <1>2 DEF WakeOne
  <2> QED BY <2>1, ResumeSorted DEF Sleepers
<1> QED BY <1>1, <1>2

\* The queues when a thread has finished are sorted even if they were not.
LEMMA FinishSorted ==
  ASSUME QueuesOK, priority \in [Threads -> Int], BothSorted, UNCHANGED priority,
         NEW t \in Threads, Finish(t)
  PROVE  BothSorted'
<1>1. CASE state[t] = "finished"
  BY <1>1 DEF Finish, queues, BothSorted
<1>2. CASE state[t] # "finished"
  <2> DEFINE q == IF Running(t) THEN Remove(running, t) ELSE running
             s == IF Suspended(t) THEN Remove(stopped, t) ELSE stopped
             W == Sleepers(t) \ {t}
  <2>1. /\ running' \in Arrangements(Members(q) \cup W, q \o s, priority)
        /\ stopped' \in Arrangements(Members(s) \ W, s, priority)
    BY <1>2 DEF Finish
  <2>2. q \in Seq(Threads)
    BY RemoveType DEF QueuesOK, QueuesMatchStates
  <2>3. s \in Seq(Threads) /\ Members(s) = {u \in Threads : Suspended(u)} \ {t}
    BY RemoveType DEF QueuesOK, QueuesMatchStates
  <2>4. W \subseteq Members(s)
    BY <2>3 DEF Sleepers
  <2> HIDE DEF q, s, W
  <2>5. q \o s \in Seq(Threads) /\ Members(q \o s) = Members(q) \cup Members(s)
    BY <2>2, <2>3, ConcatMembers
  <2>6. SortedBy(running', priority)
    BY <2>1, <2>4, <2>5, ArrangementsSorted
  <2>7. SortedBy(stopped', priority)
    BY <2>1, <2>3, ArrangementsSorted
  <2> QED BY <2>6, <2>7 DEF BothSorted
<1> QED BY <1>1, <1>2

LEMMA SignalThreadSorted ==
  ASSUME QueuesOK, priority \in [Threads -> Int], BothSorted, UNCHANGED priority,
         NEW t \in Threads, NEW code, SignalThread(t, code)
  PROVE  BothSorted'
<1>1. \/ UNCHANGED queues \/ Finish(t)
      \/ Suspended(t) /\ Resume(t)
  BY DEF SignalThread, Die
<1> QED BY <1>1, ResumeSorted, FinishSorted DEF queues, BothSorted

\* A thread goes to the place of its priority.
LEMMA MoveSorted ==
  ASSUME NEW q \in Seq(Threads), NEW t \in Members(q), NEW prio \in [Threads -> Int],
         NoDuplicates(q), SortedBut(q, prio, t)
  PROVE  SortedBy(Insert(Remove(q, t), t, prio), prio)
<1>1. SortedBy(Remove(q, t), prio) /\ Remove(q, t) \in Seq(Threads) /\ t \in Threads
  BY RemoveSorted, RemoveType, ElementOfSeq DEF Members
<1> QED BY <1>1, InsertSorted

\* What an instruction leaves, by what it does.
LEMMA ExecuteOrder ==
  ASSUME IInv, FlagsOK, ThreadOK, OrderOK, Execute
  PROVE  OrderOK'
<1>1. /\ phase = "exec" /\ phase' = "post" /\ thread' = thread
      /\ thread \in Threads /\ Running(thread) /\ "suspend" \notin pending
  <2>1. phase = "exec" /\ phase' = "post" /\ thread' = thread
    BY DEF Execute, SemaphoreWait, SemaphoreTest, SemaphoreSignal, ThreadJoin, ThreadKill,
           ThreadSendSignal, ThreadSetPriority, ThreadDoSleep, ThreadFork, ThreadTry,
           ThreadEndTry, ThreadEnd, ThreadNoop, Takes, Fetch
  <2> QED BY <2>1 DEF FlagsOK, Raised, ThreadOK, IInv, SliceOK
<1>2. QueuesOK /\ priority \in [Threads -> Int] /\ BothSorted
  BY <1>1 DEF IInv, FieldsOK, OrderOK, BothSorted
<1>3. ASSUME BothSorted', "suspend" \notin pending'  PROVE OrderOK'
  <2>1. SortedBut(running', priority', thread')
    BY <1>3, SortedAlone DEF BothSorted
  <2> QED BY <1>1, <1>3, <2>1 DEF OrderOK, BothSorted
<1>4. ASSUME UNCHANGED <<queues, priority>>, "suspend" \notin pending' \/ UNCHANGED state
      PROVE  OrderOK'
  <2>1. SortedBut(running, priority, thread)
    BY <1>2, SortedAlone DEF BothSorted
  <2> QED BY <1>1, <1>2, <1>4, <2>1 DEF OrderOK, BothSorted, queues, Running
<1>5. ASSUME NEW x, ThreadSleep(x)  PROVE OrderOK'
  <2>1. thread \notin Members(stopped)
    BY <1>1, <1>2 DEF QueuesOK, QueuesMatchStates, Running, Suspended
  <2>2. /\ UNCHANGED <<running, stopped, state>>
        /\ priority' = [priority EXCEPT ![thread] = PrioritySync]
    BY <1>5 DEF ThreadSleep
  <2>3. \A u \in Threads : u # thread => priority'[u] = priority[u]
    BY <1>2, <2>2
  <2>4. Members(stopped) \subseteq Threads /\ Members(running) \subseteq Threads
    BY <1>2 DEF QueuesOK, QueuesMatchStates
  <2>5. SortedBy(stopped, priority')
    BY <1>2, <2>1, <2>3, <2>4, SortedWithout DEF BothSorted
  <2>6. SortedBut(running, priority', thread)
    <3>1. SortedBut(running, priority, thread)
      BY <1>2, SortedAlone DEF BothSorted
    <3>2. \A i \in DOMAIN running : running[i] \in Threads
      BY <2>4 DEF Members
    <3> QED BY <2>3, <3>1, <3>2 DEF SortedBut
  <2>7. "suspend" \in pending'
    BY <1>5 DEF ThreadSleep, SetSignal
  <2> QED BY <1>1, <2>2, <2>5, <2>6, <2>7 DEF OrderOK, Running
<1>6. ASSUME NEW s \in Semaphores, Wait(s)  PROVE OrderOK'
  <2>1. UNCHANGED <<priority, queues, flags>> \/ ThreadSleep(s)
    BY <1>6 DEF Wait
  <2> QED BY <1>1, <1>4, <1>5, <2>1 DEF flags
<1>7. ASSUME NEW s \in Semaphores,
             SemaphoreWait(s) \/ SemaphoreTest(s) \/ SemaphoreSignal(s)
      PROVE  OrderOK'
  <2>1. \/ Wait(s)
        \/ UNCHANGED <<priority, queues, flags>>
        \/ UNCHANGED <<priority, flags>> /\ WakeOne(s)
    BY <1>7 DEF SemaphoreWait, SemaphoreTest, SemaphoreSignal
  <2>2. CASE UNCHANGED <<priority, flags>> /\ WakeOne(s)
    BY <1>1, <1>2, <1>3, <2>2, WakeOneSorted DEF flags
  <2> QED BY <1>1, <1>4, <1>6, <2>1, <2>2 DEF flags
<1>8. ASSUME NEW t \in Threads, ThreadJoin(t)  PROVE OrderOK'
  BY <1>1, <1>4, <1>5, <1>8 DEF ThreadJoin, flags
<1>9. ASSUME NEW t \in Threads, ThreadKill(t)  PROVE OrderOK'
  BY <1>1, <1>2, <1>3, <1>9, FinishSorted DEF ThreadKill, flags
<1>10. ASSUME NEW t \in Threads, ThreadSendSignal(t)  PROVE OrderOK'
  <2>1. UNCHANGED priority
    BY <1>10 DEF ThreadSendSignal
  <2>2. CASE SetSignal("exception") /\ UNCHANGED queues
    BY <1>1, <1>4, <2>1, <2>2 DEF SetSignal
  <2>3. CASE SignalThread(t, Fetched(Instruction("send_signal", t, 0)))
    <3>1. SetSignal("error") \/ UNCHANGED flags
      BY <2>3, SignalThreadFlags
    <3>2. "suspend" \notin pending'
      BY <1>1, <3>1 DEF SetSignal, flags
    <3>3. BothSorted'
      BY <1>2, <2>1, <2>3, SignalThreadSorted
    <3> QED BY <1>3, <3>2, <3>3
  <2> QED BY <1>10, <2>2, <2>3 DEF ThreadSendSignal
<1>11. ASSUME NEW t \in Threads, ThreadFork(t)  PROVE OrderOK'
  <2>1. /\ UNCHANGED <<stopped, priority, flags>>
        /\ running' = Insert(running, t, priority)
    BY <1>11 DEF ThreadFork
  <2>2. BothSorted'
    BY <1>2, <2>1, InsertSorted DEF BothSorted, QueuesOK
  <2> QED BY <1>1, <1>3, <2>1, <2>2 DEF flags
<1>12. ASSUME NEW t \in Threads, NEW p \in Priorities, ThreadSetPriority(t, p)
       PROVE  OrderOK'
  <2>1. "suspend" \notin pending'
    BY <1>1, <1>12 DEF ThreadSetPriority, flags
  <2>2. CASE UNCHANGED <<priority, running, stopped>>
    BY <1>2, <1>3, <2>1, <2>2 DEF BothSorted
  <2>3. CASE /\ priority' = [priority EXCEPT ![t] = p]
             /\ running' = IF Running(t) /\ p # priority[t]
                           THEN Insert(Remove(running, t), t, priority')
                           ELSE running
             /\ stopped' = IF Suspended(t) /\ p # priority[t]
                           THEN Insert(Remove(stopped, t), t, priority')
                           ELSE stopped
    <3>1. priority' \in [Threads -> Int] /\ \A u \in Threads : u # t => priority'[u] = priority[u]
      BY <1>2, <2>3, Numbers
    <3>2. CASE p = priority[t]
      <4>1. priority' = priority
        BY <1>2, <2>3, <3>2
      <4> QED BY <1>2, <1>3, <2>1, <2>3, <3>2, <4>1 DEF BothSorted
    <3>3. ASSUME NEW q \in Seq(Threads), SortedBy(q, priority), NoDuplicates(q)
          PROVE  /\ t \in Members(q) => SortedBy(Insert(Remove(q, t), t, priority'), priority')
                 /\ t \notin Members(q) => SortedBy(q, priority')
      <4>1. \A u \in Members(q) : u \in Threads
        BY ElementOfSeq DEF Members
      <4>2. SortedBut(q, priority', t)
        BY <3>1, <3>3, <4>1 DEF SortedBy, SortedBut, Members
      <4> QED BY <3>1, <3>3, <4>1, <4>2, MoveSorted, SortedWithout
    <3>4. CASE p # priority[t]
      <4>1. /\ t \in Members(running) <=> Running(t)
            /\ t \in Members(stopped) <=> Suspended(t)
        BY <1>2 DEF QueuesOK, QueuesMatchStates
      <4>2. SortedBy(running', priority')
        BY <1>2, <2>3, <3>3, <3>4, <4>1 DEF QueuesOK, QueuesMatchStates, BothSorted
      <4>3. SortedBy(stopped', priority')
        BY <1>2, <2>3, <3>3, <3>4, <4>1 DEF QueuesOK, QueuesMatchStates, BothSorted
      <4> QED BY <1>3, <2>1, <4>2, <4>3 DEF BothSorted
    <3> QED BY <3>2, <3>4
  <2> QED BY <1>12, <2>2, <2>3 DEF ThreadSetPriority
<1>13. ASSUME ThreadDoSleep \/ ThreadTry \/ ThreadEndTry \/ ThreadEnd \/ ThreadNoop
       PROVE  OrderOK'
  <2>1. UNCHANGED <<queues, priority>>
    BY <1>13 DEF ThreadDoSleep, ThreadTry, ThreadEndTry, ThreadEnd, ThreadNoop
  <2> QED BY <1>4, <2>1 DEF queues
<1> QED BY <1>7, <1>8, <1>9, <1>10, <1>11, <1>12, <1>13 DEF Execute

LEMMA PostOrder ==
  ASSUME IInv, FlagsOK, OrderOK, Post
  PROVE  OrderOK'
<1>1. /\ thread \in Threads /\ phase = "post" /\ thread' = thread /\ UNCHANGED priority
      /\ phase' \in {"top", "exec"}
  BY DEF IInv, SliceOK, Post, AbortSuspend, AbortFinished, AbortException,
         AbortOther, StepDone, Leave
<1>2. QueuesOK /\ priority \in [Threads -> Int]
  BY DEF IInv, FieldsOK
<1>3. ASSUME BothSorted', phase' = "exec" => HeadOf(running') = thread'  PROVE OrderOK'
  <2>1. SortedBut(running', priority', thread')
    BY <1>3, SortedAlone DEF BothSorted
  <2> QED BY <1>1, <1>3, <2>1 DEF OrderOK, BothSorted
<1>4. CASE AbortSuspend
  <2>1. /\ phase' = "top" /\ Running(thread)
        /\ running' = Remove(running, thread)
        /\ stopped' = Insert(stopped, thread, priority)
    BY <1>4 DEF AbortSuspend, Leave, OrderOK
  <2>2. thread \in Members(running) /\ NoDuplicates(running)
    BY <1>1, <1>2, <2>1 DEF QueuesOK, QueuesMatchStates
  <2>3. SortedBy(running', priority)
    BY <1>1, <1>2, <2>1, <2>2, RemoveSorted DEF OrderOK, QueuesOK
  <2>4. SortedBy(stopped', priority)
    BY <1>1, <1>2, <2>1, InsertSorted DEF OrderOK, QueuesOK
  <2> QED BY <1>1, <1>3, <2>1, <2>3, <2>4 DEF BothSorted
<1>5. CASE ~ AbortSuspend
  <2>1. "suspend" \notin pending
    <3>1. CASE "suspend" \in pending
      <4>1. Raised # {} /\ Aborted
        BY <1>1, <3>1 DEF FlagsOK, Raised
      <4>2. \A f \in Raised : f = "suspend"
        BY <1>1, <3>1 DEF FlagsOK, Raised
      <4>3. "finished" \notin pending /\ "exception" \notin pending
        BY <4>2 DEF Raised
      <4> QED BY <1>5, <3>1, <4>1, <4>3
              DEF Post, AbortFinished, AbortException, AbortOther, StepDone
    <3> QED BY <3>1
  <2>2. BothSorted
    BY <1>1, <2>1 DEF OrderOK, BothSorted
  <2>3. CASE StepDone
    <3>1. phase' = "exec" => HeadOf(running') = thread'
      BY <2>3 DEF StepDone
    <3>2. ASSUME NEW q \in Seq(Threads), thread \in Members(q), NoDuplicates(q),
                 SortedBy(q, priority)
          PROVE  SortedBy(Insert(Remove(q, thread), thread, priority), priority)
      BY <1>2, <3>2, SortedAlone, MoveSorted
    <3>3. /\ Running(thread) => thread \in Members(running)
          /\ Suspended(thread) => thread \in Members(stopped)
      BY <1>1, <1>2 DEF QueuesOK, QueuesMatchStates
    <3>4. SortedBy(running', priority)
      BY <1>2, <2>2, <2>3, <3>2, <3>3 DEF StepDone, BothSorted, QueuesOK, QueuesMatchStates
    <3>5. SortedBy(stopped', priority)
      BY <1>2, <2>2, <2>3, <3>2, <3>3 DEF StepDone, BothSorted, QueuesOK, QueuesMatchStates
    <3> QED BY <1>1, <1>3, <3>1, <3>4, <3>5 DEF BothSorted
  <2>4. CASE ~ StepDone
    <3>1. phase' = "top" /\ (UNCHANGED queues \/ Finish(thread))
      BY <1>5, <2>4 DEF Post, AbortFinished, AbortException, AbortOther, Leave, Die
    <3>2. BothSorted'
      BY <1>1, <1>2, <2>2, <3>1, FinishSorted DEF queues, BothSorted
    <3> QED BY <1>3, <3>1, <3>2
  <2> QED BY <2>3, <2>4
<1> QED BY <1>4, <1>5

LEMMA LoopOrder ==
  ASSUME IInv, OrderOK, Loop
  PROVE  OrderOK'
<1>1. /\ phase \notin {"post", "exited", "exec"} /\ phase' \notin {"post", "exited"}
      /\ phase' = "exec" => Dispatch
      /\ UNCHANGED priority
  BY DEF Loop, Dispatch, Return, TakeSignals, CheckInterrupt, WalkSignal, WalkNext,
         CheckTimer, Expire, Expired, thvars
<1>2. QueuesOK /\ priority \in [Threads -> Int] /\ BothSorted
  BY <1>1 DEF IInv, FieldsOK, OrderOK, BothSorted
<1>3. BothSorted'
  <2>1. CASE WalkSignal
    <3>1. walk \in Threads /\ SignalThread(walk, inst)
      BY <2>1 DEF WalkSignal, IInv, FieldsOK
    <3> QED BY <1>1, <1>2, <3>1, SignalThreadSorted
  <2>2. ASSUME NEW t \in Threads, Expire(t)  PROVE BothSorted'
    <3>1. CASE Suspended(t)
      BY <1>1, <1>2, <2>2, <3>1, ResumeSorted DEF Expire
    <3>2. CASE ~ Suspended(t)
      BY <1>1, <1>2, <2>2, <3>2 DEF Expire, BothSorted
    <3> QED BY <3>1, <3>2
  <2>3. CASE \/ Dispatch \/ Return \/ TakeSignals \/ CheckInterrupt \/ WalkNext
             \/ CheckTimer \/ Expired
    BY <1>1, <1>2, <2>3 DEF Dispatch, Return, TakeSignals, CheckInterrupt, WalkNext,
       CheckTimer, Expired, queues, BothSorted
  <2> QED BY <2>1, <2>2, <2>3 DEF Loop
<1>4. SortedBut(running', priority', thread')
  BY <1>3, SortedAlone DEF BothSorted
<1>5. phase' = "exec" => HeadOf(running') = thread'
  BY <1>1 DEF Dispatch, HeadOf, queues
<1> QED BY <1>1, <1>3, <1>4, <1>5 DEF OrderOK, BothSorted

LEMMA NextOrder ==
  ASSUME IInv, FlagsOK, ThreadOK, OrderOK, [Next]_vars
  PROVE  OrderOK'
<1>1. CASE Interrupt \/ Alarm
  <2>1. /\ UNCHANGED <<running, stopped, state, priority, thread>>
        /\ phase' = phase \/ phase' = "exited"
        /\ "suspend" \in pending' <=> "suspend" \in pending
    BY <1>1 DEF Interrupt, Alarm, SetSignal, flags, slice, queues, thvars
  <2> QED BY <2>1 DEF OrderOK, Running
<1>2. CASE UNCHANGED vars
  BY <1>2 DEF vars, queues, thvars, flags, slice, OrderOK, Running
<1> QED BY <1>1, <1>2, ExecuteOrder, PostOrder, LoopOrder DEF Next, Internals

\* The head of a sorted queue is as urgent as any of its threads.
LEMMA HeadUrgent ==
  ASSUME NEW q \in Seq(Threads), NEW prio \in [Threads -> Int], SortedBy(q, prio),
         NEW t \in Members(q)
  PROVE  prio[t] <= prio[HeadOf(q)]
<1>1. PICK i \in DOMAIN q : q[i] = t
  BY DEF Members
<1>2. DOMAIN q = 1..Len(q) /\ Len(q) \in Nat /\ q # <<>>
  BY <1>1, LenProperties, EmptySeq
<1>3. HeadOf(q) = q[1] /\ 1 \in DOMAIN q
  BY <1>1, <1>2 DEF HeadOf
<1>4. prio[q[1]] \in Int /\ prio[q[i]] \in Int
  BY <1>1, <1>3, ElementOfSeq, <1>2
<1>5. i = 1 \/ prio[q[1]] >= prio[q[i]]
  BY <1>1, <1>2, <1>3 DEF SortedBy
<1> QED BY <1>1, <1>3, <1>4, <1>5

-----------------------------------------------------------------------------
(* Theorems *)

\* The inductive invariant: the queues agree with the states of the threads, an
\* instruction is executed by a thread within its slice, and the thread that the
\* walk of ThreadsSignal comes to next is in one of the queues.
THEOREM Invariance == Spec => []IInv
BY InitOK, NextOK, PTL DEF Spec

\* Every variable keeps its type, the cursor of ThreadsSignal included although
\* threads are taken out of the queue that it walks.
THEOREM TypeCorrect == Spec => []TypeOK
<1>1. IInv => TypeOK
  BY DEF IInv, QueuesOK, FieldsOK, TypeOK
<1> QED BY <1>1, Invariance, PTL

\* For any number of threads and semaphores, any program and any ^C and alarm, the
\* run queue holds exactly the running threads and the stop queue exactly the
\* suspended ones, each once: no thread is lost and none is in two places.
THEOREM QueuesAgree == Spec => []QueuesMatchStates
<1>1. IInv => QueuesMatchStates
  BY DEF IInv, QueuesOK
<1> QED BY <1>1, Invariance, PTL

\* A flag that an instruction raised is taken by its own thread, before any other
\* instruction, signal or timer is looked at.
THEOREM FlagsStay == Spec => []FlagsStayWithThread
<1>1. Init => FlagsOK
  BY DEF Init, FlagsOK, Raised
<1>2. FlagsOK => FlagsStayWithThread
  BY DEF FlagsOK, Raised, FlagsStayWithThread
<1> QED BY <1>1, <1>2, NextFlags, PTL DEF Spec

\* No join is lost: a thread that is suspended in a join sleeps on a thread that
\* has not finished, in every interleaving of joins, ends, kills, uncaught
\* signals and wakeups.
THEOREM JoinsWake == Spec => []NoLostJoin
<1> DEFINE Inv == IInv /\ FlagsOK /\ ThreadOK /\ JoinOK
<1>1. Init => Inv
  <2>1. Init => IInv /\ FlagsOK /\ ThreadOK
    BY InitOK DEF Init, FlagsOK, Raised, ThreadOK
  <2>2. Init => JoinOK
    BY DEF Init, JoinOK, Suspended
  <2> QED BY <2>1, <2>2
<1>2. Inv /\ [Next]_vars => Inv'
  BY NextOK, NextFlags, ThreadOKNext, JoinOKNext
<1>3. Inv => NoLostJoin
  BY DEF JoinOK, Join, NoLostJoin
<1> HIDE DEF Inv
<1> QED BY <1>1, <1>2, <1>3, PTL DEF Spec

\* The priorities decide in every program: both queues are sorted whenever the
\* loop inserts into them, in spite of set_priority and of ThreadSleep, which
\* changes the priority of a queued thread, and the thread whose instruction
\* starts is the first of the run queue, than which none is more urgent.
THEOREM UrgentRuns == Spec => []UrgentFirst
<1> DEFINE Inv == IInv /\ FlagsOK /\ ThreadOK /\ OrderOK
<1>1. Init => Inv
  <2>1. Init => IInv /\ FlagsOK /\ ThreadOK
    BY InitOK DEF Init, FlagsOK, Raised, ThreadOK
  <2>2. ASSUME Init  PROVE OrderOK
    <3>1. \A t \in Threads : priority[t] = 0
      BY <2>2 DEF Init
    <3>2. SortedBy(running, priority)
      <4>1. \A i \in DOMAIN running : running[i] \in Threads
        BY <2>2, SchedConstants, ElementOfSeq, LenProperties DEF Init
      <4> QED BY <3>1, <4>1 DEF SortedBy
    <3>3. SortedBy(stopped, priority)
      BY <2>2 DEF Init, SortedBy
    <3> QED BY <2>2, <3>2, <3>3, SortedAlone DEF Init, OrderOK
  <2> QED BY <2>1, <2>2
<1>2. Inv /\ [Next]_vars => Inv'
  BY NextOK, NextFlags, ThreadOKNext, NextOrder
<1>3. Inv => UrgentFirst
  <2> SUFFICES ASSUME Inv PROVE UrgentFirst
    OBVIOUS
  <2>1. QueuesSorted
    BY DEF OrderOK, QueuesSorted
  <2>2. ASSUME phase = "exec", NEW t \in Threads, Running(t)
        PROVE  priority[t] <= priority[thread]
    <3>1. t \in Members(running) /\ SortedBy(running, priority) /\ HeadOf(running) = thread
      BY <2>2 DEF OrderOK, IInv, QueuesOK, QueuesMatchStates
    <3>2. running \in Seq(Threads) /\ priority \in [Threads -> Int]
      BY DEF IInv, QueuesOK, FieldsOK
    <3> QED BY <3>1, <3>2, HeadUrgent
  <2>3. HighestRuns
    BY <2>2 DEF HighestRuns, OrderOK
  <2> QED BY <2>1, <2>3 DEF UrgentFirst
<1> HIDE DEF Inv
<1> QED BY <1>1, <1>2, <1>3, PTL DEF Spec

\* ... and signals, ^C and alarms at any point leave the queues, the joins and
\* the flags in order.
THEOREM SignalsKeepOrder == Spec => []SignalsLeaveOrder
BY QueuesAgree, JoinsWake, FlagsStay, PTL DEF SignalsLeaveOrder

=============================================================================
