-------------------------- MODULE SemaphoreProofs --------------------------
(***************************************************************************)
(* Proofs about SchedSemaphore: what the operations of sched.c do to the   *)
(* order of a queue, that the count of a semaphore says how many threads   *)
(* wait for it, and that the scheduler implements Semaphore; and about     *)
(* Mutex: that one thread at a time has the permit of the semaphore of a   *)
(* mutex, that the owner field names the thread that has it, and that a    *)
(* mutex nobody holds can be taken.                                        *)
(***************************************************************************)
EXTENDS SchedSemaphore, Mutex, SchedProofs

-----------------------------------------------------------------------------
(* The order of the threads in a queue *)

Before(q, x, y) == Place(q, x) < Place(q, y)

\* A thread is in one place of a queue.
LEMMA PlaceOf ==
  ASSUME NEW q, NoDuplicates(q), NEW i \in DOMAIN q
  PROVE  Place(q, q[i]) = i
BY DEF Place, NoDuplicates

\* The places of the members are numbers, and different.
LEMMA Places ==
  ASSUME NEW q \in Seq(Threads)
  PROVE  /\ \A x \in Members(q) : Place(q, x) \in 1..Len(q) /\ q[Place(q, x)] = x
         /\ \A x, y \in Members(q) : Place(q, x) = Place(q, y) => x = y
         /\ Members(q) \subseteq Threads
<1>1. DOMAIN q = 1..Len(q) /\ Len(q) \in Nat
  BY LenProperties
<1>2. \A x \in Members(q) : Place(q, x) \in 1..Len(q) /\ q[Place(q, x)] = x
  BY <1>1, PlaceType
<1>3. Members(q) \subseteq Threads
  BY <1>1, ElementOfSeq DEF Members
<1> QED BY <1>2, <1>3

\* _ThreadInsert keeps the order of the others, and puts the thread behind those
\* that are at least as urgent.
LEMMA InsertBefore ==
  ASSUME NEW q \in Seq(Threads), NEW t \in Threads, NEW prio \in [Threads -> Int],
         NoDuplicates(q), t \notin Members(q), SortedBy(q, prio)
  PROVE  /\ \A x, y \in Members(q) : Before(Insert(q, t, prio), x, y) <=> Before(q, x, y)
         /\ \A x \in Members(q) : prio[x] >= prio[t] => Before(Insert(q, t, prio), x, t)
<1> DEFINE lower == {i \in DOMAIN q : prio[q[i]] < prio[t]}
           k == CHOOSE i \in lower \cup {Len(q) + 1} : \A j \in lower : i <= j
           r == [i \in 1..(Len(q) + 1) |->
                   IF i < k THEN q[i] ELSE IF i = k THEN t ELSE q[i - 1]]
<1>1. Insert(q, t, prio) = r
  BY DEF Insert
<1>2. k \in 1..(Len(q) + 1) /\ k \in lower \cup {Len(q) + 1}
  <2>1. lower \in SUBSET DOMAIN q
    OBVIOUS
  <2> HIDE DEF lower
  <2> QED BY <2>1, InsertPlaceFirst
<1>3. Len(q) \in Nat /\ DOMAIN q = 1..Len(q)
  BY LenProperties
<1> HIDE DEF k
<1>4. k <= Len(q) => prio[q[k]] < prio[t]
  BY <1>2, <1>3
<1>5. \A i \in 1..Len(q) : prio[q[i]] \in Int
  BY <1>3, ElementOfSeq
<1>6. NoDuplicates(r)
  <2>1. NoDuplicates(Insert(q, t, prio))
    BY InsertType
  <2> HIDE DEF r
  <2> QED BY <1>1, <2>1
<1>7. DOMAIN r = 1..(Len(q) + 1)
  OBVIOUS
<1>8. ASSUME NEW x \in Members(q)
      PROVE  Place(r, x) = IF Place(q, x) < k THEN Place(q, x) ELSE Place(q, x) + 1
  <2>1. Place(q, x) \in 1..Len(q) /\ q[Place(q, x)] = x
    BY Places
  <2>2. CASE Place(q, x) < k
    <3>1. Place(q, x) \in DOMAIN r /\ r[Place(q, x)] = x
      BY <1>2, <1>3, <1>7, <2>1, <2>2
    <3> QED BY <1>6, <2>2, <3>1, PlaceOf
  <2>3. CASE ~ (Place(q, x) < k)
    <3>1. Place(q, x) + 1 \in DOMAIN r /\ r[Place(q, x) + 1] = x
      BY <1>2, <1>3, <1>7, <2>1, <2>3
    <3> QED BY <1>6, <2>3, <3>1, PlaceOf
  <2> QED BY <2>2, <2>3
<1>9. Place(r, t) = k
  <2>1. k \in DOMAIN r /\ r[k] = t
    BY <1>2, <1>3
  <2> QED BY <1>6, <2>1, PlaceOf
<1>10. ASSUME NEW x \in Members(q), NEW y \in Members(q)
       PROVE  Before(r, x, y) <=> Before(q, x, y)
  <2>1. Place(q, x) \in Int /\ Place(q, y) \in Int /\ k \in Int
    BY <1>2, <1>3, Places
  <2> QED BY <1>8, <2>1 DEF Before
<1>11. ASSUME NEW x \in Members(q), prio[x] >= prio[t]  PROVE Before(r, x, t)
  <2>1. Place(q, x) \in 1..Len(q) /\ q[Place(q, x)] = x
    BY Places
  <2>2. CASE Place(q, x) < k
    BY <1>8, <1>9, <2>2 DEF Before
  <2>3. CASE k <= Place(q, x)
    <3>1. k \in 1..Len(q) /\ prio[q[k]] < prio[t]
      BY <1>2, <1>3, <1>4, <2>1, <2>3
    <3>2. k = Place(q, x) \/ prio[q[k]] >= prio[q[Place(q, x)]]
      BY <1>2, <1>3, <2>1, <2>3, <3>1 DEF SortedBy
    <3>3. prio[q[k]] \in Int /\ prio[x] \in Int /\ prio[t] \in Int
      BY <1>5, <2>1, <3>1
    <3> QED BY <1>11, <2>1, <3>1, <3>2, <3>3
  <2> QED BY <1>2, <1>3, <2>1, <2>2, <2>3
<1> HIDE DEF r
<1> QED BY <1>1, <1>10, <1>11

\* _ThreadRemove keeps the order of the others.
LEMMA RemoveBefore ==
  ASSUME NEW q \in Seq(Threads), NEW t \in Members(q), NoDuplicates(q),
         NEW x \in Members(q), NEW y \in Members(q), x # t, y # t
  PROVE  Before(Remove(q, t), x, y) <=> Before(q, x, y)
<1> DEFINE k == Place(q, t)
           r == [i \in 1..(Len(q) - 1) |-> IF i < k THEN q[i] ELSE q[i + 1]]
<1>1. Remove(q, t) = r
  BY DEF Remove
<1>2. Len(q) \in Nat /\ DOMAIN q = 1..Len(q)
  BY LenProperties
<1>3. k \in 1..Len(q) /\ q[k] = t
  BY <1>2, PlaceType
<1> HIDE DEF k
<1>4. NoDuplicates(r)
  BY <1>1, RemoveType
<1>5. DOMAIN r = 1..(Len(q) - 1)
  OBVIOUS
<1>6. ASSUME NEW z \in Members(q), z # t
      PROVE  Place(r, z) = IF Place(q, z) < k THEN Place(q, z) ELSE Place(q, z) - 1
  <2>1. Place(q, z) \in 1..Len(q) /\ q[Place(q, z)] = z /\ Place(q, z) # k
    BY <1>3, <1>6, Places
  <2>2. CASE Place(q, z) < k
    <3>1. Place(q, z) \in DOMAIN r /\ r[Place(q, z)] = z
      BY <1>2, <1>3, <1>5, <2>1, <2>2
    <3> QED BY <1>4, <2>2, <3>1, PlaceOf
  <2>3. CASE ~ (Place(q, z) < k)
    <3>1. Place(q, z) - 1 \in DOMAIN r /\ r[Place(q, z) - 1] = z
      BY <1>2, <1>3, <1>5, <2>1, <2>3
    <3> QED BY <1>4, <2>3, <3>1, PlaceOf
  <2> QED BY <2>2, <2>3
<1>7. /\ Place(q, x) \in Int /\ Place(q, y) \in Int /\ k \in Int
      /\ Place(q, x) # k /\ Place(q, y) # k
  BY <1>2, <1>3, Places
<1> HIDE DEF r
<1> QED BY <1>1, <1>6, <1>7 DEF Before

\* ThreadFinish keeps the order of threads of equal priority.
LEMMA ArrangementsBefore ==
  ASSUME NEW c \in Seq(Threads), NEW S \in SUBSET Members(c),
         NEW prio \in [Threads -> Int], NEW q \in Arrangements(S, c, prio),
         NEW x \in S, NEW y \in S, prio[x] = prio[y]
  PROVE  Before(q, x, y) <=> Before(c, x, y)
<1>1. q \in Seq(Threads) /\ Members(q) = S
  BY ArrangementsType
<1> DEFINE i == Place(q, x)
           j == Place(q, y)
<1>2. /\ i \in DOMAIN q /\ j \in DOMAIN q /\ q[i] = x /\ q[j] = y
      /\ i \in Int /\ j \in Int
  BY <1>1, Places, LenProperties
<1>3. Place(c, x) \in Int /\ Place(c, y) \in Int /\ prio[x] \in Int
  BY Places
<1> HIDE DEF i, j
<1>4. \A m, n \in DOMAIN q : m < n =>
        \/ prio[q[m]] > prio[q[n]]
        \/ prio[q[m]] = prio[q[n]] /\ Place(c, q[m]) < Place(c, q[n])
  BY DEF Arrangements
<1>5. i < j => Place(c, x) < Place(c, y)
  BY <1>2, <1>3, <1>4
<1>6. j < i => Place(c, y) < Place(c, x)
  BY <1>2, <1>3, <1>4
<1>7. i = j => x = y
  BY <1>2
<1> QED BY <1>2, <1>3, <1>5, <1>6, <1>7 DEF Before, i, j

-----------------------------------------------------------------------------
(* The threads of a set in the order of a queue *)

\* q lists the threads of S in the order of the queue c.
Lists(q, S, c) ==
  /\ q \in [1..Cardinality(S) -> S]
  /\ Members(q) = S
  /\ \A i, j \in DOMAIN q : i < j => Before(c, q[i], q[j])

Level == [t \in Threads |-> 0]

\* The waiters of WaitQueue are listed in the order of the stop queue.
LEMMA ListsLevel ==
  ASSUME NEW S \in SUBSET Threads, NEW c
  PROVE  \A q : q \in Arrangements(S, c, Level) <=> Lists(q, S, c)
<1> SUFFICES ASSUME NEW q, q \in [1..Cardinality(S) -> S]
             PROVE  \A i, j \in DOMAIN q :
                      \/ Level[q[i]] > Level[q[j]]
                      \/ Level[q[i]] = Level[q[j]] /\ Place(c, q[i]) < Place(c, q[j])
                      <=> Place(c, q[i]) < Place(c, q[j])
  BY DEF Arrangements, Lists, Before
<1> QED BY DEF Level

\* A list of threads of c is a sequence, and the threads are in it once.
LEMMA ListsType ==
  ASSUME NEW c \in Seq(Threads), NEW S \in SUBSET Members(c), NEW q, Lists(q, S, c)
  PROVE  /\ q \in Seq(Threads) /\ Len(q) = Cardinality(S) /\ Len(q) \in Nat
         /\ DOMAIN q = 1..Len(q) /\ NoDuplicates(q)
<1>1. S \subseteq Threads
  BY Places
<1>2. Level \in [Threads -> Int]
  BY DEF Level
<1>3. q \in Arrangements(S, c, Level)
  BY <1>1, ListsLevel
<1>4. q \in Seq(Threads) /\ NoDuplicates(q)
  BY <1>2, <1>3, ArrangementsType
<1>5. IsFiniteSet(S)
  BY MembersFinite, FS_Subset
<1>6. Cardinality(S) \in Nat
  BY <1>5, FS_CardinalityType
<1>7. DOMAIN q = 1..Cardinality(S) /\ DOMAIN q = 1..Len(q) /\ Len(q) \in Nat
  BY <1>4, LenProperties DEF Lists
<1>8. Len(q) = Cardinality(S)
  <2>1. \A m, n \in Nat : 1..m = 1..n => m = n
    <3> SUFFICES ASSUME NEW m \in Nat, NEW n \in Nat, 1..m = 1..n, m < n PROVE FALSE
      OBVIOUS
    <3>1. n \in 1..n /\ n \notin 1..m
      OBVIOUS
    <3> QED BY <3>1
  <2> QED BY <1>6, <1>7, <2>1
<1> QED BY <1>4, <1>7, <1>8

\* There is one way only to list the threads of S.
LEMMA ListsUnique ==
  ASSUME NEW c \in Seq(Threads), NEW S \in SUBSET Members(c),
         NEW q, NEW r, Lists(q, S, c), Lists(r, S, c)
  PROVE  q = r
<1> DEFINE n == Cardinality(S)
           D == {i \in 1..n : q[i] # r[i]}
<1>1. /\ DOMAIN q = 1..n /\ DOMAIN r = 1..n /\ n \in Nat
      /\ Members(q) = S /\ Members(r) = S
      /\ q \in [1..n -> S] /\ r \in [1..n -> S]
  BY ListsType DEF Lists
<1>2. \A i, j \in 1..n : i < j => Before(c, q[i], q[j]) /\ Before(c, r[i], r[j])
  BY <1>1 DEF Lists
<1>3. \A x \in S : Place(c, x) \in Int
  BY Places
<1> HIDE DEF n
<1> SUFFICES ASSUME D # {} PROVE FALSE
  BY <1>1
<1>4. PICK d \in D : \A j \in D : d <= j
  <2>1. D \in SUBSET Nat
    BY <1>1
  <2> HIDE DEF D
  <2> QED BY <2>1, FirstPlace
<1>5. /\ d \in 1..n /\ q[d] # r[d] /\ q[d] \in S /\ r[d] \in S
      /\ \A i \in 1..n : i < d => q[i] = r[i]
  BY <1>1, <1>4
<1>6. PICK j \in 1..n : r[j] = q[d]
  BY <1>1, <1>5 DEF Members
<1>7. PICK i \in 1..n : q[i] = r[d]
  BY <1>1, <1>5 DEF Members
<1>8. d < j
  <2>1. CASE j < d
    <3>1. q[j] = q[d] /\ Before(c, q[j], q[d])
      BY <1>2, <1>5, <1>6, <2>1
    <3> QED BY <1>3, <1>5, <3>1 DEF Before
  <2> QED BY <1>1, <1>5, <1>6, <2>1
<1>9. d < i
  <2>1. CASE i < d
    <3>1. r[i] = r[d] /\ Before(c, r[i], r[d])
      BY <1>2, <1>5, <1>7, <2>1
    <3> QED BY <1>3, <1>5, <3>1 DEF Before
  <2> QED BY <1>1, <1>5, <1>7, <2>1
<1>10. Before(c, r[d], q[d]) /\ Before(c, q[d], r[d])
  BY <1>2, <1>5, <1>6, <1>7, <1>8, <1>9
<1> QED BY <1>3, <1>5, <1>10 DEF Before

\* A thread that is behind all of S comes last.
LEMMA ListsAppend ==
  ASSUME NEW c \in Seq(Threads), NEW S \in SUBSET Members(c), NEW q, Lists(q, S, c),
         NEW t \in Members(c), t \notin S, \A x \in S : Before(c, x, t)
  PROVE  Lists(Append(q, t), S \cup {t}, c)
<1>1. /\ q \in Seq(Threads) /\ Len(q) = Cardinality(S) /\ Len(q) \in Nat
      /\ DOMAIN q = 1..Len(q)
  BY ListsType
<1>2. t \in Threads
  BY Places
<1> DEFINE r == Append(q, t)
           n == Len(q)
<1>3. /\ r \in Seq(Threads) /\ DOMAIN r = 1..(n + 1)
      /\ \A i \in 1..n : r[i] = q[i]
      /\ r[n + 1] = t
  <2>1. r \in Seq(Threads) /\ Len(r) = n + 1
    BY <1>1, <1>2, AppendProperties
  <2>2. \A i \in 1..n : r[i] = q[i]
    BY <1>1, <1>2, AppendProperties
  <2>3. r[n + 1] = t
    BY <1>1, <1>2, AppendProperties
  <2> HIDE DEF r, n
  <2> QED BY <2>1, <2>2, <2>3, LenProperties
<1>4. Cardinality(S \cup {t}) = n + 1
  <2>1. IsFiniteSet(S)
    BY MembersFinite, FS_Subset
  <2> QED BY <1>1, <2>1, FS_AddElement
<1>5. /\ q \in [1..n -> S] /\ Members(q) = S
      /\ \A i, j \in 1..n : i < j => Before(c, q[i], q[j])
  BY <1>1 DEF Lists
<1> HIDE DEF r, n
<1>6. n \in Nat
  BY <1>1 DEF n
<1>7. \A i \in 1..(n + 1) : i \in 1..n \/ i = n + 1
  BY <1>6
<1>8. r \in [1..(n + 1) -> S \cup {t}]
  <2>1. \A i \in 1..(n + 1) : r[i] \in S \cup {t}
    BY <1>3, <1>5, <1>7
  <2>2. r = [i \in DOMAIN r |-> r[i]]
    BY <1>3, SeqDef
  <2> QED BY <1>3, <2>1, <2>2
<1>9. Members(r) = S \cup {t}
  <2>1. \A i \in 1..n : i \in 1..(n + 1)
    BY <1>6
  <2>2. S = {q[i] : i \in 1..n}
    BY <1>5 DEF Members
  <2>3. n + 1 \in 1..(n + 1)
    BY <1>6
  <2> QED BY <1>3, <1>7, <2>1, <2>2, <2>3 DEF Members
<1>10. ASSUME NEW i \in 1..(n + 1), NEW j \in 1..(n + 1), i < j
       PROVE  Before(c, r[i], r[j])
  <2>1. i \in 1..n
    BY <1>6, <1>10
  <2>2. r[i] = q[i] /\ q[i] \in S
    BY <1>3, <1>5, <2>1
  <2>3. CASE j \in 1..n
    BY <1>3, <1>5, <1>10, <2>1, <2>2, <2>3
  <2>4. CASE j = n + 1
    BY <1>3, <2>2, <2>4
  <2> QED BY <1>7, <2>3, <2>4
<1> QED BY <1>3, <1>4, <1>8, <1>9, <1>10 DEF Lists, r

\* The thread that is in front of the others of S comes first.
LEMMA ListsTail ==
  ASSUME NEW c \in Seq(Threads), NEW S \in SUBSET Members(c), NEW q, Lists(q, S, c),
         NEW t \in S, \A x \in S : Place(c, t) <= Place(c, x)
  PROVE  /\ q \in Seq(Threads) /\ q # <<>> /\ Head(q) = t
         /\ Lists(Tail(q), S \ {t}, c)
<1>1. /\ q \in Seq(Threads) /\ Len(q) = Cardinality(S) /\ Len(q) \in Nat
      /\ DOMAIN q = 1..Len(q)
  BY ListsType
<1>2. /\ q \in [1..Len(q) -> S] /\ Members(q) = S
      /\ \A i, j \in 1..Len(q) : i < j => Before(c, q[i], q[j])
  BY <1>1 DEF Lists
<1>3. \A x \in S : Place(c, x) \in Int
  BY Places
<1>4. PICK k \in 1..Len(q) : q[k] = t
  BY <1>1, <1>2 DEF Members
<1>5. k = 1
  <2>1. CASE 1 < k
    <3>1. 1 \in 1..Len(q) /\ q[1] \in S /\ Before(c, q[1], t)
      BY <1>1, <1>2, <1>4, <2>1
    <3> QED BY <1>3, <3>1 DEF Before
  <2> QED BY <1>1, <2>1
<1>6. q # <<>> /\ Head(q) = t
  BY <1>1, <1>4, <1>5
<1> DEFINE r == Tail(q)
           n == Len(q) - 1
<1>7. /\ r \in Seq(Threads) /\ Len(r) = n /\ n \in Nat
      /\ \A i \in 1..n : r[i] = q[i + 1]
  BY <1>1, <1>6, HeadTailProperties
<1>8. Cardinality(S \ {t}) = n
  <2>1. IsFiniteSet(S)
    BY MembersFinite, FS_Subset
  <2> QED BY <1>1, <2>1, FS_RemoveElement
<1>9. \A i \in 1..n : i + 1 \in 1..Len(q) /\ i + 1 # 1
  BY <1>1
<1> HIDE DEF r
<1>10. DOMAIN r = 1..n
  BY <1>7, LenProperties
<1>11. \A i \in 1..Len(q) : q[i] = t => i = 1
  <2> SUFFICES ASSUME NEW i \in 1..Len(q), q[i] = t, i # 1 PROVE FALSE
    OBVIOUS
  <2>1. 1 \in 1..Len(q) /\ 1 < i
    BY <1>1
  <2>2. Before(c, t, t)
    BY <1>2, <1>4, <1>5, <2>1
  <2> QED BY <1>3, <2>2 DEF Before
<1>12. r \in [1..n -> S \ {t}]
  <2>1. \A i \in 1..n : r[i] \in S \ {t}
    BY <1>2, <1>7, <1>9, <1>11
  <2>2. r = [i \in DOMAIN r |-> r[i]]
    BY <1>7, SeqDef
  <2> QED BY <1>10, <2>1, <2>2
<1>13. Members(r) = S \ {t}
  <2>1. ASSUME NEW x \in S \ {t}  PROVE \E i \in 1..n : r[i] = x
    <3>1. PICK i \in 1..Len(q) : q[i] = x
      BY <1>1, <1>2 DEF Members
    <3>2. i # 1
      BY <1>4, <1>5, <3>1, <2>1
    <3>3. i - 1 \in 1..n /\ (i - 1) + 1 = i
      BY <1>1, <3>2
    <3> QED BY <1>7, <3>1, <3>3
  <2> QED BY <1>10, <1>12, <2>1 DEF Members
<1>14. ASSUME NEW i \in 1..n, NEW j \in 1..n, i < j  PROVE Before(c, r[i], r[j])
  <2>1. i + 1 < j + 1
    BY <1>14
  <2> QED BY <1>2, <1>7, <1>9, <2>1
<1>15. Lists(r, S \ {t}, c)
  <2> HIDE DEF n
  <2> QED BY <1>8, <1>10, <1>12, <1>13, <1>14 DEF Lists
<1> QED BY <1>1, <1>6, <1>15 DEF r

\* The empty list is the list of no thread.
LEMMA ListsEmpty ==
  ASSUME NEW c
  PROVE  \A q : Lists(q, {}, c) <=> q = <<>>
<1>1. Cardinality({}) = 0
  BY FS_EmptySet
<1>2. 1..0 = {}
  OBVIOUS
<1>3. \A q : q \in [1..0 -> {}] <=> q = <<>>
  <2>1. <<>> \in Seq({}) /\ DOMAIN <<>> = {}
    BY EmptySeq
  <2>2. ASSUME NEW q, q \in [1..0 -> {}]  PROVE q = <<>>
    <3>1. q \in Seq({})
      BY <2>2, SeqDef
    <3>2. Len(q) \in Nat /\ DOMAIN q = 1..Len(q)
      BY <3>1, LenProperties
    <3>3. Len(q) = 0
      BY <1>2, <2>2, <3>2
    <3> QED BY <3>1, <3>3, EmptySeq
  <2>3. <<>> \in [1..0 -> {}]
    BY <1>2, <2>1
  <2> QED BY <2>2, <2>3
<1>4. Members(<<>>) = {} /\ DOMAIN <<>> = {}
  BY <1>2 DEF Members
<1> QED BY <1>1, <1>3, <1>4 DEF Lists

\* Every set of threads of a queue can be listed.
LEMMA ListsExist ==
  ASSUME NEW c \in Seq(Threads), NEW S \in SUBSET Members(c)
  PROVE  \E q : Lists(q, S, c)
<1> DEFINE Bad == {T \in SUBSET Members(c) : ~ \E q : Lists(q, T, c)}
           Sizes == {Cardinality(T) : T \in Bad}
<1> SUFFICES ASSUME Bad # {} PROVE FALSE
  OBVIOUS
<1>1. \A T \in SUBSET Members(c) : IsFiniteSet(T) /\ Cardinality(T) \in Nat
  BY MembersFinite, FS_Subset, FS_CardinalityType
<1>2. PICK n \in Sizes : \A m \in Sizes : n <= m
  <2>1. Sizes \in SUBSET Nat /\ Sizes # {}
    BY <1>1
  <2> HIDE DEF Sizes
  <2> QED BY <2>1, FirstPlace
<1>3. PICK T \in Bad : Cardinality(T) = n
  BY <1>2
<1>4. T # {}
  <2>1. Lists(<<>>, {}, c)
    BY ListsEmpty
  <2> QED BY <1>3, <2>1
<1>5. T \in SUBSET Members(c)
  OBVIOUS
<1> HIDE DEF Bad
<1>6. PICK t \in T : \A x \in T : Place(c, x) <= Place(c, t)
  <2> DEFINE Back == {Len(c) - Place(c, x) : x \in T}
  <2>1. \A x \in T : Place(c, x) \in 1..Len(c) /\ Len(c) \in Nat
    BY <1>5, Places, LenProperties
  <2>2. Back \in SUBSET Nat /\ Back # {}
    BY <1>4, <2>1
  <2>3. PICK b \in Back : \A d \in Back : b <= d
    <3> HIDE DEF Back
    <3> QED BY <2>2, FirstPlace
  <2>4. PICK t \in T : b = Len(c) - Place(c, t)
    BY <2>3
  <2>5. \A x \in T : Len(c) - Place(c, t) <= Len(c) - Place(c, x)
    BY <2>3, <2>4
  <2> QED BY <2>1, <2>4, <2>5
<1>7. Cardinality(T \ {t}) < n
  BY <1>1, <1>3, <1>5, <1>6, FS_RemoveElement
<1>8. PICK q : Lists(q, T \ {t}, c)
  <2>1. Cardinality(T \ {t}) \in Nat /\ n \in Nat
    BY <1>1, <1>3, <1>5
  <2>2. T \ {t} \notin Bad
    BY <1>2, <1>7, <2>1
  <2> QED BY <1>5, <2>2 DEF Bad
<1>9. \A x \in T \ {t} : Before(c, x, t)
  <2>1. \A x \in T : Place(c, x) \in Int
    BY <1>5, Places
  <2>2. \A x \in T \ {t} : Place(c, x) # Place(c, t)
    BY <1>5, <1>6, Places
  <2> QED BY <1>6, <2>1, <2>2 DEF Before
<1>10. Lists(Append(q, t), T, c)
  <2>1. (T \ {t}) \cup {t} = T
    BY <1>6
  <2> QED BY <1>5, <1>6, <1>8, <1>9, <2>1, ListsAppend
<1> QED BY <1>3, <1>10 DEF Bad

\* Only the order of the threads of S matters.
LEMMA ListsSame ==
  ASSUME NEW c, NEW d, NEW S,
         \A x, y \in S : Before(c, x, y) <=> Before(d, x, y)
  PROVE  \A q : Lists(q, S, c) <=> Lists(q, S, d)
<1> SUFFICES ASSUME NEW q, q \in [1..Cardinality(S) -> S]
             PROVE  Lists(q, S, c) <=> Lists(q, S, d)
  BY DEF Lists
<1>1. \A i \in DOMAIN q : q[i] \in S
  OBVIOUS
<1> QED BY <1>1 DEF Lists

-----------------------------------------------------------------------------
(* Programs that leave blocked threads alone *)

\* No thread is killed, sent a signal or interrupted by ^C, and no semaphore is
\* made with a negative count.
LeftAlone ==
  /\ Ops \cap {"kill", "send_signal"} = {}
  /\ ~ Interrupts
  /\ \A s \in Semaphores : InitCount[s] >= 0

\* t has asked to be suspended, and is when its instruction ends.
Stopping(t) == phase = "post" /\ "suspend" \in pending /\ t = thread

Blocked(t) == Suspended(t) \/ Stopping(t)

\* Only what blocks sleeps on something, and a thread has a timer only while it
\* blocks for it.
SleepOK ==
  /\ phase \notin {"walk", "exited"}
  /\ pending \cap {"interrupt", "exception", "error"} = {}
  /\ \A t \in Threads : sleep[t] # None => Blocked(t)
  /\ \A t \in Threads :
       timers[t] > 0 => timers[t] = 1 /\ sleep[t] = None /\ Blocked(t)

\* The threads that sleep on x.
SleepersOn(x) == {t \in Threads : sleep[t] = x}

CountOK ==
  \A s \in Semaphores :
    /\ IsFiniteSet(SleepersOn(s))
    /\ Cardinality(SleepersOn(s)) = IF count[s] < 0 THEN -count[s] ELSE 0

\* What the steps of a run have in common.
Base == IInv /\ FlagsOK /\ ThreadOK /\ OrderOK

LEMMA InitBase == Init => Base
<1> SUFFICES ASSUME Init PROVE Base
  OBVIOUS
<1>1. IInv /\ FlagsOK /\ ThreadOK
  BY InitOK DEF Init, FlagsOK, Raised, ThreadOK
<1>2. \A t \in Threads : priority[t] = 0
  BY DEF Init
<1>3. SortedBy(running, priority)
  <2>1. \A i \in DOMAIN running : running[i] \in Threads
    BY SchedConstants, ElementOfSeq, LenProperties DEF Init
  <2> QED BY <1>2, <2>1 DEF SortedBy
<1>4. SortedBy(stopped, priority)
  BY DEF Init, SortedBy
<1>5. OrderOK
  BY <1>3, <1>4, SortedAlone DEF Init, OrderOK
<1> QED BY <1>1, <1>5 DEF Base

LEMMA BaseNext == Base /\ [Next]_vars => Base'
BY NextOK, NextFlags, ThreadOKNext, NextOrder DEF Base

\* An instruction of the program is one of Ops, or does nothing.
LEMMA InstructionOp ==
  ASSUME IInv, NEW i, Fetch(i), i \in [op : Operations, on : Threads \cup Semaphores \cup {None}, to : Int]
  PROVE  i.op \in Ops \cup {"noop"}
<1>1. i \in Instructions \cup {Noop}
  <2>1. thread \in Threads /\ inst[thread] \in Instructions \cup {Noop, None}
    BY DEF IInv, FieldsOK, SliceOK, Fetch
  <2>2. i # None
    BY SchedConstants
  <2> QED BY <2>1, <2>2 DEF Fetch
<1> QED BY <1>1 DEF Instructions, Noop, Instruction

LEMMA NobodyKilled ==
  ASSUME LeftAlone, IInv, NEW t \in Threads
  PROVE  ~ ThreadKill(t) /\ ~ ThreadSendSignal(t)
<1>1. ASSUME NEW op \in {"kill", "send_signal"}, Fetch(Instruction(op, t, 0))  PROVE FALSE
  <2> DEFINE i == Instruction(op, t, 0)
  <2>1. i \in [op : Operations, on : Threads \cup Semaphores \cup {None}, to : Int] /\ i.op = op
    <3>1. "kill" \in Operations /\ "send_signal" \in Operations
      BY DEF Operations
    <3>2. op \in Operations /\ t \in Threads \cup Semaphores \cup {None} /\ 0 \in Int
      BY <3>1
    <3> HIDE DEF Instruction
    <3>3. i = [op |-> op, on |-> t, to |-> 0]
      BY DEF Instruction
    <3> QED BY <3>2, <3>3
  <2> HIDE DEF i
  <2>2. op \in Ops \cup {"noop"}
    BY <1>1, <2>1, InstructionOp DEF i
  <2> QED BY <2>2 DEF LeftAlone
<1> QED BY <1>1 DEF ThreadKill, ThreadSendSignal, Takes

\* When the abort of a suspension is not what comes next, none is asked for.
LEMMA SuspendFirst ==
  ASSUME IInv, FlagsOK, Post, ~ AbortSuspend
  PROVE  "suspend" \notin pending
<1> SUFFICES ASSUME "suspend" \in pending PROVE FALSE
  OBVIOUS
<1>1. phase = "post"
  BY DEF Post, AbortSuspend, AbortFinished, AbortException, AbortOther, StepDone, Leave
<1>2. Raised # {} /\ Aborted
  BY <1>1 DEF FlagsOK, Raised
<1>3. \A f \in Raised : f = "suspend"
  BY <1>1 DEF FlagsOK, Raised
<1>4. "finished" \notin pending /\ "exception" \notin pending
  BY <1>3 DEF Raised
<1> QED BY <1>2, <1>4 DEF Post, AbortFinished, AbortException, AbortOther, StepDone

\* The thread that starts an instruction has nothing to wait for.
LEMMA ExecuteStart ==
  ASSUME Base, SleepOK, Execute
  PROVE  /\ phase = "exec" /\ phase' = "post" /\ thread' = thread
         /\ thread \in Threads /\ Running(thread)
         /\ pending \cap {"suspend", "finished"} = {}
         /\ sleep[thread] = None /\ timers[thread] = 0
         /\ \A t \in Threads : Blocked(t) <=> Suspended(t)
<1>1. phase = "exec" /\ phase' = "post" /\ thread' = thread
  BY DEF Execute, SemaphoreWait, SemaphoreTest, SemaphoreSignal, ThreadJoin, ThreadKill,
         ThreadSendSignal, ThreadSetPriority, ThreadDoSleep, ThreadFork, ThreadTry,
         ThreadEndTry, ThreadEnd, ThreadNoop, Takes, Fetch
<1>2. thread \in Threads /\ Running(thread) /\ pending \cap {"suspend", "finished"} = {}
  BY <1>1 DEF Base, FlagsOK, Raised, ThreadOK, IInv, SliceOK
<1>3. \A t \in Threads : Blocked(t) <=> Suspended(t)
  BY <1>1 DEF Blocked, Stopping
<1>4. ~ Blocked(thread)
  BY <1>2, <1>3 DEF Running, Suspended
<1>5. timers[thread] \in Nat
  BY <1>2, Numbers DEF Base, IInv, FieldsOK
<1> QED BY <1>1, <1>2, <1>3, <1>4, <1>5 DEF SleepOK

\* An instruction blocks its own thread only, for one thing at a time; it wakes
\* a thread only together with what that sleeps on.
LEMMA ExecuteSleep ==
  ASSUME LeftAlone, Base, SleepOK, Execute
  PROVE  SleepOK'
<1>1. /\ phase = "exec" /\ phase' = "post" /\ thread' = thread
      /\ thread \in Threads /\ Running(thread)
      /\ sleep[thread] = None /\ timers[thread] = 0
      /\ \A t \in Threads : Blocked(t) <=> Suspended(t)
  BY ExecuteStart
<1>2. /\ state \in [Threads -> States] /\ timers \in [Threads -> 0..TimerBound]
      /\ sleep \in [Threads -> Threads \cup Semaphores \cup {None}]
      /\ TimerBound \in Nat
  BY Numbers DEF Base, IInv, QueuesOK, FieldsOK
<1>3. pending \cap {"interrupt", "exception", "error"} = {}
  BY DEF SleepOK
<1>4. ASSUME \A t \in Threads : state'[t] = "suspended" <=> Suspended(t),
             UNCHANGED <<sleep, timers>>,
             flags' = flags \/ SetSignal("suspend") \/ SetSignal("finished")
      PROVE  SleepOK'
  <2>1. pending' \cap {"interrupt", "exception", "error"} = {}
    BY <1>3, <1>4 DEF flags, SetSignal
  <2>2. \A t \in Threads : Blocked(t) => Blocked(t)'
    BY <1>1, <1>4 DEF Blocked, Suspended
  <2> QED BY <1>1, <1>4, <2>1, <2>2 DEF SleepOK
<1>5. ASSUME UNCHANGED <<state, flags>>
      PROVE  pending' \cap {"interrupt", "exception", "error"} = {}
  BY <1>3, <1>5 DEF flags
<1>6. ASSUME NEW x, ThreadSleep(x), UNCHANGED timers  PROVE SleepOK'
  <2>1. UNCHANGED state /\ sleep' = [sleep EXCEPT ![thread] = x]
        /\ pending' = pending \cup {"suspend"}
    BY <1>6 DEF ThreadSleep, SetSignal
  <2>2. Blocked(thread)' /\ \A t \in Threads : Blocked(t) => Blocked(t)'
    BY <1>1, <2>1 DEF Blocked, Stopping, Suspended
  <2>3. \A t \in Threads : t # thread => sleep'[t] = sleep[t]
    BY <1>2, <2>1
  <2> QED BY <1>1, <1>3, <1>6, <2>1, <2>2, <2>3 DEF SleepOK
<1>7. ASSUME NEW s \in Semaphores, Wait(s), UNCHANGED timers  PROVE SleepOK'
  <2>1. UNCHANGED <<queues, flags>> \/ ThreadSleep(s)
    BY <1>7 DEF Wait
  <2> QED BY <1>4, <1>6, <1>7, <2>1 DEF queues, Suspended
<1>8. ASSUME NEW s \in Semaphores, WakeOne(s), UNCHANGED <<flags, timers>>  PROVE SleepOK'
  <2>1. CASE UNCHANGED queues
    BY <1>4, <1>8, <2>1 DEF queues, Suspended
  <2>2. CASE ~ UNCHANGED queues
    <3>1. PICK t \in Sleepers(s) : Resume(t) /\ sleep' = [sleep EXCEPT ![t] = None]
      BY <1>8, <2>2 DEF WakeOne
    <3>2. t \in Threads /\ sleep[t] = s /\ s # None
      BY <3>1, SchedConstants DEF Sleepers
    <3>3. sleep'[t] = None /\ \A u \in Threads : u # t => sleep'[u] = sleep[u]
      BY <1>2, <3>1, <3>2
    <3>4. ~ (timers[t] > 0)
      BY <3>2 DEF SleepOK
    <3>5. \A u \in Threads : u # t => (Blocked(u) => Blocked(u)')
      BY <1>1, <1>2, <3>1 DEF Blocked, Suspended, Resume
    <3>6. pending' = pending
      BY <1>8 DEF flags
    <3> QED BY <1>1, <1>3, <1>8, <3>3, <3>4, <3>5, <3>6 DEF SleepOK
  <2> QED BY <2>1, <2>2
<1>9. ASSUME NEW s \in Semaphores,
             SemaphoreWait(s) \/ SemaphoreTest(s) \/ SemaphoreSignal(s)
      PROVE  SleepOK'
  <2>1. /\ UNCHANGED timers
        /\ \/ Wait(s)
           \/ UNCHANGED <<queues, flags>>
           \/ WakeOne(s) /\ UNCHANGED flags
    BY <1>9 DEF SemaphoreWait, SemaphoreTest, SemaphoreSignal
  <2> QED BY <1>4, <1>7, <1>8, <2>1 DEF queues, Suspended
<1>10. ASSUME NEW t \in Threads, ThreadJoin(t)  PROVE SleepOK'
  <2>1. UNCHANGED timers /\ (UNCHANGED <<queues, flags>> \/ ThreadSleep(t))
    BY <1>10 DEF ThreadJoin
  <2> QED BY <1>4, <1>6, <2>1 DEF queues, Suspended
<1>11. ASSUME NEW t \in Threads, ThreadFork(t)  PROVE SleepOK'
  <2>1. /\ state[t] = "unborn" /\ state' = [state EXCEPT ![t] = "running"]
        /\ UNCHANGED <<sleep, timers, flags>>
    BY <1>11 DEF ThreadFork
  <2>2. \A u \in Threads : state'[u] = "suspended" <=> Suspended(u)
    BY <1>2, <2>1 DEF Suspended
  <2> QED BY <1>4, <2>1, <2>2
<1>12. ASSUME NEW t \in Threads, NEW p \in Priorities, ThreadSetPriority(t, p)
       PROVE  SleepOK'
  BY <1>4, <1>12 DEF ThreadSetPriority, Suspended
<1>13. CASE ThreadDoSleep
  <2>1. CASE UNCHANGED <<timers, partial, flags>>
    BY <1>4, <1>13, <2>1 DEF ThreadDoSleep, queues, Suspended
  <2>2. CASE ~ UNCHANGED <<timers, partial, flags>>
    <3>1. /\ timers' = [timers EXCEPT ![thread] = @ + 1] /\ SetSignal("suspend")
          /\ UNCHANGED <<state, sleep>>
      BY <1>13, <2>2 DEF ThreadDoSleep, queues
    <3>2. pending' = pending \cup {"suspend"}
      BY <3>1 DEF SetSignal
    <3>3. Blocked(thread)' /\ \A t \in Threads : Blocked(t) => Blocked(t)'
      BY <1>1, <3>1, <3>2 DEF Blocked, Stopping, Suspended
    <3>4. timers'[thread] = 1 /\ \A t \in Threads : t # thread => timers'[t] = timers[t]
      BY <1>1, <1>2, <3>1
    <3> QED BY <1>1, <1>3, <3>1, <3>2, <3>3, <3>4 DEF SleepOK
  <2> QED BY <2>1, <2>2
<1>14. CASE ThreadTry \/ ThreadEndTry \/ ThreadEnd \/ ThreadNoop
  BY <1>4, <1>14 DEF ThreadTry, ThreadEndTry, ThreadEnd, ThreadNoop, queues, Suspended
<1> QED BY <1>9, <1>10, <1>11, <1>12, <1>13, <1>14, NobodyKilled DEF Execute, Base

\* What a thread that ends does: its joiners go on, and nobody else is touched.
LEMMA FinishSleep ==
  ASSUME QueuesOK, NEW t \in Threads, Finish(t)
  PROVE  \A u \in Threads :
           \/ /\ state'[u] = state[u] \/ (u = t /\ state'[u] = "finished")
              /\ sleep'[u] = sleep[u]
           \/ Suspended(u) /\ sleep[u] = t /\ state'[u] = "running" /\ sleep'[u] = None
<1>1. CASE state[t] = "finished"
  <2>1. UNCHANGED <<state, sleep>>
    BY <1>1 DEF Finish, queues
  <2> QED BY <2>1
<1>2. CASE state[t] # "finished"
  <2> DEFINE W == Sleepers(t) \ {t}
  <2>1. /\ state' = [u \in Threads |-> IF u = t THEN "finished"
                                       ELSE IF u \in W THEN "running" ELSE state[u]]
        /\ sleep' = [u \in Threads |-> IF u \in W THEN None ELSE sleep[u]]
    BY <1>2 DEF Finish
  <2>2. \A u \in W : u # t /\ Suspended(u) /\ sleep[u] = t
    BY DEF Sleepers
  <2> HIDE DEF W
  <2> QED BY <2>1, <2>2
<1> QED BY <1>1, <1>2

LEMMA PostSleep ==
  ASSUME Base, SleepOK, Post
  PROVE  SleepOK'
<1>1. /\ thread \in Threads /\ phase = "post" /\ phase' \in {"top", "exec"}
      /\ UNCHANGED timers /\ pending' \subseteq pending
  <2>1. /\ phase = "post" /\ phase' \in {"top", "exec"}
        /\ UNCHANGED timers /\ pending' \subseteq pending
    BY DEF Post, AbortSuspend, AbortFinished, AbortException, AbortOther, StepDone,
           Leave, flags
  <2> QED BY <2>1 DEF Base, IInv, SliceOK
<1>2. /\ state \in [Threads -> States] /\ timers \in [Threads -> 0..TimerBound]
      /\ sleep \in [Threads -> Threads \cup Semaphores \cup {None}]
  BY DEF Base, IInv, QueuesOK, FieldsOK
<1>3. ASSUME \A t \in Threads : Blocked(t) => state'[t] = "suspended", UNCHANGED sleep
      PROVE  SleepOK'
  <2>1. \A t \in Threads : Blocked(t) => Blocked(t)'
    BY <1>3 DEF Blocked, Suspended
  <2> QED BY <1>1, <1>3, <2>1 DEF SleepOK
<1>4. CASE AbortSuspend
  <2>1. Running(thread) /\ state' = [state EXCEPT ![thread] = "suspended"] /\ UNCHANGED sleep
    BY <1>1, <1>4 DEF AbortSuspend, Base, OrderOK
  <2>2. \A t \in Threads : Blocked(t) => state'[t] = "suspended"
    BY <1>1, <1>2, <2>1 DEF Blocked, Stopping, Suspended
  <2> QED BY <1>3, <2>1, <2>2
<1>5. CASE ~ AbortSuspend
  <2>1. "suspend" \notin pending
    BY <1>5, SuspendFirst DEF Base
  <2>2. \A t \in Threads : Blocked(t) <=> Suspended(t)
    BY <2>1 DEF Blocked, Stopping
  <2>3. CASE UNCHANGED <<state, sleep>>
    BY <1>3, <2>2, <2>3 DEF Suspended
  <2>4. CASE AbortFinished
    <3>1. Finish(thread) /\ ~ Suspended(thread)
      BY <1>1, <2>4 DEF AbortFinished, Base, ThreadOK
    <3>2. \A u \in Threads :
             \/ state'[u] = state[u] /\ sleep'[u] = sleep[u]
             \/ u = thread /\ sleep'[u] = sleep[u]
             \/ Suspended(u) /\ sleep[u] = thread /\ sleep'[u] = None
      <4>1. QueuesOK
        BY DEF Base, IInv
      <4> QED BY <1>1, <3>1, <4>1, FinishSleep
    <3>3. thread # None
      BY <1>1, SchedConstants
    <3> QED BY <3>1, <3>3, <1>1, <2>2, <3>2 DEF SleepOK, Blocked, Suspended
  <2>5. ~ AbortException
    <3>1. "exception" \notin pending
      BY DEF SleepOK
    <3> QED BY <3>1 DEF AbortException
  <2> QED BY <1>5, <2>3, <2>4, <2>5 DEF Post, AbortOther, StepDone, queues
<1> QED BY <1>4, <1>5

LEMMA LoopSleep ==
  ASSUME Base, SleepOK, Loop
  PROVE  SleepOK'
<1>1. /\ state \in [Threads -> States] /\ timers \in [Threads -> 0..TimerBound]
      /\ TimerBound \in Nat
  BY Numbers DEF Base, IInv, QueuesOK, FieldsOK
<1>2. phase # "post" /\ \A t \in Threads : Blocked(t) <=> Suspended(t)
  <2>1. phase # "post"
    BY DEF Loop, Dispatch, Return, TakeSignals, CheckInterrupt, WalkSignal, WalkNext,
           CheckTimer, Expire, Expired
  <2> QED BY <2>1 DEF Blocked, Stopping
<1>3. CASE \/ Dispatch \/ Return \/ TakeSignals \/ CheckInterrupt
           \/ CheckTimer \/ Expired
  <2>1. UNCHANGED <<state, sleep, timers>> /\ pending' \subseteq pending
    BY <1>3 DEF Dispatch, Return, TakeSignals, CheckInterrupt, CheckTimer, Expired,
                queues, flags
  <2>2. phase' \notin {"walk", "exited"}
    BY <1>3 DEF SleepOK, Dispatch, Return, TakeSignals, CheckInterrupt, CheckTimer, Expired
  <2>3. \A t \in Threads : Blocked(t) => Blocked(t)'
    BY <1>2, <2>1 DEF Blocked, Suspended
  <2> QED BY <2>1, <2>2, <2>3 DEF SleepOK
<1>4. ASSUME NEW t \in Threads, Expire(t)  PROVE SleepOK'
  <2>1. /\ timers[t] > 0 /\ timers' = [timers EXCEPT ![t] = @ - 1]
        /\ UNCHANGED <<sleep, pending, phase>>
    BY <1>4 DEF Expire, flags
  <2>2. timers[t] = 1 /\ sleep[t] = None
    BY <2>1 DEF SleepOK
  <2>3. timers'[t] = 0 /\ \A u \in Threads : u # t => timers'[u] = timers[u]
    BY <1>1, <2>1, <2>2
  <2>4. \A u \in Threads : u # t => state'[u] = state[u]
    BY <1>1, <1>4 DEF Expire, Resume
  <2>5. \A u \in Threads : u # t => (Blocked(u) => Blocked(u)')
    BY <1>2, <2>4 DEF Blocked, Suspended
  <2> QED BY <2>1, <2>2, <2>3, <2>5 DEF SleepOK
<1>5. ~ WalkSignal /\ ~ WalkNext
  BY DEF SleepOK, WalkSignal, WalkNext
<1> QED BY <1>3, <1>4, <1>5 DEF Loop

LEMMA NextSleep ==
  ASSUME LeftAlone, Base, SleepOK, [Next]_vars
  PROVE  SleepOK'
<1>1. CASE Alarm \/ UNCHANGED vars
  <2>1. /\ UNCHANGED <<state, sleep, timers, thread, phase>>
        /\ pending' \in {pending, pending \cup {"timer"}}
    BY <1>1 DEF Alarm, vars, queues, thvars, flags, slice, cursor
  <2>2. \A t \in Threads : Blocked(t) => Blocked(t)'
    BY <2>1 DEF Blocked, Stopping, Suspended
  <2> QED BY <2>1, <2>2 DEF SleepOK
<1>2. ~ Interrupt
  BY DEF LeftAlone, Interrupt
<1> QED BY <1>1, <1>2, ExecuteSleep, PostSleep, LoopSleep DEF Next, Internals

-----------------------------------------------------------------------------
(* The count says how many threads wait *)

\* Who sleeps on a semaphore stays the same.
LEMMA CountSame ==
  ASSUME CountOK, UNCHANGED count,
         \A t \in Threads : \A s \in Semaphores : sleep'[t] = s <=> sleep[t] = s
  PROVE  CountOK'
<1>1. \A s \in Semaphores : SleepersOn(s)' = SleepersOn(s)
  BY DEF SleepersOn
<1> QED BY <1>1 DEF CountOK

\* One count changes, and with it who sleeps on that semaphore.
LEMMA CountChanges ==
  ASSUME CountOK, NEW s \in Semaphores, NEW n \in Int,
         count \in [Semaphores -> Int], count' = [count EXCEPT ![s] = n],
         \A r \in Semaphores : r # s => SleepersOn(r)' = SleepersOn(r),
         IsFiniteSet(SleepersOn(s)'),
         Cardinality(SleepersOn(s)') = IF n < 0 THEN -n ELSE 0
  PROVE  CountOK'
<1> SUFFICES ASSUME NEW r \in Semaphores
             PROVE  /\ IsFiniteSet(SleepersOn(r)')
                    /\ Cardinality(SleepersOn(r)') = IF count'[r] < 0 THEN -count'[r] ELSE 0
  BY DEF CountOK
<1>1. CASE r = s
  BY <1>1
<1>2. CASE r # s
  <2>1. count'[r] = count[r] /\ SleepersOn(r)' = SleepersOn(r)
    BY <1>2
  <2> QED BY <2>1 DEF CountOK
<1> QED BY <1>1, <1>2

LEMMA WaitCount ==
  ASSUME Base, SleepOK, Execute, CountOK, NEW s \in Semaphores, Wait(s)
  PROVE  CountOK'
<1>1. /\ thread \in Threads /\ sleep[thread] = None /\ count \in [Semaphores -> Int]
      /\ sleep \in [Threads -> Threads \cup Semaphores \cup {None}]
  BY ExecuteStart DEF Base, IInv, QueuesOK, FieldsOK
<1>2. CASE UNCHANGED <<count, sleep>>
  BY <1>2, CountSame
<1>3. CASE count[s] > 0 /\ count' = [count EXCEPT ![s] = @ - 1] /\ UNCHANGED sleep
  <2>1. \A r \in Semaphores : SleepersOn(r)' = SleepersOn(r)
    BY <1>3 DEF SleepersOn
  <2>2. IsFiniteSet(SleepersOn(s)') /\ Cardinality(SleepersOn(s)') = 0
    BY <1>1, <1>3, <2>1 DEF CountOK
  <2>3. count[s] - 1 \in Int /\ ~ (count[s] - 1 < 0)
    BY <1>1, <1>3
  <2> QED BY <1>1, <1>3, <2>1, <2>2, <2>3, CountChanges
<1>4. CASE /\ count[s] \in (1 - CountBound)..0 /\ count' = [count EXCEPT ![s] = @ - 1]
           /\ sleep' = [sleep EXCEPT ![thread] = s]
  <2>1. \A r \in Semaphores : r # s => SleepersOn(r)' = SleepersOn(r)
    BY <1>1, <1>4, SchedConstants DEF SleepersOn
  <2>2. SleepersOn(s)' = SleepersOn(s) \cup {thread} /\ thread \notin SleepersOn(s)
    BY <1>1, <1>4, SchedConstants DEF SleepersOn
  <2>3. count[s] \in Int /\ count[s] <= 0 /\ count[s] - 1 \in Int
    BY <1>1, <1>4, Numbers
  <2>4. IsFiniteSet(SleepersOn(s)) /\ Cardinality(SleepersOn(s)) = -count[s]
    BY <2>3 DEF CountOK
  <2>5. /\ IsFiniteSet(SleepersOn(s)')
        /\ Cardinality(SleepersOn(s)') = Cardinality(SleepersOn(s)) + 1
    BY <2>2, <2>4, FS_AddElement
  <2>6. Cardinality(SleepersOn(s)') = IF count[s] - 1 < 0 THEN -(count[s] - 1) ELSE 0
    BY <2>3, <2>4, <2>5
  <2> QED BY <1>1, <1>4, <2>1, <2>3, <2>5, <2>6, CountChanges
<1> QED BY <1>2, <1>3, <1>4 DEF Wait, ThreadSleep, queues

LEMMA SignalCount ==
  ASSUME Base, SleepOK, Execute, CountOK, NEW s \in Semaphores, SemaphoreSignal(s)
  PROVE  CountOK'
<1>1. /\ count \in [Semaphores -> Int]
      /\ sleep \in [Threads -> Threads \cup Semaphores \cup {None}]
  BY DEF Base, IInv, QueuesOK, FieldsOK
<1>2. CASE UNCHANGED <<count, queues>>
  BY <1>2, CountSame DEF queues
<1>3. CASE /\ count' = [count EXCEPT ![s] = @ + 1]
           /\ IF count[s] + 1 <= 0 THEN WakeOne(s) ELSE UNCHANGED queues
  <2>1. count[s] \in Int
    BY <1>1
  <2>2. CASE count[s] + 1 <= 0
    <3>1. IsFiniteSet(SleepersOn(s)) /\ Cardinality(SleepersOn(s)) = -count[s]
      BY <2>1, <2>2 DEF CountOK
    <3>2. SleepersOn(s) # {}
      <4>1. -count[s] # 0
        BY <2>1, <2>2
      <4> QED BY <3>1, <4>1, FS_EmptySet
    <3>3. SleepersOn(s) = Sleepers(s)
      <4>1. s # None
        BY SchedConstants
      <4>2. \A t \in Threads : sleep[t] = s => Suspended(t)
        BY <4>1, ExecuteStart DEF SleepOK
      <4> QED BY <4>2 DEF SleepersOn, Sleepers
    <3>4. PICK t \in Sleepers(s) : sleep' = [sleep EXCEPT ![t] = None]
      BY <1>3, <2>2, <3>2, <3>3 DEF WakeOne
    <3>5. t \in Threads /\ sleep[t] = s /\ s # None
      BY <3>4, SchedConstants DEF Sleepers
    <3>6. \A r \in Semaphores : r # s => SleepersOn(r)' = SleepersOn(r)
      BY <1>1, <3>4, <3>5, SchedConstants DEF SleepersOn
    <3>7. SleepersOn(s)' = SleepersOn(s) \ {t} /\ t \in SleepersOn(s)
      BY <1>1, <3>4, <3>5 DEF SleepersOn
    <3>8. /\ IsFiniteSet(SleepersOn(s)')
          /\ Cardinality(SleepersOn(s)') = Cardinality(SleepersOn(s)) - 1
      BY <3>1, <3>7, FS_RemoveElement
    <3>9. /\ count[s] + 1 \in Int
          /\ Cardinality(SleepersOn(s)') = IF count[s] + 1 < 0 THEN -(count[s] + 1) ELSE 0
      BY <2>1, <2>2, <3>1, <3>8
    <3> QED BY <1>1, <1>3, <3>6, <3>8, <3>9, CountChanges
  <2>3. CASE ~ (count[s] + 1 <= 0)
    <3>1. UNCHANGED sleep
      BY <1>3, <2>3 DEF queues
    <3>2. \A r \in Semaphores : SleepersOn(r)' = SleepersOn(r)
      BY <3>1 DEF SleepersOn
    <3>3. IsFiniteSet(SleepersOn(s)') /\ Cardinality(SleepersOn(s)') = 0
      BY <2>1, <2>3, <3>2 DEF CountOK
    <3>4. count[s] + 1 \in Int /\ ~ (count[s] + 1 < 0)
      BY <2>1, <2>3
    <3> QED BY <1>1, <1>3, <3>2, <3>3, <3>4, CountChanges
  <2> QED BY <2>2, <2>3
<1> QED BY <1>2, <1>3 DEF SemaphoreSignal

LEMMA NextCount ==
  ASSUME LeftAlone, Base, SleepOK, CountOK, [Next]_vars
  PROVE  CountOK'
<1>1. CASE Execute
  <2>1. ASSUME NEW s \in Semaphores,
               SemaphoreWait(s) \/ SemaphoreTest(s) \/ SemaphoreSignal(s)
        PROVE  CountOK'
    <3>1. CASE Wait(s)
      BY <1>1, <3>1, WaitCount
    <3>2. CASE UNCHANGED <<count, queues>>
      BY <3>2, CountSame DEF queues
    <3> QED BY <1>1, <2>1, <3>1, <3>2, SignalCount DEF SemaphoreWait, SemaphoreTest
  <2>2. ASSUME NEW t \in Threads, ThreadJoin(t)  PROVE CountOK'
    <3>1. /\ thread \in Threads /\ sleep[thread] = None
          /\ sleep \in [Threads -> Threads \cup Semaphores \cup {None}]
      BY <1>1, ExecuteStart DEF Base, IInv, QueuesOK
    <3>2. UNCHANGED count /\ (UNCHANGED sleep \/ sleep' = [sleep EXCEPT ![thread] = t])
      BY <2>2 DEF ThreadJoin, ThreadSleep, queues
    <3>3. \A u \in Threads : \A s \in Semaphores : sleep'[u] = s <=> sleep[u] = s
      BY <3>1, <3>2, SchedConstants
    <3> QED BY <3>2, <3>3, CountSame
  <2>3. CASE \/ ThreadDoSleep \/ ThreadTry \/ ThreadEndTry \/ ThreadEnd \/ ThreadNoop
             \/ \E t \in Threads : ThreadFork(t) \/ \E p \in Priorities : ThreadSetPriority(t, p)
    <3>1. UNCHANGED <<count, sleep>>
      BY <2>3 DEF ThreadDoSleep, ThreadTry, ThreadEndTry, ThreadEnd, ThreadNoop,
                  ThreadFork, ThreadSetPriority, queues
    <3> QED BY <3>1, CountSame
  <2> QED BY <1>1, <2>1, <2>2, <2>3, NobodyKilled DEF Execute, Base
<1>2. CASE Post
  <2>1. UNCHANGED count /\ (UNCHANGED sleep \/ AbortFinished)
    <3>1. ~ AbortException
      BY DEF SleepOK, AbortException
    <3> QED BY <1>2, <3>1 DEF Post, AbortSuspend, AbortFinished, AbortOther, StepDone,
                             Leave, queues
  <2>2. CASE AbortFinished
    <3>1. thread \in Threads /\ Finish(thread) /\ QueuesOK
      BY <2>2 DEF AbortFinished, Leave, Base, IInv, SliceOK
    <3>2. \A u \in Threads : sleep'[u] = sleep[u] \/ (sleep[u] = thread /\ sleep'[u] = None)
      BY <3>1, FinishSleep
    <3>3. \A u \in Threads : \A s \in Semaphores : sleep'[u] = s <=> sleep[u] = s
      BY <3>1, <3>2, SchedConstants
    <3> QED BY <2>1, <3>3, CountSame
  <2> QED BY <2>1, <2>2, CountSame
<1>3. CASE Loop
  <2>1. ~ WalkSignal
    BY DEF SleepOK, WalkSignal
  <2>2. UNCHANGED <<count, sleep>>
    BY <1>3, <2>1 DEF Loop, Dispatch, Return, TakeSignals, CheckInterrupt, WalkNext,
                      CheckTimer, Expire, Expired, queues
  <2> QED BY <2>2, CountSame
<1>4. CASE Interrupt \/ Alarm \/ UNCHANGED vars
  BY <1>4, CountSame DEF Interrupt, Alarm, vars, queues
<1> QED BY <1>1, <1>2, <1>3, <1>4 DEF Next, Internals

\* A semaphore loses no signal and none waits without need, in a program that
\* leaves blocked threads alone: the count is minus the number of the threads
\* that wait, among them the one that is not yet in the stop queue.
THEOREM CountsWaiters ==
  ASSUME LeftAlone
  PROVE  Spec => []CountIsWaiters
<1> DEFINE Inv == Base /\ SleepOK /\ CountOK
<1>1. Init => Inv
  <2> SUFFICES ASSUME Init PROVE Inv
    OBVIOUS
  <2>1. Base
    BY InitBase
  <2>2. SleepOK
    BY DEF Init, SleepOK
  <2>3. CountOK
    <3>1. \A s \in Semaphores : SleepersOn(s) = {}
      BY SchedConstants DEF Init, SleepersOn
    <3>2. \A s \in Semaphores : count[s] \in Int /\ count[s] >= 0
      BY SchedConstants DEF Init, LeftAlone
    <3> QED BY <3>1, <3>2, FS_EmptySet DEF CountOK
  <2> QED BY <2>1, <2>2, <2>3
<1>2. Inv /\ [Next]_vars => Inv'
  BY BaseNext, NextSleep, NextCount
<1>3. Inv => CountIsWaiters
  <2> SUFFICES ASSUME Inv, NEW s \in Semaphores PROVE Waiters(s) = SleepersOn(s)
    BY DEF CountIsWaiters, CountOK
  <2>1. s # None
    BY SchedConstants
  <2> QED BY <2>1 DEF Waiters, SleepersOn, Sleepers, SleepOK, Blocked, Stopping
<1> HIDE DEF Inv
<1> QED BY <1>1, <1>2, <1>3, PTL DEF Spec

-----------------------------------------------------------------------------
(* Programs that moreover leave the order of the queues alone *)

Undisturbed == LeftAlone /\ Ops \cap {"sleep", "set_priority"} = {}

\* What blocks on something is raised to PrioritySync, and is in the middle of
\* its instruction when that is a wait.
BlockOK ==
  \A t \in Threads :
    /\ sleep[t] # None => priority[t] = PrioritySync
    /\ sleep[t] \in Semaphores => partial[t]
    /\ timers[t] = 0

LEMMA NobodySleeps ==
  ASSUME Undisturbed, IInv
  PROVE  /\ ~ ThreadDoSleep
         /\ \A t \in Threads : \A p \in Priorities : ~ ThreadSetPriority(t, p)
<1>1. ASSUME NEW op \in {"sleep", "set_priority"}, NEW on \in Threads \cup {None},
             NEW to \in Int, Fetch(Instruction(op, on, to))
      PROVE  FALSE
  <2> DEFINE i == Instruction(op, on, to)
  <2>1. i \in [op : Operations, on : Threads \cup Semaphores \cup {None}, to : Int] /\ i.op = op
    <3>1. "sleep" \in Operations /\ "set_priority" \in Operations
      BY DEF Operations
    <3>2. op \in Operations /\ on \in Threads \cup Semaphores \cup {None}
      BY <3>1
    <3> HIDE DEF Instruction
    <3>3. i = [op |-> op, on |-> on, to |-> to]
      BY DEF Instruction
    <3> QED BY <3>2, <3>3
  <2> HIDE DEF i
  <2>2. op \in Ops \cup {"noop"}
    BY <1>1, <2>1, InstructionOp DEF i
  <2> QED BY <2>2 DEF Undisturbed
<1>2. ~ ThreadDoSleep
  <2>1. ~ Fetch(Instruction("sleep", None, 0))
    BY <1>1
  <2> QED BY <2>1 DEF ThreadDoSleep, Takes
<1>3. ASSUME NEW t \in Threads, NEW p \in Priorities  PROVE ~ ThreadSetPriority(t, p)
  <2>1. ~ Fetch(Instruction("set_priority", t, p))
    BY <1>1, Numbers
  <2> QED BY <2>1 DEF ThreadSetPriority, Takes
<1> QED BY <1>2, <1>3

LEMMA ExecuteBlock ==
  ASSUME Undisturbed, Base, SleepOK, BlockOK, Execute
  PROVE  BlockOK'
<1>1. /\ thread \in Threads /\ sleep[thread] = None
      /\ sleep \in [Threads -> Threads \cup Semaphores \cup {None}]
      /\ priority \in [Threads -> Int] /\ partial \in [Threads -> BOOLEAN]
  BY ExecuteStart DEF Base, IInv, QueuesOK, FieldsOK
<1>2. CASE UNCHANGED <<sleep, priority, partial, timers>>
  BY <1>2 DEF BlockOK
<1>3. ASSUME NEW s \in Semaphores,
             SemaphoreWait(s) \/ SemaphoreTest(s) \/ SemaphoreSignal(s)
      PROVE  BlockOK'
  <2>1. UNCHANGED timers
    BY <1>3 DEF SemaphoreWait, SemaphoreTest, SemaphoreSignal
  <2>2. CASE ThreadSleep(s) /\ partial' = [partial EXCEPT ![thread] = TRUE]
    <3>1. /\ priority'[thread] = PrioritySync /\ partial'[thread]
          /\ \A t \in Threads : t # thread =>
               sleep'[t] = sleep[t] /\ priority'[t] = priority[t] /\ partial'[t] = partial[t]
      BY <1>1, <2>2 DEF ThreadSleep
    <3> QED BY <2>1, <3>1 DEF BlockOK
  <2>3. CASE WakeOne(s) /\ UNCHANGED <<priority, partial>>
    <3>1. UNCHANGED sleep \/ \E t \in Threads : sleep' = [sleep EXCEPT ![t] = None]
      BY <2>3 DEF WakeOne, queues, Sleepers
    <3>2. \A t \in Threads : sleep'[t] = sleep[t] \/ sleep'[t] = None
      BY <1>1, <3>1
    <3>3. None \notin Semaphores
      BY SchedConstants
    <3> QED BY <2>1, <2>3, <3>2, <3>3 DEF BlockOK
  <2>4. CASE UNCHANGED <<priority, partial, queues>>
    BY <1>2, <2>1, <2>4 DEF queues
  <2> QED BY <1>3, <2>2, <2>3, <2>4 DEF SemaphoreWait, SemaphoreTest, SemaphoreSignal, Wait
<1>4. ASSUME NEW u \in Threads, ThreadJoin(u)  PROVE BlockOK'
  <2>1. UNCHANGED <<timers, partial>>
    BY <1>4 DEF ThreadJoin
  <2>2. CASE ThreadSleep(u)
    <3>1. /\ priority'[thread] = PrioritySync /\ sleep'[thread] \notin Semaphores
          /\ \A t \in Threads : t # thread =>
               sleep'[t] = sleep[t] /\ priority'[t] = priority[t]
      BY <1>1, <2>2, SchedConstants DEF ThreadSleep
    <3> QED BY <2>1, <3>1 DEF BlockOK
  <2>3. CASE UNCHANGED <<priority, queues>>
    BY <1>2, <2>1, <2>3 DEF queues
  <2> QED BY <1>4, <2>2, <2>3 DEF ThreadJoin
<1>5. CASE \/ ThreadTry \/ ThreadEndTry \/ ThreadEnd \/ ThreadNoop
           \/ \E t \in Threads : ThreadFork(t)
  BY <1>2, <1>5 DEF ThreadTry, ThreadEndTry, ThreadEnd, ThreadNoop, ThreadFork, queues
<1> QED BY <1>3, <1>4, <1>5, NobodyKilled, NobodySleeps DEF Execute, Base, Undisturbed

LEMMA NextBlock ==
  ASSUME Undisturbed, Base, SleepOK, BlockOK, [Next]_vars
  PROVE  BlockOK'
<1>1. CASE Execute
  BY <1>1, ExecuteBlock
<1>2. CASE Post
  <2>1. /\ UNCHANGED <<priority, timers>> /\ phase = "post"
        /\ UNCHANGED partial \/ StepDone
        /\ UNCHANGED sleep \/ AbortFinished
    <3>1. ~ AbortException
      BY DEF SleepOK, AbortException
    <3> QED BY <1>2, <3>1 DEF Post, AbortSuspend, AbortFinished, AbortOther, StepDone,
                             Leave, queues
  <2>2. CASE AbortFinished
    <3>1. thread \in Threads /\ Finish(thread) /\ QueuesOK /\ UNCHANGED partial
      BY <2>2 DEF AbortFinished, Leave, Base, IInv, SliceOK
    <3>2. \A u \in Threads : sleep'[u] = sleep[u] \/ sleep'[u] = None
      BY <3>1, FinishSleep
    <3>3. None \notin Semaphores
      BY SchedConstants
    <3> QED BY <2>1, <3>1, <3>2, <3>3 DEF BlockOK
  <2>3. CASE StepDone /\ UNCHANGED sleep
    <3>1. /\ thread \in Threads /\ ~ Suspended(thread)
          /\ partial' = [partial EXCEPT ![thread] = FALSE]
      BY <2>1, <2>3 DEF StepDone, Base, IInv, SliceOK, ThreadOK
    <3>2. sleep[thread] = None
      <4>1. ~ AbortSuspend
        BY <2>3 DEF StepDone, AbortSuspend
      <4>2. "suspend" \notin pending
        BY <1>2, <4>1, SuspendFirst DEF Base
      <4> QED BY <3>1, <4>2 DEF SleepOK, Blocked, Stopping
    <3>3. \A t \in Threads : t # thread => partial'[t] = partial[t]
      BY <3>1 DEF Base, IInv, FieldsOK
    <3>4. None \notin Semaphores
      BY SchedConstants
    <3> QED BY <2>1, <2>3, <3>2, <3>3, <3>4 DEF BlockOK
  <2>4. CASE UNCHANGED <<sleep, partial>>
    BY <2>1, <2>4 DEF BlockOK
  <2>5. ~ (StepDone /\ AbortFinished)
    BY DEF StepDone, AbortFinished
  <2> QED BY <2>1, <2>2, <2>3, <2>4, <2>5
<1>3. CASE Loop
  <2>1. ~ WalkSignal /\ \A t \in Threads : ~ Expire(t)
    BY DEF SleepOK, WalkSignal, BlockOK, Expire
  <2>2. UNCHANGED <<sleep, priority, partial, timers>>
    BY <1>3, <2>1 DEF Loop, Dispatch, Return, TakeSignals, CheckInterrupt, WalkNext,
                      CheckTimer, Expired, queues, thvars
  <2> QED BY <2>2 DEF BlockOK
<1>4. CASE Interrupt \/ Alarm \/ UNCHANGED vars
  <2>1. UNCHANGED <<sleep, priority, partial, timers>>
    BY <1>4 DEF Interrupt, Alarm, vars, queues, thvars
  <2> QED BY <2>1 DEF BlockOK
<1> QED BY <1>1, <1>2, <1>3, <1>4 DEF Next, Internals

-----------------------------------------------------------------------------
(* The queue of the waiters *)

\* The threads of S in the order of c.
InOrder(S, c) == CHOOSE q \in Arrangements(S, c, [t \in Threads |-> 0]) : TRUE

LEMMA InOrderIs ==
  ASSUME NEW c \in Seq(Threads), NEW S \in SUBSET Members(c)
  PROVE  /\ Lists(InOrder(S, c), S, c)
         /\ \A q : Lists(q, S, c) => InOrder(S, c) = q
<1>1. S \subseteq Threads
  BY Places
<1>2. PICK q : Lists(q, S, c)
  BY ListsExist
<1>3. q \in Arrangements(S, c, Level)
  BY <1>1, <1>2, ListsLevel
<1>4. InOrder(S, c) = CHOOSE r \in Arrangements(S, c, Level) : TRUE
  BY DEF InOrder, Level
<1>5. InOrder(S, c) \in Arrangements(S, c, Level)
  BY <1>3, <1>4
<1>6. Lists(InOrder(S, c), S, c)
  BY <1>1, <1>5, ListsLevel
<1> QED BY <1>6, ListsUnique

\* The thread that executes is about to be stopped, asleep on s.
Stops(s) == phase = "post" /\ "suspend" \in pending /\ sleep[thread] = s

LEMMA WaitQueueIs ==
  ASSUME NEW s
  PROVE  WaitQueue(s) = InOrder(Sleepers(s), stopped) \o (IF Stops(s) THEN <<thread>> ELSE <<>>)
BY DEF WaitQueue, InOrder, Stops

LEMMA SleepersListed ==
  ASSUME QueuesOK, NEW s
  PROVE  Sleepers(s) \in SUBSET Members(stopped) /\ stopped \in Seq(Threads)
BY DEF QueuesOK, QueuesMatchStates, Sleepers

\* The queue of waiters when nobody is about to be stopped for s.
LEMMA WaitQueueListed ==
  ASSUME QueuesOK, NEW s, ~ Stops(s)
  PROVE  WaitQueue(s) = InOrder(Sleepers(s), stopped) /\ WaitQueue(s) \in Seq(Threads)
<1>1. Lists(InOrder(Sleepers(s), stopped), Sleepers(s), stopped)
  BY SleepersListed, InOrderIs
<1>2. InOrder(Sleepers(s), stopped) \in Seq(Threads)
  BY <1>1, SleepersListed, ListsType
<1>3. WaitQueue(s) = InOrder(Sleepers(s), stopped) \o <<>>
  BY WaitQueueIs
<1> QED BY <1>2, <1>3, ConcatEmptySeq

\* ... and when one is.
LEMMA WaitQueueStops ==
  ASSUME QueuesOK, NEW s, Stops(s), thread \in Threads
  PROVE  WaitQueue(s) = Append(InOrder(Sleepers(s), stopped), thread)
<1>1. Lists(InOrder(Sleepers(s), stopped), Sleepers(s), stopped)
  BY SleepersListed, InOrderIs
<1>2. InOrder(Sleepers(s), stopped) \in Seq(Threads)
  BY <1>1, SleepersListed, ListsType
<1>3. WaitQueue(s) = InOrder(Sleepers(s), stopped) \o <<thread>>
  BY WaitQueueIs
<1> QED BY <1>2, <1>3, AppendIsConcat

\* Those that wait in the queue are those that sleep on s.
LEMMA WaitQueueMembers ==
  ASSUME Base, SleepOK, NEW s \in Semaphores
  PROVE  /\ WaitQueue(s) \in Seq(Threads)
         /\ Members(WaitQueue(s)) = SleepersOn(s)
         /\ Waiters(s) = SleepersOn(s)
<1>1. QueuesOK /\ s # None
  BY SchedConstants DEF Base, IInv
<1> DEFINE q == InOrder(Sleepers(s), stopped)
<1>2. Lists(q, Sleepers(s), stopped)
  BY <1>1, SleepersListed, InOrderIs
<1>3. q \in Seq(Threads) /\ Members(q) = Sleepers(s)
  BY <1>1, <1>2, SleepersListed, ListsType DEF Lists
<1>4. Waiters(s) = SleepersOn(s)
  BY <1>1 DEF Waiters, SleepersOn, Sleepers, SleepOK, Blocked, Stopping
<1>5. CASE ~ Stops(s)
  <2>1. Sleepers(s) = SleepersOn(s)
    BY <1>1, <1>5 DEF SleepersOn, Sleepers, SleepOK, Blocked, Stopping, Stops
  <2> QED BY <1>1, <1>3, <1>4, <1>5, <2>1, WaitQueueListed
<1>6. CASE Stops(s)
  <2>1. thread \in Threads
    BY <1>6 DEF Stops, Base, IInv, SliceOK
  <2>2. SleepersOn(s) = Sleepers(s) \cup {thread}
    BY <1>1, <1>6, <2>1 DEF SleepersOn, Sleepers, SleepOK, Blocked, Stopping, Stops
  <2>3. <<thread>> \in Seq(Threads) /\ Members(<<thread>>) = {thread}
    BY <2>1 DEF Members
  <2>4. WaitQueue(s) = q \o <<thread>>
    BY <1>6, WaitQueueIs
  <2> HIDE DEF q
  <2> QED BY <1>3, <1>4, <2>2, <2>3, <2>4, ConcatMembers
<1> QED BY <1>5, <1>6

\* A step that keeps the sleepers of s and their order keeps the queue.
LEMMA WaitQueueSame ==
  ASSUME QueuesOK, QueuesOK', NEW s, ~ Stops(s), ~ Stops(s)',
         Sleepers(s)' = Sleepers(s),
         \A x, y \in Sleepers(s) : Before(stopped', x, y) <=> Before(stopped, x, y)
  PROVE  WaitQueue(s)' = WaitQueue(s)
<1> DEFINE q == InOrder(Sleepers(s), stopped)
           r == InOrder(Sleepers(s)', stopped')
<1>1. WaitQueue(s) = q
  BY WaitQueueListed
<1>2. WaitQueue(s)' = r \o <<>>
  BY DEF WaitQueue, InOrder, Stops
<1>3. Sleepers(s) \in SUBSET Members(stopped) /\ stopped \in Seq(Threads)
  BY SleepersListed
<1>4. Sleepers(s) \in SUBSET Members(stopped') /\ stopped' \in Seq(Threads)
  <2>1. Sleepers(s)' \in SUBSET Members(stopped') /\ stopped' \in Seq(Threads)
    BY DEF QueuesOK, QueuesMatchStates, Sleepers
  <2> QED BY <2>1
<1>5. Lists(q, Sleepers(s), stopped)
  BY <1>3, InOrderIs
<1>6. Lists(q, Sleepers(s), stopped')
  BY <1>5, ListsSame
<1>7. r = q
  BY <1>4, <1>6, InOrderIs
<1>8. q \in Seq(Threads)
  BY <1>3, <1>5, ListsType
<1> QED BY <1>1, <1>2, <1>7, <1>8, ConcatEmptySeq

-----------------------------------------------------------------------------
(* Every step is a step of the semaphores *)

Steady == Base /\ SleepOK /\ CountOK /\ BlockOK

LEMMA SteadyNext == Undisturbed /\ Steady /\ [Next]_vars => Steady'
BY BaseNext, NextSleep, NextCount, NextBlock DEF Steady, Undisturbed

LEMMA ReleasedIs ==
  ASSUME Base, SleepOK
  PROVE  Released = {t \in Threads : partial[t] /\ sleep[t] \notin Semaphores}
<1>1. \A s \in Semaphores : Waiters(s) = SleepersOn(s)
  BY WaitQueueMembers
<1> QED BY <1>1 DEF Released, SleepersOn

\* What the abstract semaphores see of a step.
SameWaiters == \A s \in Semaphores : WaitQueue(s)' = WaitQueue(s)

\* A step that they do not see.
LEMMA StutterStep ==
  ASSUME UNCHANGED count, SameWaiters, Released' = Released
  PROVE  UNCHANGED Promise!vars
<1>1. [s \in Semaphores |-> WaitQueue(s)]' = [s \in Semaphores |-> WaitQueue(s)]
  BY DEF SameWaiters
<1> QED BY <1>1 DEF Promise!vars

\* A wait that does not block.
LEMMA PassStep ==
  ASSUME NEW s \in Semaphores, count \in [Semaphores -> Int], count[s] > 0,
         count' = [count EXCEPT ![s] = @ - 1], SameWaiters, Released' = Released
  PROVE  Promise!Next
<1> DEFINE p == [r \in Semaphores |-> IF count[r] > 0 THEN count[r] ELSE 0]
<1>1. [r \in Semaphores |-> WaitQueue(r)]' = [r \in Semaphores |-> WaitQueue(r)]
  BY DEF SameWaiters
<1>2. p[s] > 0 /\ p' = [p EXCEPT ![s] = @ - 1]
  <2>1. count[s] \in Int /\ count'[s] = count[s] - 1
    OBVIOUS
  <2>2. p'[s] = p[s] - 1 /\ p[s] > 0
    BY <2>1
  <2>3. \A r \in Semaphores : r # s => p'[r] = p[r]
    OBVIOUS
  <2> QED BY <2>2, <2>3
<1>3. Promise!Pass(s)
  BY <1>1, <1>2 DEF Promise!Pass
<1> QED BY <1>3 DEF Promise!Next

\* A signal that leaves a permit.
LEMMA PermitStep ==
  ASSUME NEW s \in Semaphores, count \in [Semaphores -> Int], count[s] >= 0,
         count' = [count EXCEPT ![s] = @ + 1], SameWaiters, Released' = Released,
         WaitQueue(s) = <<>>
  PROVE  Promise!Next
<1> DEFINE p == [r \in Semaphores |-> IF count[r] > 0 THEN count[r] ELSE 0]
           b == [r \in Semaphores |-> WaitQueue(r)]
<1>1. b' = b /\ b[s] = <<>>
  BY DEF SameWaiters
<1>2. p' = [p EXCEPT ![s] = @ + 1]
  <2>1. count[s] \in Int /\ count'[s] = count[s] + 1
    OBVIOUS
  <2>2. p'[s] = p[s] + 1
    BY <2>1
  <2>3. \A r \in Semaphores : r # s => p'[r] = p[r]
    OBVIOUS
  <2> QED BY <2>2, <2>3
<1>3. Promise!Signal(s)
  BY <1>1, <1>2 DEF Promise!Signal
<1> QED BY <1>3 DEF Promise!Next

\* A signal that lets the thread go that waits for the longest time.
LEMMA WakeStep ==
  ASSUME NEW s \in Semaphores, count \in [Semaphores -> Int], count[s] < 0,
         count' = [count EXCEPT ![s] = @ + 1], WaitQueue(s) # <<>>,
         WaitQueue(s)' = Tail(WaitQueue(s)),
         \A r \in Semaphores : r # s => WaitQueue(r)' = WaitQueue(r),
         Released' = Released \cup {Head(WaitQueue(s))}
  PROVE  Promise!Next
<1> DEFINE p == [r \in Semaphores |-> IF count[r] > 0 THEN count[r] ELSE 0]
           b == [r \in Semaphores |-> WaitQueue(r)]
<1>1. b[s] = WaitQueue(s) /\ b' = [b EXCEPT ![s] = Tail(@)]
  <2>1. b'[s] = Tail(b[s]) /\ \A r \in Semaphores : r # s => b'[r] = b[r]
    OBVIOUS
  <2> QED BY <2>1
<1>2. p' = p
  <2>1. count[s] \in Int /\ count'[s] = count[s] + 1
    OBVIOUS
  <2>2. p'[s] = p[s]
    BY <2>1
  <2>3. \A r \in Semaphores : r # s => p'[r] = p[r]
    OBVIOUS
  <2> QED BY <2>2, <2>3
<1>3. Promise!Signal(s)
  <2> HIDE DEF p
  <2> QED BY <1>1, <1>2 DEF Promise!Signal, p
<1> QED BY <1>3 DEF Promise!Next

\* A wait that blocks.
LEMMA BlockStep ==
  ASSUME NEW s \in Semaphores, count \in [Semaphores -> Int], count[s] <= 0,
         count' = [count EXCEPT ![s] = @ - 1], thread \in Threads,
         thread \notin Released, \A r \in Semaphores : thread \notin Members(WaitQueue(r)),
         WaitQueue(s)' = Append(WaitQueue(s), thread),
         \A r \in Semaphores : r # s => WaitQueue(r)' = WaitQueue(r),
         Released' = Released
  PROVE  Promise!Next
<1> DEFINE p == [r \in Semaphores |-> IF count[r] > 0 THEN count[r] ELSE 0]
           b == [r \in Semaphores |-> WaitQueue(r)]
<1>1. b' = [b EXCEPT ![s] = Append(@, thread)]
  <2>1. b'[s] = Append(b[s], thread) /\ \A r \in Semaphores : r # s => b'[r] = b[r]
    OBVIOUS
  <2> QED BY <2>1
<1>2. p' = p /\ p[s] = 0
  <2>1. count[s] \in Int /\ count'[s] = count[s] - 1
    OBVIOUS
  <2>2. p'[s] = p[s] /\ p[s] = 0
    BY <2>1
  <2>3. \A r \in Semaphores : r # s => p'[r] = p[r]
    OBVIOUS
  <2> QED BY <2>2, <2>3
<1>3. \A r \in Semaphores : \A i \in DOMAIN b[r] : b[r][i] # thread
  BY DEF Members
<1>4. Promise!Block(thread, s)
  <2> HIDE DEF p, b
  <2> QED BY <1>1, <1>2, <1>3 DEF Promise!Block, p, b
<1> QED BY <1>4 DEF Promise!Next

\* The end of a wait that had blocked.
LEMMA GoOnStep ==
  ASSUME UNCHANGED count, SameWaiters, NEW t \in Threads, t \in Released,
         Released' = Released \ {t}
  PROVE  Promise!Next
<1>1. [r \in Semaphores |-> WaitQueue(r)]' = [r \in Semaphores |-> WaitQueue(r)]
  BY DEF SameWaiters
<1>2. Promise!GoOn(t)
  BY <1>1 DEF Promise!GoOn
<1> QED BY <1>2 DEF Promise!Next

LEMMA ReleasedNext ==
  ASSUME SleepOK'
  PROVE  Released' = {t \in Threads : partial'[t] /\ sleep'[t] \notin Semaphores}
<1>1. \A s \in Semaphores : Waiters(s)' = {t \in Threads : sleep'[t] = s}
  BY SchedConstants DEF Waiters, Sleepers, SleepOK, Blocked, Stopping
<1> QED BY <1>1 DEF Released

\* Nobody is about to be stopped when an instruction starts.
LEMMA NobodyStops ==
  ASSUME phase # "post" \/ "suspend" \notin pending
  PROVE  \A s \in Semaphores : ~ Stops(s)
BY DEF Stops

\* Whoever sleeps on a semaphore, in which order, and is released stays the same.
LEMMA NothingSeen ==
  ASSUME Steady, Steady', UNCHANGED <<count, partial, stopped>>,
         \A s \in Semaphores : ~ Stops(s) /\ ~ Stops(s)',
         \A t \in Threads : state'[t] = "suspended" <=> Suspended(t),
         \A t \in Threads : \A s \in Semaphores : sleep'[t] = s <=> sleep[t] = s
  PROVE  UNCHANGED Promise!vars
<1>1. QueuesOK /\ QueuesOK' /\ Base /\ SleepOK /\ SleepOK'
  BY DEF Steady, Base, IInv
<1>2. \A s \in Semaphores : Sleepers(s)' = Sleepers(s)
  BY DEF Sleepers, Suspended
<1>3. SameWaiters
  BY <1>1, <1>2, WaitQueueSame DEF SameWaiters
<1>4. Released' = Released
  BY <1>1, ReleasedIs, ReleasedNext
<1> QED BY <1>3, <1>4, StutterStep

\* A thread that waits in vain joins the queue at its end, in the moment in which
\* it decrements the count.
LEMMA WaitBlocks ==
  ASSUME Steady, Steady', Execute, NEW s \in Semaphores, ThreadSleep(s),
         count[s] <= 0, count' = [count EXCEPT ![s] = @ - 1],
         ~ partial[thread], partial' = [partial EXCEPT ![thread] = TRUE]
  PROVE  Promise!Next
<1>1. /\ phase = "exec" /\ phase' = "post" /\ thread' = thread
      /\ thread \in Threads /\ Running(thread) /\ sleep[thread] = None
  BY ExecuteStart DEF Steady
<1>2. /\ QueuesOK /\ QueuesOK' /\ Base /\ SleepOK /\ SleepOK'
      /\ count \in [Semaphores -> Int]
      /\ sleep \in [Threads -> Threads \cup Semaphores \cup {None}]
      /\ partial \in [Threads -> BOOLEAN]
  BY DEF Steady, Base, IInv, QueuesOK, FieldsOK
<1>3. /\ UNCHANGED <<stopped, state>> /\ "suspend" \in pending'
      /\ sleep' = [sleep EXCEPT ![thread] = s]
  BY DEF ThreadSleep, SetSignal
<1>4. \A r \in Semaphores : ~ Stops(r) /\ None # r
  BY <1>1, SchedConstants DEF Stops
<1>5. \A r \in Semaphores : Sleepers(r)' = Sleepers(r)
  BY <1>1, <1>2, <1>3 DEF Sleepers, Suspended, Running
<1>6. \A r \in Semaphores : r # s => WaitQueue(r)' = WaitQueue(r)
  <2> SUFFICES ASSUME NEW r \in Semaphores, r # s PROVE WaitQueue(r)' = WaitQueue(r)
    OBVIOUS
  <2>1. ~ Stops(r)'
    BY <1>1, <1>2, <1>3 DEF Stops
  <2> QED BY <1>2, <1>3, <1>4, <1>5, <2>1, WaitQueueSame
<1>7. WaitQueue(s)' = Append(WaitQueue(s), thread)
  <2>1. Stops(s)'
    BY <1>1, <1>2, <1>3 DEF Stops
  <2>2. WaitQueue(s) = InOrder(Sleepers(s), stopped) /\ WaitQueue(s) \in Seq(Threads)
    BY <1>2, <1>4, WaitQueueListed
  <2>3. WaitQueue(s)' = InOrder(Sleepers(s)', stopped') \o <<thread'>>
    BY <2>1 DEF WaitQueue, InOrder, Stops
  <2>4. WaitQueue(s)' = WaitQueue(s) \o <<thread>>
    BY <1>1, <1>3, <1>5, <2>2, <2>3
  <2> QED BY <1>1, <2>2, <2>4, AppendIsConcat
<1>8. thread \notin Released /\ Released' = Released
  BY <1>1, <1>2, <1>3, <1>4, ReleasedIs, ReleasedNext
<1>9. \A r \in Semaphores : thread \notin Members(WaitQueue(r))
  BY <1>1, <1>2, <1>4, WaitQueueMembers DEF SleepersOn
<1> QED BY <1>1, <1>2, <1>6, <1>7, <1>8, <1>9, BlockStep

\* A signal wakes the first thread of the queue.
LEMMA SignalWakes ==
  ASSUME Steady, Steady', Execute, NEW s \in Semaphores, WakeOne(s),
         count[s] < 0, count' = [count EXCEPT ![s] = @ + 1], UNCHANGED <<partial, flags>>
  PROVE  Promise!Next
<1>1. /\ phase = "exec" /\ phase' = "post" /\ "suspend" \notin pending
  BY ExecuteStart DEF Steady
<1>2. /\ QueuesOK /\ QueuesOK' /\ Base /\ SleepOK /\ SleepOK'
      /\ count \in [Semaphores -> Int] /\ state \in [Threads -> States]
      /\ sleep \in [Threads -> Threads \cup Semaphores \cup {None}]
  BY DEF Steady, Base, IInv, QueuesOK, FieldsOK
<1>3. \A r \in Semaphores : ~ Stops(r) /\ ~ Stops(r)' /\ None # r
  BY <1>1, SchedConstants DEF Stops, flags
<1>4. Sleepers(s) = SleepersOn(s)
  BY <1>1, <1>2, <1>3 DEF SleepersOn, Sleepers, SleepOK, Blocked, Stopping
<1>5. Sleepers(s) # {}
  <2>1. Cardinality(SleepersOn(s)) = -count[s] /\ -count[s] # 0
    BY <1>2 DEF Steady, CountOK
  <2> QED BY <1>4, <2>1, FS_EmptySet
<1>6. PICK t \in Sleepers(s) :
        /\ \A u \in Sleepers(s) : Place(stopped, t) <= Place(stopped, u)
        /\ Resume(t)
        /\ sleep' = [sleep EXCEPT ![t] = None]
  BY <1>5 DEF WakeOne
<1>7. t \in Threads /\ Suspended(t) /\ sleep[t] = s
  BY <1>6 DEF Sleepers
<1>8. /\ stopped' = Remove(stopped, t) /\ t \in Members(stopped) /\ NoDuplicates(stopped)
      /\ stopped \in Seq(Threads) /\ stopped' \in Seq(Threads)
      /\ \A r : Sleepers(r) \in SUBSET Members(stopped)
  BY <1>2, <1>6, <1>7, SleepersListed DEF Resume, QueuesOK, QueuesMatchStates
<1>9. \A u \in Threads : u # t => state'[u] = state[u] /\ sleep'[u] = sleep[u]
  BY <1>2, <1>6, <1>7 DEF Resume
<1>10. state'[t] = "running" /\ sleep'[t] = None
  BY <1>2, <1>6, <1>7 DEF Resume
<1>11. \A x, y \in Members(stopped) \ {t} : Before(stopped', x, y) <=> Before(stopped, x, y)
  BY <1>8, RemoveBefore
<1>12. ASSUME NEW r \in Semaphores, r # s  PROVE WaitQueue(r)' = WaitQueue(r)
  <2>1. Sleepers(r)' = Sleepers(r) /\ t \notin Sleepers(r)
    BY <1>7, <1>9, <1>10, <1>12 DEF Sleepers, Suspended
  <2>2. \A x, y \in Sleepers(r) : Before(stopped', x, y) <=> Before(stopped, x, y)
    BY <1>8, <1>11, <2>1
  <2> QED BY <1>2, <1>3, <2>1, <2>2, WaitQueueSame
<1> DEFINE q == InOrder(Sleepers(s), stopped)
           S == Sleepers(s) \ {t}
<1>13. WaitQueue(s) = q
  BY <1>2, <1>3, WaitQueueListed
<1>14. q # <<>> /\ Head(q) = t /\ q \in Seq(Threads) /\ Lists(Tail(q), S, stopped)
  <2>1. Lists(q, Sleepers(s), stopped)
    BY <1>8, InOrderIs
  <2> QED BY <1>6, <1>8, <2>1, ListsTail
<1>15. WaitQueue(s)' = Tail(q)
  <2>1. Sleepers(s)' = S
    BY <1>7, <1>9, <1>10 DEF Sleepers, Suspended
  <2>2. S \subseteq Members(stopped')
    BY <1>2, <2>1 DEF QueuesOK, QueuesMatchStates, Sleepers
  <2>3. Lists(Tail(q), S, stopped')
    <3>1. \A x, y \in S : Before(stopped, x, y) <=> Before(stopped', x, y)
      BY <1>8, <1>11
    <3> QED BY <1>14, <3>1, ListsSame
  <2>4. InOrder(S, stopped') = Tail(q)
    BY <1>8, <2>2, <2>3, InOrderIs
  <2>5. WaitQueue(s)' = InOrder(Sleepers(s)', stopped') \o <<>>
    BY <1>3 DEF WaitQueue, InOrder, Stops
  <2>6. Tail(q) \in Seq(Threads)
    BY <1>14, HeadTailProperties
  <2> HIDE DEF q, S
  <2> QED BY <2>1, <2>4, <2>5, <2>6, ConcatEmptySeq
<1>16. Released' = Released \cup {t}
  <2>1. partial[t]
    BY <1>7 DEF Steady, BlockOK
  <2> QED BY <1>2, <1>3, <1>7, <1>9, <1>10, <2>1, ReleasedIs, ReleasedNext
<1> HIDE DEF q, S
<1> QED BY <1>2, <1>12, <1>13, <1>14, <1>15, <1>16, WakeStep

\* A signal leaves a permit when nobody waits.
LEMMA SignalLeaves ==
  ASSUME Steady, Steady', Execute, NEW s \in Semaphores,
         count[s] >= 0, count' = [count EXCEPT ![s] = @ + 1],
         UNCHANGED <<queues, partial, flags>>
  PROVE  Promise!Next
<1>1. /\ phase = "exec" /\ phase' = "post" /\ "suspend" \notin pending
  BY ExecuteStart DEF Steady
<1>2. /\ QueuesOK /\ QueuesOK' /\ Base /\ SleepOK /\ SleepOK'
      /\ count \in [Semaphores -> Int]
  BY DEF Steady, Base, IInv, FieldsOK
<1>3. \A r \in Semaphores : ~ Stops(r) /\ ~ Stops(r)'
  BY <1>1 DEF Stops, flags
<1>4. SameWaiters
  <2>1. UNCHANGED stopped /\ \A r \in Semaphores : Sleepers(r)' = Sleepers(r)
    BY DEF Sleepers, Suspended, queues
  <2> QED BY <1>2, <1>3, <2>1, WaitQueueSame DEF SameWaiters
<1>5. Released' = Released
  BY <1>2, ReleasedIs, ReleasedNext DEF queues
<1>6. WaitQueue(s) = <<>>
  <2>1. IsFiniteSet(SleepersOn(s)) /\ Cardinality(SleepersOn(s)) = 0
    BY <1>2 DEF Steady, CountOK
  <2>2. SleepersOn(s) = {}
    BY <2>1, FS_EmptySet
  <2>3. WaitQueue(s) \in Seq(Threads) /\ Members(WaitQueue(s)) = {}
    BY <1>2, <2>2, WaitQueueMembers
  <2>4. DOMAIN WaitQueue(s) = 1..Len(WaitQueue(s))
    BY <2>3, LenProperties
  <2>5. SUFFICES ASSUME WaitQueue(s) # <<>> PROVE FALSE
    OBVIOUS
  <2>6. 1 \in DOMAIN WaitQueue(s)
    BY <2>3, <2>4, <2>5, EmptySeq
  <2> QED BY <2>3, <2>6 DEF Members
<1> QED BY <1>2, <1>4, <1>5, <1>6, PermitStep

LEMMA ExecuteRefines ==
  ASSUME Undisturbed, Steady, Steady', Execute
  PROVE  Promise!Next \/ UNCHANGED Promise!vars
<1>1. /\ phase = "exec" /\ phase' = "post" /\ thread' = thread
      /\ thread \in Threads /\ Running(thread) /\ sleep[thread] = None
      /\ "suspend" \notin pending
  BY ExecuteStart DEF Steady
<1>2. /\ QueuesOK /\ QueuesOK' /\ Base /\ SleepOK /\ SleepOK'
      /\ count \in [Semaphores -> Int] /\ state \in [Threads -> States]
      /\ sleep \in [Threads -> Threads \cup Semaphores \cup {None}]
      /\ partial \in [Threads -> BOOLEAN]
  BY DEF Steady, Base, IInv, QueuesOK, FieldsOK
<1>3. \A s \in Semaphores : s # None /\ s \notin Threads
  BY SchedConstants
<1>4. ASSUME UNCHANGED <<count, partial, stopped>>,
             \A t \in Threads : state'[t] = "suspended" <=> Suspended(t),
             \A t \in Threads : \A s \in Semaphores : sleep'[t] = s <=> sleep[t] = s
      PROVE  UNCHANGED Promise!vars
  <2>1. \A s \in Semaphores : ~ Stops(s) /\ ~ Stops(s)'
    BY <1>1, <1>3, <1>4 DEF Stops
  <2> QED BY <1>4, <2>1, NothingSeen
<1>5. ASSUME NEW s \in Semaphores, Wait(s)  PROVE Promise!Next \/ UNCHANGED Promise!vars
  <2>1. CASE UNCHANGED <<count, partial, queues>>
    BY <1>4, <2>1 DEF queues, Suspended
  <2>2. CASE /\ count[s] > 0 /\ count' = [count EXCEPT ![s] = @ - 1]
             /\ UNCHANGED <<partial, queues, flags>>
    <3>1. \A r \in Semaphores : ~ Stops(r) /\ ~ Stops(r)' /\ Sleepers(r)' = Sleepers(r)
      BY <1>1, <2>2 DEF Stops, flags, queues, Sleepers, Suspended
    <3>2. SameWaiters
      BY <1>2, <2>2, <3>1, WaitQueueSame DEF SameWaiters, queues
    <3>3. Released' = Released
      BY <1>2, <2>2, ReleasedIs, ReleasedNext DEF queues
    <3> QED BY <1>2, <2>2, <3>2, <3>3, PassStep
  <2>3. CASE /\ ~ partial[thread] /\ count[s] \in (1 - CountBound)..0
             /\ count' = [count EXCEPT ![s] = @ - 1]
             /\ partial' = [partial EXCEPT ![thread] = TRUE] /\ ThreadSleep(s)
    <3>1. count[s] <= 0
      BY <1>2, <2>3, Numbers
    <3> QED BY <2>3, <3>1, WaitBlocks
  <2> QED BY <1>5, <2>1, <2>2, <2>3 DEF Wait
<1>6. ASSUME NEW s \in Semaphores, SemaphoreSignal(s)
      PROVE  Promise!Next \/ UNCHANGED Promise!vars
  <2>1. UNCHANGED <<partial, flags>>
    BY <1>6 DEF SemaphoreSignal
  <2>2. CASE UNCHANGED <<count, queues>>
    BY <1>4, <2>1, <2>2 DEF queues, Suspended
  <2>3. CASE /\ count' = [count EXCEPT ![s] = @ + 1]
             /\ IF count[s] + 1 <= 0 THEN WakeOne(s) ELSE UNCHANGED queues
    <3>1. count[s] \in Int
      BY <1>2
    <3>2. CASE count[s] < 0
      <4>1. count[s] + 1 <= 0
        BY <3>1, <3>2
      <4> QED BY <2>1, <2>3, <3>2, <4>1, SignalWakes
    <3>3. CASE count[s] >= 0
      <4>1. ~ (count[s] + 1 <= 0)
        BY <3>1, <3>3
      <4> QED BY <2>1, <2>3, <3>3, <4>1, SignalLeaves
    <3> QED BY <3>1, <3>2, <3>3
  <2> QED BY <1>6, <2>2, <2>3 DEF SemaphoreSignal
<1>7. ASSUME NEW s \in Semaphores, SemaphoreWait(s) \/ SemaphoreTest(s)
      PROVE  Promise!Next \/ UNCHANGED Promise!vars
  <2>1. Wait(s) \/ UNCHANGED <<count, partial, queues>>
    BY <1>7 DEF SemaphoreWait, SemaphoreTest
  <2> QED BY <1>4, <1>5, <2>1 DEF queues, Suspended
<1>8. ASSUME NEW t \in Threads, ThreadJoin(t)  PROVE UNCHANGED Promise!vars
  <2>1. /\ UNCHANGED <<count, partial, stopped, state>>
        /\ UNCHANGED sleep \/ sleep' = [sleep EXCEPT ![thread] = t]
    BY <1>8 DEF ThreadJoin, ThreadSleep, queues
  <2>2. \A u \in Threads : \A s \in Semaphores : sleep'[u] = s <=> sleep[u] = s
    BY <1>1, <1>2, <1>3, <2>1
  <2> QED BY <1>4, <2>1, <2>2 DEF Suspended
<1>9. ASSUME NEW t \in Threads, ThreadFork(t)  PROVE UNCHANGED Promise!vars
  <2>1. /\ UNCHANGED <<count, partial, stopped, sleep>> /\ state[t] = "unborn"
        /\ state' = [state EXCEPT ![t] = "running"]
    BY <1>9 DEF ThreadFork
  <2>2. \A u \in Threads : state'[u] = "suspended" <=> Suspended(u)
    BY <1>2, <2>1 DEF Suspended
  <2> QED BY <1>4, <2>1, <2>2
<1>10. CASE ThreadTry \/ ThreadEndTry \/ ThreadEnd \/ ThreadNoop
  <2>1. UNCHANGED <<count, partial, queues>>
    BY <1>10 DEF ThreadTry, ThreadEndTry, ThreadEnd, ThreadNoop
  <2> QED BY <1>4, <2>1 DEF queues, Suspended
<1>11. \A t \in Threads : ~ ThreadKill(t) /\ ~ ThreadSendSignal(t)
  BY NobodyKilled DEF Undisturbed, Steady, Base
<1>12. ~ ThreadDoSleep /\ \A t \in Threads : \A p \in Priorities : ~ ThreadSetPriority(t, p)
  BY NobodySleeps DEF Steady, Base
<1> QED BY <1>6, <1>7, <1>8, <1>9, <1>10, <1>11, <1>12 DEF Execute

\* The thread that blocked goes into the stop queue, behind the others that wait.
LEMMA SuspendRefines ==
  ASSUME Steady, Steady', AbortSuspend
  PROVE  UNCHANGED Promise!vars
<1>1. /\ thread \in Threads /\ phase = "post" /\ phase' = "top" /\ "suspend" \in pending
      /\ UNCHANGED <<count, partial, sleep>> /\ Running(thread)
      /\ state' = [state EXCEPT ![thread] = "suspended"]
      /\ stopped' = Insert(stopped, thread, priority)
  BY DEF AbortSuspend, Leave, Steady, Base, OrderOK, IInv, SliceOK
<1>2. /\ QueuesOK /\ QueuesOK' /\ Base /\ SleepOK /\ SleepOK'
      /\ state \in [Threads -> States] /\ priority \in [Threads -> Int]
      /\ SortedBy(stopped, priority) /\ NoDuplicates(stopped)
      /\ stopped \in Seq(Threads) /\ stopped' \in Seq(Threads)
      /\ thread \notin Members(stopped) /\ thread \in Members(stopped')
  <2>1. QueuesOK /\ QueuesOK' /\ SortedBy(stopped, priority) /\ priority \in [Threads -> Int]
    BY DEF Steady, Base, IInv, FieldsOK, OrderOK
  <2>2. state'[thread] = "suspended" /\ ~ Suspended(thread)
    BY <1>1, <2>1 DEF QueuesOK, Running, Suspended
  <2> QED BY <1>1, <2>1, <2>2
          DEF Steady, Base, IInv, QueuesOK, QueuesMatchStates, Suspended
<1>3. \A r \in Semaphores : ~ Stops(r)' /\ r # None
  BY <1>1, SchedConstants DEF Stops
<1>4. /\ \A x, y \in Members(stopped) : Before(stopped', x, y) <=> Before(stopped, x, y)
      /\ \A x \in Members(stopped) : priority[x] >= priority[thread] => Before(stopped', x, thread)
  BY <1>1, <1>2, InsertBefore
<1>5. \A r : Sleepers(r) \in SUBSET Members(stopped)
  BY <1>2, SleepersListed
<1>6. SameWaiters
  <2> SUFFICES ASSUME NEW r \in Semaphores PROVE WaitQueue(r)' = WaitQueue(r)
    BY DEF SameWaiters
  <2>1. CASE ~ Stops(r)
    <3>1. Sleepers(r)' = Sleepers(r)
      BY <1>1, <1>2, <2>1 DEF Sleepers, Suspended, Stops
    <3> QED BY <1>2, <1>3, <1>4, <1>5, <2>1, <3>1, WaitQueueSame
  <2>2. CASE Stops(r)
    <3> DEFINE q == InOrder(Sleepers(r), stopped)
               S == Sleepers(r)
    <3>1. sleep[thread] = r
      BY <2>2 DEF Stops
    <3>2. S' = S \cup {thread} /\ thread \notin S
      BY <1>1, <1>2, <3>1 DEF Sleepers, Suspended, Running
    <3>3. Lists(q, S, stopped)
      BY <1>2, <1>5, InOrderIs
    <3>4. S \subseteq Members(stopped')
      BY <1>2, <3>2 DEF QueuesOK, QueuesMatchStates, Sleepers
    <3>5. Lists(q, S, stopped')
      <4>1. \A x, y \in S : Before(stopped, x, y) <=> Before(stopped', x, y)
        BY <1>4, <1>5
      <4> QED BY <3>3, <4>1, ListsSame
    <3>6. \A x \in S : Before(stopped', x, thread)
      <4>1. \A x \in S : priority[x] = PrioritySync /\ priority[thread] = PrioritySync
        BY <1>1, <1>3, <3>1 DEF Steady, BlockOK, Sleepers
      <4> QED BY <1>4, <1>5, <4>1, Numbers
    <3>7. Lists(Append(q, thread), S \cup {thread}, stopped')
      BY <1>2, <3>2, <3>4, <3>5, <3>6, ListsAppend
    <3>8. InOrder(S', stopped') = Append(q, thread)
      BY <1>2, <3>2, <3>4, <3>7, InOrderIs
    <3>9. WaitQueue(r)' = InOrder(S', stopped') \o <<>>
      BY <1>3 DEF WaitQueue, InOrder, Stops
    <3>10. WaitQueue(r) = Append(q, thread)
      BY <1>1, <1>2, <2>2, WaitQueueStops
    <3>11. Append(q, thread) \in Seq(Threads)
      BY <1>1, <1>2, <1>5, <3>3, ListsType, AppendProperties
    <3> HIDE DEF q, S
    <3> QED BY <3>8, <3>9, <3>10, <3>11, ConcatEmptySeq
  <2> QED BY <2>1, <2>2
<1>7. Released' = Released
  BY <1>1, <1>2, ReleasedIs, ReleasedNext
<1> QED BY <1>1, <1>6, <1>7, StutterStep

\* The end of a thread lets its joiners go, and leaves who waits in order: those
\* that wait have the same priority.
LEMMA FinishRefines ==
  ASSUME Steady, Steady', AbortFinished
  PROVE  UNCHANGED Promise!vars
<1>1. /\ thread \in Threads /\ phase = "post" /\ phase' = "top" /\ ~ Suspended(thread)
      /\ UNCHANGED <<count, partial>> /\ Finish(thread) /\ "suspend" \notin pending
  <2>1. phase = "post" /\ Post /\ ~ AbortSuspend
    <3>1. "finished" \in pending /\ phase = "post"
      BY DEF AbortFinished, Leave
    <3>2. "suspend" \notin pending
      BY <3>1 DEF Steady, Base, FlagsOK, Raised
    <3> QED BY <3>1, <3>2 DEF Post, AbortSuspend
  <2>2. "suspend" \notin pending
    BY <2>1, SuspendFirst DEF Steady, Base
  <2> QED BY <2>1, <2>2 DEF AbortFinished, Leave, Steady, Base, IInv, SliceOK, ThreadOK
<1>2. /\ QueuesOK /\ QueuesOK' /\ Base /\ SleepOK /\ SleepOK'
      /\ priority \in [Threads -> Int] /\ stopped \in Seq(Threads)
      /\ Members(stopped) = {t \in Threads : Suspended(t)}
  BY DEF Steady, Base, IInv, QueuesOK, QueuesMatchStates, FieldsOK
<1>3. \A r \in Semaphores : ~ Stops(r) /\ ~ Stops(r)' /\ r # None /\ r # thread
  BY <1>1, SchedConstants DEF Stops
<1>4. \A u \in Threads :
        \/ /\ state'[u] = state[u] \/ (u = thread /\ state'[u] = "finished")
           /\ sleep'[u] = sleep[u]
        \/ Suspended(u) /\ sleep[u] = thread /\ state'[u] = "running" /\ sleep'[u] = None
  BY <1>1, <1>2, FinishSleep
<1>5. ASSUME NEW r \in Semaphores  PROVE WaitQueue(r)' = WaitQueue(r)
  <2>1. Sleepers(r)' = Sleepers(r)
    BY <1>1, <1>3, <1>4 DEF Sleepers, Suspended
  <2>2. ASSUME NEW x \in Sleepers(r), NEW y \in Sleepers(r)
        PROVE  Before(stopped', x, y) <=> Before(stopped, x, y)
    <3>1. CASE state[thread] = "finished"
      BY <1>1, <3>1 DEF Finish, queues
    <3>2. CASE state[thread] # "finished"
      <4> DEFINE S == Members(stopped) \ (Sleepers(thread) \ {thread})
      <4>1. stopped' \in Arrangements(S, stopped, priority)
        BY <1>1, <3>2 DEF Finish
      <4>2. x \in S /\ y \in S
        BY <1>2, <1>3 DEF Sleepers
      <4>3. priority[x] = priority[y]
        BY <1>3 DEF Steady, BlockOK, Sleepers
      <4> HIDE DEF S
      <4>4. S \in SUBSET Members(stopped)
        BY DEF S
      <4> QED BY <1>2, <4>1, <4>2, <4>3, <4>4, ArrangementsBefore
    <3> QED BY <3>1, <3>2
  <2> QED BY <1>2, <1>3, <2>1, <2>2, WaitQueueSame
<1>6. Released' = Released
  <2>1. \A u \in Threads : sleep'[u] \in Semaphores <=> sleep[u] \in Semaphores
    BY <1>3, <1>4
  <2> QED BY <1>1, <1>2, <2>1, ReleasedIs, ReleasedNext
<1> QED BY <1>1, <1>5, <1>6, StutterStep DEF SameWaiters

\* The thread that was released has done its wait.
LEMMA StepRefines ==
  ASSUME Steady, Steady', StepDone
  PROVE  Promise!Next \/ UNCHANGED Promise!vars
<1>1. /\ phase = "post" /\ Post /\ ~ AbortSuspend
  BY DEF StepDone, Post, AbortSuspend
<1>2. /\ thread \in Threads /\ ~ Suspended(thread) /\ "suspend" \notin pending
      /\ UNCHANGED <<count, state, sleep, pending>>
      /\ partial' = [partial EXCEPT ![thread] = FALSE]
      /\ partial \in [Threads -> BOOLEAN]
  BY <1>1, SuspendFirst DEF StepDone, Steady, Base, IInv, SliceOK, ThreadOK, FieldsOK, flags
<1>3. UNCHANGED stopped /\ QueuesOK /\ QueuesOK' /\ Base /\ SleepOK /\ SleepOK'
  BY <1>2 DEF StepDone, Steady, Base, IInv
<1>4. SameWaiters
  <2>1. \A r \in Semaphores : ~ Stops(r) /\ ~ Stops(r)' /\ Sleepers(r)' = Sleepers(r)
    BY <1>2 DEF Stops, Sleepers, Suspended
  <2> QED BY <1>3, <2>1, WaitQueueSame DEF SameWaiters
<1>5. sleep[thread] \notin Semaphores
  BY <1>2, SchedConstants DEF Steady, SleepOK, Blocked, Stopping
<1>6. Released' = Released \ {thread} /\ (partial[thread] => thread \in Released)
  BY <1>2, <1>3, <1>5, ReleasedIs, ReleasedNext
<1>7. CASE partial[thread]
  BY <1>2, <1>4, <1>6, <1>7, GoOnStep
<1>8. CASE ~ partial[thread]
  <2>1. Released' = Released
    BY <1>3, <1>6, <1>8, ReleasedIs
  <2> QED BY <1>2, <1>4, <2>1, StutterStep
<1> QED BY <1>7, <1>8

LEMMA NextRefines ==
  ASSUME Undisturbed, Steady, Steady', [Next]_vars
  PROVE  Promise!Next \/ UNCHANGED Promise!vars
<1>1. CASE Post
  <2>1. CASE AbortOther
    <3>1. /\ UNCHANGED <<count, partial, queues>> /\ phase = "post" /\ phase' = "top"
          /\ "suspend" \notin pending
      BY <2>1 DEF AbortOther, Leave
    <3>2. \A s \in Semaphores : ~ Stops(s) /\ ~ Stops(s)'
      BY <3>1 DEF Stops
    <3> QED BY <3>1, <3>2, NothingSeen DEF queues, Suspended
  <2>2. ~ AbortException
    BY DEF AbortException, Steady, SleepOK
  <2> QED BY <1>1, <2>1, <2>2, SuspendRefines, FinishRefines, StepRefines DEF Post
<1>2. CASE Loop
  <2>1. ~ WalkSignal /\ \A t \in Threads : ~ Expire(t)
    BY DEF Steady, SleepOK, WalkSignal, BlockOK, Expire
  <2>2. UNCHANGED <<count, partial, queues>> /\ phase # "post" /\ phase' # "post"
    BY <1>2, <2>1 DEF Loop, Dispatch, Return, TakeSignals, CheckInterrupt, WalkNext,
                      CheckTimer, Expired, thvars
  <2>3. \A s \in Semaphores : ~ Stops(s) /\ ~ Stops(s)'
    BY <2>2 DEF Stops
  <2> QED BY <2>2, <2>3, NothingSeen DEF queues, Suspended
<1>3. ~ Interrupt /\ ~ Alarm
  <2>1. \A t \in Threads : ~ (timers[t] > 0)
    BY DEF Steady, BlockOK
  <2> QED BY <2>1 DEF Interrupt, Alarm, Undisturbed, LeftAlone
<1>4. CASE UNCHANGED vars
  <2>1. Released' = Released /\ SameWaiters /\ UNCHANGED count
    BY <1>4 DEF vars, queues, thvars, flags, slice, cursor, Released, SameWaiters,
                Waiters, Sleepers, Suspended, WaitQueue
  <2> QED BY <2>1, StutterStep
<1> QED BY <1>1, <1>2, <1>3, <1>4, ExecuteRefines DEF Next, Internals

\* The scheduler keeps the promise of the semaphores, as long as blocked threads
\* are left alone: whatever it does, a permit is taken or a thread joins the end
\* of the queue, a signal lets the first of the queue go or leaves a permit, and a
\* thread that was let go goes on once; between those steps it changes nothing.
THEOREM Implements ==
  ASSUME Undisturbed
  PROVE  Spec => ImplementsSemaphore
<1>1. Init => Steady
  <2> SUFFICES ASSUME Init PROVE Steady
    OBVIOUS
  <2>1. Base /\ SleepOK /\ BlockOK
    BY InitBase, SchedConstants DEF Init, SleepOK, BlockOK
  <2>2. CountOK
    <3>1. \A s \in Semaphores : SleepersOn(s) = {}
      BY SchedConstants DEF Init, SleepersOn
    <3>2. \A s \in Semaphores : count[s] \in Int /\ count[s] >= 0
      BY SchedConstants DEF Init, Undisturbed, LeftAlone
    <3> QED BY <3>1, <3>2, FS_EmptySet DEF CountOK
  <2> QED BY <2>1, <2>2 DEF Steady
<1>2. Undisturbed /\ Steady /\ [Next]_vars => Steady'
  BY SteadyNext
<1>3. Init => Promise!Init
  <2> SUFFICES ASSUME Init PROVE Promise!Init
    OBVIOUS
  <2>1. Steady
    BY <1>1
  <2>2. \A s \in Semaphores : WaitQueue(s) = <<>>
    <3> SUFFICES ASSUME NEW s \in Semaphores PROVE WaitQueue(s) = <<>>
      OBVIOUS
    <3>1. QueuesOK /\ ~ Stops(s) /\ Sleepers(s) = {}
      BY <2>1, SchedConstants DEF Steady, Base, IInv, Init, Stops, Sleepers
    <3>2. Lists(<<>>, Sleepers(s), stopped)
      BY <3>1, ListsEmpty
    <3> QED BY <3>1, <3>2, WaitQueueListed, SleepersListed, InOrderIs
  <2>3. [s \in Semaphores |-> IF count[s] > 0 THEN count[s] ELSE 0] = InitCount
    <3>1. \A s \in Semaphores : count[s] \in Int /\ count[s] >= 0
      BY SchedConstants DEF Init, Undisturbed, LeftAlone
    <3>2. \A s \in Semaphores : (IF count[s] > 0 THEN count[s] ELSE 0) = count[s]
      BY <3>1
    <3> QED BY <3>2, SchedConstants DEF Init
  <2>4. Released = {}
    BY <2>1, ReleasedIs DEF Steady, Init
  <2> QED BY <2>2, <2>3, <2>4 DEF Promise!Init
<1>4. Undisturbed /\ Steady /\ Steady' /\ [Next]_vars => [Promise!Next]_(Promise!vars)
  BY NextRefines
<1> QED BY <1>1, <1>2, <1>3, <1>4, PTL DEF Spec, ImplementsSemaphore, Promise!Spec

-----------------------------------------------------------------------------
(* The steps of a program that uses a mutex *)

LEMMA MutexSteps == [MutexNext]_mvars => [Next]_vars
<1>1. MutexNext => Next
  BY DEF MutexNext, Complete, Next, Internals, Post
<1> QED BY <1>1 DEF mvars

MutexTypeOK ==
  /\ at \in [Threads -> Locations]
  /\ owner \in Threads \cup {None}
  /\ holders \subseteq Threads

LEMMA MutexTypeNext == Base /\ MutexTypeOK /\ [MutexNext]_mvars => MutexTypeOK'
<1> SUFFICES ASSUME Base, MutexTypeOK, [MutexNext]_mvars  PROVE MutexTypeOK'
  OBVIOUS
<1>1. CASE Unwind
  BY <1>1 DEF Unwind, MutexTypeOK, Locations
<1>2. CASE Complete
  <2>1. thread \in Threads
    BY <1>2 DEF Complete, StepDone, Base, IInv, SliceOK
  <2>2. CASE Acquire(thread)
    BY <2>1, <2>2 DEF Acquire, MutexTypeOK, Locations
  <2>3. CASE TryAcquire(thread)
    BY <2>1, <2>3 DEF TryAcquire, MutexTypeOK, Locations
  <2>4. CASE Release(thread)
    BY <2>1, <2>4 DEF Release, MutexTypeOK, Locations
  <2>5. CASE Call(thread)
    BY <2>1, <2>5, MutexConstants DEF Call, MutexTypeOK, Locations
  <2> QED BY <1>2, <2>2, <2>3, <2>4, <2>5 DEF Complete
<1>3. CASE UNCHANGED mvars
  BY <1>3 DEF mvars, MutexTypeOK
<1> QED BY <1>1, <1>2, <1>3 DEF MutexNext

\* What a thread does where it is in the functions of the mutex.
LEMMA ProgramOp ==
  ASSUME MutexTypeOK, thread \in Threads, NEW op, NEW on, NEW to,
         Instruction(op, on, to) \in Program(thread)
  PROVE  /\ at[thread] = "acq_wait" => op = "wait" /\ on = sem
         /\ at[thread] = "try_test" => op = "test" /\ on = sem
         /\ at[thread] = "rel_signal" => op = "signal" /\ on = sem
         /\ at[thread] = "outside" => on # sem
         /\ at[thread] \notin {"acq_wait", "try_test", "rel_signal", "outside"} => op = "noop"
<1> DEFINE i == Instruction(op, on, to)
<1>1. i.op = op /\ i.on = on
  BY DEF Instruction
<1>2. /\ \A p, o : Instruction(p, o, 0).op = p /\ Instruction(p, o, 0).on = o
      /\ Noop.op = "noop" /\ Noop.on = None /\ sem # None
  BY MutexConstants, SchedConstants DEF Instruction, Noop
<1> HIDE DEF i
<1>3. i \in Program(thread)
  BY DEF i
<1>4. at[thread] = "acq_wait" => i = Instruction("wait", sem, 0)
  BY <1>3 DEF Program
<1>5. at[thread] = "try_test" => i = Instruction("test", sem, 0)
  BY <1>3 DEF Program
<1>6. at[thread] = "rel_signal" => i = Instruction("signal", sem, 0)
  BY <1>3 DEF Program
<1>7. at[thread] = "outside" => i.on # sem \/ i = Noop
  BY <1>3 DEF Program
<1>8. at[thread] \notin {"acq_wait", "try_test", "rel_signal", "outside"} => i = Noop
  BY <1>3 DEF Program
<1> QED BY <1>1, <1>2, <1>4, <1>5, <1>6, <1>7, <1>8

LEMMA FetchedIs ==
  ASSUME IInv, NEW i, Fetch(i)
  PROVE  Fetched(i)[thread] = i
BY DEF Fetched, Fetch, IInv, FieldsOK, SliceOK

\* A program without sleep never does.
LEMMA NoSleep ==
  ASSUME IInv, "sleep" \notin Ops
  PROVE  ~ ThreadDoSleep
<1> DEFINE i == Instruction("sleep", None, 0)
<1> SUFFICES ASSUME Fetch(i) PROVE FALSE
  BY DEF ThreadDoSleep, Takes
<1>1. i \in [op : Operations, on : Threads \cup Semaphores \cup {None}, to : Int]
  <2>1. "sleep" \in Operations /\ None \in Threads \cup Semaphores \cup {None} /\ 0 \in Int
    BY DEF Operations
  <2>2. i = [op |-> "sleep", on |-> None, to |-> 0]
    BY DEF Instruction
  <2> HIDE DEF i
  <2> QED BY <2>1, <2>2
<1>2. i.op = "sleep"
  BY DEF Instruction
<1> HIDE DEF i
<1>3. "sleep" \in Ops \cup {"noop"}
  BY <1>1, <1>2, InstructionOp
<1> QED BY <1>3

-----------------------------------------------------------------------------
(* When sleeping threads are woken *)

\* No thread is thrown out of what it does by the exception `signal`.
NoSignals == "send_signal" \notin Ops /\ ~ Interrupts

\* A thread that sleeps is not thrown out of its sleep.
NoEarly == "sleep" \notin Ops \/ NoSignals

\* Without ^C, an abort is taken before the next instruction, so that none is
\* aborted when it starts.
AbortOK ==
  ~ Interrupts =>
    /\ aborting => signaling /\ phase \in {"post", "top"}
    /\ phase = "post" /\ aborting => ~ complete
    /\ phase \notin {"walk", "exited"} /\ "interrupt" \notin pending

\* The entry of a thread in the list of timers is the one of the sleep that the
\* thread is in, so that it wakes the thread from nothing else.
Due(t) ==
  \/ state[t] = "finished"
  \/ /\ sleep[t] # None => Blocked(t)
     /\ timers[t] > 0 => timers[t] = 1 /\ sleep[t] = None /\ Blocked(t)

EntryOK ==
  /\ "sleep" \notin Ops => \A t \in Threads : timers[t] = 0
  /\ NoSignals => \A t \in Threads : Due(t)

\* What leaves the entry of a thread due: it ends, or nothing changes for it, or
\* it is woken from something that it sleeps on.
LEMMA DueKept ==
  ASSUME NEW t \in Threads, Due(t), timers[t] \in Nat, timers'[t] = timers[t],
         state[t] = "finished" => state'[t] = "finished",
         \/ state'[t] = "finished"
         \/ sleep'[t] = sleep[t] /\ (Blocked(t) => Blocked(t)')
         \/ sleep[t] # None /\ sleep'[t] = None
  PROVE  Due(t)'
<1>1. CASE state[t] = "finished" \/ state'[t] = "finished"
  BY <1>1 DEF Due
<1>2. CASE state[t] # "finished" /\ sleep'[t] = sleep[t] /\ (Blocked(t) => Blocked(t)')
  BY <1>2 DEF Due
<1>3. CASE state[t] # "finished" /\ sleep[t] # None /\ sleep'[t] = None
  <2>1. ~ (timers'[t] > 0)
    BY <1>3 DEF Due
  <2> QED BY <1>3, <2>1 DEF Due
<1> QED BY <1>1, <1>2, <1>3

LEMMA NobodySignals ==
  ASSUME NoSignals, IInv, NEW t \in Threads
  PROVE  ~ ThreadSendSignal(t)
<1> DEFINE i == Instruction("send_signal", t, 0)
<1> SUFFICES ASSUME Fetch(i) PROVE FALSE
  BY DEF ThreadSendSignal
<1>1. i \in [op : Operations, on : Threads \cup Semaphores \cup {None}, to : Int] /\ i.op = "send_signal"
  BY DEF Instruction, Operations
<1> HIDE DEF i
<1>2. "send_signal" \in Ops
  BY <1>1, InstructionOp
<1> QED BY <1>2 DEF NoSignals

\* An instruction that blocks its thread does so for one thing at a time.
LEMMA DueExecute ==
  ASSUME NoSignals, Base, \A t \in Threads : Due(t), Execute
  PROVE  \A t \in Threads : Due(t)'
<1>1. /\ phase = "exec" /\ phase' = "post" /\ thread' = thread
      /\ thread \in Threads /\ Running(thread)
  <2>1. phase = "exec" /\ phase' = "post" /\ thread' = thread
    BY DEF Execute, SemaphoreWait, SemaphoreTest, SemaphoreSignal, ThreadJoin, ThreadKill,
           ThreadSendSignal, ThreadSetPriority, ThreadDoSleep, ThreadFork, ThreadTry,
           ThreadEndTry, ThreadEnd, ThreadNoop, Takes, Fetch
  <2> QED BY <2>1 DEF Base, ThreadOK, IInv, SliceOK
<1>2. /\ state \in [Threads -> States] /\ timers \in [Threads -> 0..TimerBound]
      /\ sleep \in [Threads -> Threads \cup Semaphores \cup {None}]
      /\ TimerBound \in Nat /\ QueuesOK /\ \A t \in Threads : timers[t] \in Nat
  BY Numbers DEF Base, IInv, QueuesOK, FieldsOK
<1>3. \A t \in Threads : Blocked(t) <=> Suspended(t)
  BY <1>1 DEF Blocked, Stopping
<1>4. sleep[thread] = None /\ timers[thread] = 0
  <2>1. Due(thread) /\ ~ Blocked(thread) /\ state[thread] # "finished" /\ timers[thread] \in Nat
    BY <1>1, <1>2, <1>3 DEF Running, Suspended
  <2> QED BY <2>1 DEF Due
<1>5. ASSUME NEW t \in Threads, sleep'[t] = sleep[t], timers'[t] = timers[t],
             state'[t] = state[t] \/ state'[t] = "finished" \/ state[t] = "unborn"
      PROVE  Due(t)'
  <2>1. Blocked(t) => Blocked(t)' \/ state'[t] = "finished"
    BY <1>3, <1>5 DEF Blocked, Suspended
  <2>2. state[t] = "finished" => state'[t] = "finished"
    BY <1>5
  <2> QED BY <1>2, <1>5, <2>1, <2>2, DueKept
<1>6. ASSUME NEW t \in Threads, Suspended(t), sleep[t] # None, sleep'[t] = None,
             timers'[t] = timers[t]
      PROVE  Due(t)'
  BY <1>2, <1>6, DueKept DEF Suspended
<1>7. ASSUME NEW x, ThreadSleep(x), UNCHANGED timers, NEW t \in Threads  PROVE Due(t)'
  <2>1. UNCHANGED state /\ sleep' = [sleep EXCEPT ![thread] = x]
        /\ pending' = pending \cup {"suspend"}
    BY <1>7 DEF ThreadSleep, SetSignal
  <2>2. CASE t = thread
    <3>1. Blocked(t)' /\ ~ (timers'[t] > 0)
      BY <1>1, <1>4, <1>7, <2>1, <2>2 DEF Blocked, Stopping
    <3> QED BY <3>1 DEF Due
  <2>3. CASE t # thread
    BY <1>2, <1>5, <1>7, <2>1, <2>3
  <2> QED BY <2>2, <2>3
<1>8. ASSUME UNCHANGED <<state, sleep, timers>>  PROVE \A t \in Threads : Due(t)'
  BY <1>5, <1>8
<1>9. ASSUME NEW s \in Semaphores,
             SemaphoreWait(s) \/ SemaphoreTest(s) \/ SemaphoreSignal(s), NEW t \in Threads
      PROVE  Due(t)'
  <2>1. UNCHANGED timers /\ (ThreadSleep(s) \/ UNCHANGED queues \/ WakeOne(s))
    BY <1>9 DEF SemaphoreWait, SemaphoreTest, SemaphoreSignal, Wait
  <2>2. CASE ThreadSleep(s)
    BY <1>7, <2>1, <2>2
  <2>3. CASE UNCHANGED queues
    BY <1>8, <2>1, <2>3 DEF queues
  <2>4. CASE ~ UNCHANGED queues /\ WakeOne(s)
    <3>1. PICK w \in Sleepers(s) : Resume(w) /\ sleep' = [sleep EXCEPT ![w] = None]
      BY <2>4 DEF WakeOne
    <3>2. w \in Threads /\ Suspended(w) /\ sleep[w] = s /\ s # None
      BY SchedConstants DEF Sleepers
    <3>3. state' = [state EXCEPT ![w] = "running"]
      BY <3>1 DEF Resume
    <3>4. CASE t = w
      BY <1>2, <1>6, <2>1, <3>1, <3>2, <3>4
    <3>5. CASE t # w
      <4>1. state'[t] = state[t] /\ sleep'[t] = sleep[t]
        BY <1>2, <3>1, <3>2, <3>3, <3>5
      <4> QED BY <1>5, <2>1, <4>1
    <3> QED BY <3>4, <3>5
  <2> QED BY <2>1, <2>2, <2>3, <2>4
<1>10. ASSUME NEW u \in Threads, ThreadJoin(u), NEW t \in Threads  PROVE Due(t)'
  <2>1. UNCHANGED timers /\ (UNCHANGED queues \/ ThreadSleep(u))
    BY <1>10 DEF ThreadJoin
  <2> QED BY <1>7, <1>8, <2>1 DEF queues
<1>11. ASSUME NEW u \in Threads, ThreadKill(u), NEW t \in Threads  PROVE Due(t)'
  <2>1. Finish(u) /\ UNCHANGED timers
    BY <1>11 DEF ThreadKill
  <2>2. \/ /\ state'[t] = state[t] \/ (t = u /\ state'[t] = "finished")
           /\ sleep'[t] = sleep[t]
        \/ Suspended(t) /\ sleep[t] = u /\ state'[t] = "running" /\ sleep'[t] = None
    BY <1>2, <2>1, FinishSleep
  <2>3. u # None
    BY SchedConstants
  <2> QED BY <1>5, <1>6, <2>1, <2>2, <2>3
<1>12. ASSUME NEW u \in Threads, ThreadFork(u), NEW t \in Threads  PROVE Due(t)'
  <2>1. state[u] = "unborn" /\ state' = [state EXCEPT ![u] = "running"] /\ UNCHANGED <<sleep, timers>>
    BY <1>12 DEF ThreadFork
  <2>2. state'[t] = state[t] \/ state[t] = "unborn"
    BY <1>2, <2>1
  <2> QED BY <1>5, <2>1, <2>2
<1>13. ASSUME NEW u \in Threads, NEW p \in Priorities, ThreadSetPriority(u, p), NEW t \in Threads
       PROVE  Due(t)'
  BY <1>8, <1>13 DEF ThreadSetPriority
<1>14. ASSUME ThreadDoSleep, NEW t \in Threads  PROVE Due(t)'
  <2>1. UNCHANGED <<state, sleep>>
    BY <1>14 DEF ThreadDoSleep, queues
  <2>2. CASE UNCHANGED timers
    BY <1>8, <2>1, <2>2
  <2>3. CASE ~ UNCHANGED timers
    <3>1. timers' = [timers EXCEPT ![thread] = @ + 1] /\ pending' = pending \cup {"suspend"}
      BY <1>14, <2>3 DEF ThreadDoSleep, SetSignal
    <3>2. CASE t = thread
      <4>1. timers'[t] = 1 /\ sleep'[t] = None /\ Blocked(t)'
        BY <1>1, <1>2, <1>4, <2>1, <3>1, <3>2 DEF Blocked, Stopping
      <4> QED BY <4>1 DEF Due
    <3>3. CASE t # thread
      BY <1>2, <1>5, <2>1, <3>1, <3>3
    <3> QED BY <3>2, <3>3
  <2> QED BY <2>2, <2>3
<1>15. CASE ThreadTry \/ ThreadEndTry \/ ThreadEnd \/ ThreadNoop
  BY <1>8, <1>15 DEF ThreadTry, ThreadEndTry, ThreadEnd, ThreadNoop, queues
<1>16. \A t \in Threads : ~ ThreadSendSignal(t)
  BY NobodySignals DEF Base
<1> QED BY <1>9, <1>10, <1>11, <1>12, <1>13, <1>14, <1>15, <1>16 DEF Execute

\* The entry that is due wakes its thread from its sleep, and is its only one.
LEMMA DueRest ==
  ASSUME NoSignals, Base, AbortOK, \A t \in Threads : Due(t), Post \/ Loop
  PROVE  \A t \in Threads : Due(t)'
<1>1. /\ state \in [Threads -> States] /\ timers \in [Threads -> 0..TimerBound]
      /\ sleep \in [Threads -> Threads \cup Semaphores \cup {None}]
      /\ TimerBound \in Nat /\ QueuesOK /\ \A t \in Threads : timers[t] \in Nat
  BY Numbers DEF Base, IInv, QueuesOK, FieldsOK
<1>2. CASE AbortSuspend
  <2>1. /\ thread \in Threads /\ UNCHANGED <<sleep, timers>>
        /\ Running(thread) /\ state' = [state EXCEPT ![thread] = "suspended"]
    BY <1>2 DEF AbortSuspend, Leave, Base, OrderOK, IInv, SliceOK
  <2>2. \A t \in Threads : /\ Blocked(t) => Blocked(t)'
                           /\ state[t] = "finished" => state'[t] = "finished"
    BY <1>1, <2>1 DEF Blocked, Stopping, Suspended, Running
  <2> QED BY <1>1, <2>1, <2>2, DueKept
<1>3. CASE Post /\ ~ AbortSuspend
  <2>1. "suspend" \notin pending
    BY <1>3, SuspendFirst DEF Base
  <2>2. \A t \in Threads : Blocked(t) <=> Suspended(t)
    BY <2>1 DEF Blocked, Stopping
  <2>3. UNCHANGED timers
    BY <1>3 DEF Post, AbortFinished, AbortException, AbortOther, StepDone, Leave
  <2>4. CASE UNCHANGED <<state, sleep>>
    <3>1. \A t \in Threads : Blocked(t) => Blocked(t)'
      BY <2>2, <2>4 DEF Blocked, Suspended
    <3> QED BY <1>1, <2>3, <2>4, <3>1, DueKept
  <2>5. CASE Finish(thread) /\ phase = "post"
    <3>1. thread \in Threads /\ thread # None
      BY <2>5, SchedConstants DEF Base, IInv, SliceOK
    <3>2. \A t \in Threads :
             \/ /\ state'[t] = state[t] \/ (t = thread /\ state'[t] = "finished")
                /\ sleep'[t] = sleep[t]
             \/ Suspended(t) /\ sleep[t] = thread /\ state'[t] = "running" /\ sleep'[t] = None
      BY <1>1, <2>5, <3>1, FinishSleep
    <3>3. ASSUME NEW t \in Threads  PROVE Due(t)'
      <4>1. state[t] = "finished" => state'[t] = "finished"
        BY <3>2 DEF Suspended
      <4>2. \/ state'[t] = "finished"
            \/ sleep'[t] = sleep[t] /\ (Blocked(t) => Blocked(t)')
            \/ sleep[t] # None /\ sleep'[t] = None
        BY <2>2, <3>1, <3>2 DEF Blocked, Suspended
      <4> QED BY <1>1, <2>3, <4>1, <4>2, DueKept
    <3> QED BY <3>3
  <2> QED BY <1>3, <2>4, <2>5 DEF Post, AbortFinished, AbortException, AbortOther, StepDone, Die, Leave, queues
<1>4. phase # "walk"
  BY DEF AbortOK, NoSignals
<1>5. CASE \/ Dispatch \/ Return \/ TakeSignals \/ CheckInterrupt \/ CheckTimer \/ Expired
  <2>1. UNCHANGED <<state, sleep, timers>> /\ phase # "post"
    BY <1>5 DEF Dispatch, Return, TakeSignals, CheckInterrupt, CheckTimer, Expired, queues
  <2>2. \A t \in Threads : Blocked(t) => Blocked(t)'
    BY <2>1 DEF Blocked, Stopping, Suspended
  <2> QED BY <1>1, <2>1, <2>2, DueKept
<1>6. ASSUME NEW u \in Threads, Expire(u), NEW t \in Threads  PROVE Due(t)'
  <2>1. /\ timers[u] > 0 /\ timers' = [timers EXCEPT ![u] = @ - 1] /\ phase # "post"
        /\ UNCHANGED sleep /\ state' = IF Suspended(u) THEN [state EXCEPT ![u] = "running"] ELSE state
    BY <1>6 DEF Expire, Resume
  <2>2. CASE t = u
    <3>1. CASE state[t] = "finished"
      BY <2>1, <2>2, <3>1 DEF Due, Suspended
    <3>2. CASE state[t] # "finished"
      <4>1. timers[t] = 1 /\ sleep[t] = None
        BY <2>1, <2>2, <3>2 DEF Due
      <4>2. timers'[t] = 0 /\ sleep'[t] = None
        BY <1>1, <2>1, <2>2, <4>1
      <4> QED BY <4>2 DEF Due
    <3> QED BY <3>1, <3>2
  <2>3. CASE t # u
    <3>1. timers'[t] = timers[t] /\ sleep'[t] = sleep[t] /\ state'[t] = state[t]
      BY <1>1, <2>1, <2>3
    <3>2. Blocked(t) => Blocked(t)'
      BY <2>1, <3>1 DEF Blocked, Stopping, Suspended
    <3> QED BY <1>1, <3>1, <3>2, DueKept
  <2> QED BY <2>2, <2>3
<1> QED BY <1>2, <1>3, <1>4, <1>5, <1>6 DEF Loop, WalkSignal, WalkNext

LEMMA EntryNext ==
  ASSUME Base, AbortOK, EntryOK, [Next]_vars
  PROVE  EntryOK'
<1>1. ASSUME "sleep" \notin Ops  PROVE \A t \in Threads : timers'[t] = 0
  <2>1. \A t \in Threads : timers[t] = 0
    BY <1>1 DEF EntryOK
  <2>2. ~ ThreadDoSleep
    BY <1>1, NoSleep DEF Base
  <2>3. \A t \in Threads : ~ Expire(t)
    BY <2>1 DEF Expire
  <2>4. Execute => UNCHANGED timers
    BY <2>2 DEF Execute, SemaphoreWait, SemaphoreTest, SemaphoreSignal, ThreadJoin, ThreadKill,
           ThreadSendSignal, ThreadSetPriority, ThreadFork, ThreadTry, ThreadEndTry, ThreadEnd,
           ThreadNoop
  <2>5. Post => UNCHANGED timers
    BY DEF Post, AbortSuspend, AbortFinished, AbortException, AbortOther, StepDone, Leave
  <2>6. Loop => UNCHANGED timers
    BY <2>3 DEF Loop, Dispatch, Return, TakeSignals, CheckInterrupt, WalkSignal, WalkNext,
           CheckTimer, Expired
  <2>7. UNCHANGED timers
    BY <2>4, <2>5, <2>6 DEF Next, Internals, Interrupt, Alarm, vars
  <2> QED BY <2>1, <2>7
<1>2. ASSUME NoSignals  PROVE \A t \in Threads : Due(t)'
  <2>1. \A t \in Threads : Due(t)
    BY <1>2 DEF EntryOK
  <2>2. CASE Alarm \/ UNCHANGED vars
    <3>1. /\ UNCHANGED <<state, sleep, timers, thread, phase>>
          /\ pending' \in {pending, pending \cup {"timer"}}
      BY <2>2 DEF Alarm, vars, queues, thvars, flags, slice, cursor
    <3>2. \A t \in Threads : Blocked(t) => Blocked(t)'
      BY <3>1 DEF Blocked, Stopping, Suspended
    <3> QED BY <2>1, <3>1, <3>2 DEF Due
  <2>3. ~ Interrupt
    BY <1>2 DEF NoSignals, Interrupt
  <2> QED BY <1>2, <2>1, <2>2, <2>3, DueExecute, DueRest DEF Next, Internals
<1> QED BY <1>1, <1>2 DEF EntryOK

\* So no entry wakes a thread that waits for the mutex.
LEMMA ExpireSafe ==
  ASSUME NoEarly, EntryOK, NEW t \in Threads, Expire(t), Suspended(t)
  PROVE  sleep[t] # sem
<1>1. timers[t] > 0 /\ state[t] # "finished" /\ sem # None
  BY MutexConstants, SchedConstants DEF Expire, Suspended
<1>2. "sleep" \in Ops
  BY <1>1 DEF EntryOK
<1>3. Due(t)
  BY <1>2 DEF NoEarly, EntryOK
<1> QED BY <1>1, <1>3 DEF Due

-----------------------------------------------------------------------------
(* What the instructions outside of the mutex leave alone *)

Caught(t) == catches'[t] < catches[t] /\ inst'[t] = Noop

\* A thread sleeps on until it is finished or catches an exception.
SleepersKept ==
  \A u \in Sleepers(sem) : u \in Sleepers(sem)' \/ state'[u] = "finished" \/ Caught(u)

FinishedStay == \A u \in Threads : state[u] = "finished" => state'[u] = "finished"

LEMMA KeptSame ==
  ASSUME UNCHANGED <<state, sleep>>
  PROVE  SleepersKept /\ FinishedStay
BY DEF SleepersKept, FinishedStay, Sleepers, Suspended

LEMMA KeptSleep ==
  ASSUME QueuesOK, Running(thread), NEW x, ThreadSleep(x)
  PROVE  SleepersKept /\ FinishedStay
<1>1. \A u \in Threads : state'[u] = state[u] /\ (u # thread => sleep'[u] = sleep[u])
  BY DEF ThreadSleep, QueuesOK
<1> QED BY <1>1 DEF SleepersKept, FinishedStay, Sleepers, Suspended, Running

LEMMA KeptResume ==
  ASSUME QueuesOK, NEW t \in Threads, Suspended(t), sleep[t] # sem \/ Caught(t), Resume(t),
         sleep' = [sleep EXCEPT ![t] = None] \/ UNCHANGED sleep
  PROVE  SleepersKept /\ FinishedStay
<1>1. \A u \in Threads : u # t => state'[u] = state[u] /\ sleep'[u] = sleep[u]
  BY DEF Resume, QueuesOK
<1> QED BY <1>1 DEF SleepersKept, FinishedStay, Sleepers, Suspended

LEMMA KeptWake ==
  ASSUME QueuesOK, NEW s \in Semaphores, s # sem, WakeOne(s)
  PROVE  SleepersKept /\ FinishedStay
<1>1. CASE UNCHANGED queues
  BY <1>1, KeptSame DEF queues
<1>2. CASE ~ UNCHANGED queues
  <2>1. PICK t \in Sleepers(s) : Resume(t) /\ sleep' = [sleep EXCEPT ![t] = None]
    BY <1>2 DEF WakeOne
  <2>2. t \in Threads /\ Suspended(t) /\ sleep[t] # sem
    BY <2>1 DEF Sleepers
  <2> QED BY <2>1, <2>2, KeptResume
<1> QED BY <1>1, <1>2

LEMMA KeptFinish ==
  ASSUME QueuesOK, NEW t \in Threads, Finish(t)
  PROVE  SleepersKept /\ FinishedStay
<1>1. \A u \in Threads :
        \/ /\ state'[u] = state[u] \/ (u = t /\ state'[u] = "finished")
           /\ sleep'[u] = sleep[u]
        \/ Suspended(u) /\ sleep[u] = t /\ state'[u] = "running" /\ sleep'[u] = None
  BY FinishSleep
<1>2. t # sem
  BY SchedConstants, MutexConstants
<1> QED BY <1>1, <1>2 DEF SleepersKept, FinishedStay, Sleepers, Suspended

LEMMA KeptSignal ==
  ASSUME QueuesOK, FieldsOK, NEW t \in Threads, NEW code \in [Threads -> Instructions \cup {Noop, None}],
         SignalThread(t, code)
  PROVE  /\ SleepersKept /\ FinishedStay
         /\ \A u \in Threads : u # t => catches'[u] = catches[u] /\ inst'[u] = code[u]
<1>1. catches \in [Threads -> 0..CatchBound] /\ CatchBound \in Nat
  BY Numbers DEF FieldsOK
<1>2. \A u \in Threads : u # t => catches'[u] = catches[u] /\ inst'[u] = code[u]
  BY <1>1 DEF SignalThread, Catch, Die
<1>3. CASE Catch(t, code) /\ Suspended(t) /\ Resume(t) /\ sleep' = [sleep EXCEPT ![t] = None]
  <2>1. Caught(t)
    BY <1>1, <1>3 DEF Catch, Caught
  <2> QED BY <1>2, <1>3, <2>1, KeptResume
<1>4. CASE UNCHANGED queues
  BY <1>2, <1>4, KeptSame DEF queues
<1>5. CASE Finish(t)
  BY <1>2, <1>5, KeptFinish
<1> QED BY <1>3, <1>4, <1>5 DEF SignalThread, Die

\* What an instruction does that is not one of the mutex, or does nothing.
Away ==
  /\ count'[sem] = count[sem] /\ SleepersKept /\ FinishedStay
  /\ \A u \in Threads :
       /\ partial'[u] => partial[u] \/ (u = thread /\ at[thread] = "outside")
       /\ partial[u] => partial'[u]
       /\ sleep'[u] = sem => sleep[u] = sem
       /\ LeftAlone /\ state'[u] = "finished" => state[u] = "finished"
       /\ NoSignals => ~ Caught(u)
  /\ ~ Caught(thread)
  /\ \/ UNCHANGED flags
     \/ aborting' /\ signaling' /\ ~ complete' /\ ("interrupt" \in pending' => "interrupt" \in pending)
  /\ at[thread] # "outside" => UNCHANGED <<state, flags>>

\* How the thread that runs is found.
Enter ==
  /\ phase = "exec" /\ phase' = "post" /\ thread' = thread
  /\ thread \in Threads /\ Running(thread) /\ HeadOf(running) = thread
  /\ ~ Interrupts => ~ aborting

\* The instructions of the mutex are on its semaphore and all others leave that
\* semaphore alone.
LEMMA MutexExecute ==
  ASSUME Base, MutexTypeOK, AbortOK, Execute, inst'[thread] \in Program(thread)
  PROVE  /\ Enter
         /\ \/ at[thread] = "acq_wait" /\ SemaphoreWait(sem)
            \/ at[thread] = "try_test" /\ SemaphoreTest(sem)
            \/ at[thread] = "rel_signal" /\ SemaphoreSignal(sem)
            \/ at[thread] \notin {"acq_wait", "try_test", "rel_signal"} /\ Away
<1>1. Enter
  <2>1. phase = "exec" /\ phase' = "post" /\ thread' = thread
    BY DEF Execute, SemaphoreWait, SemaphoreTest, SemaphoreSignal, ThreadJoin, ThreadKill,
           ThreadSendSignal, ThreadSetPriority, ThreadDoSleep, ThreadFork, ThreadTry,
           ThreadEndTry, ThreadEnd, ThreadNoop, Takes, Fetch
  <2> QED BY <2>1 DEF Enter, AbortOK, Base, ThreadOK, OrderOK, IInv, SliceOK
<1>2. /\ state \in [Threads -> States] /\ partial \in [Threads -> BOOLEAN]
      /\ sleep \in [Threads -> Threads \cup Semaphores \cup {None}]
      /\ count \in [Semaphores -> Int] /\ sem \in Semaphores /\ sem \notin Threads
      /\ catches \in [Threads -> 0..CatchBound] /\ CatchBound \in Nat
      /\ None # sem
  BY MutexConstants, SchedConstants DEF Base, IInv, QueuesOK, FieldsOK
<1>3. \A op, on, to : Takes(Instruction(op, on, to)) =>
        /\ Instruction(op, on, to) \in Program(thread)
        /\ inst'[thread] = Instruction(op, on, to)
        /\ at[thread] = "acq_wait" => op = "wait" /\ on = sem
        /\ at[thread] = "try_test" => op = "test" /\ on = sem
        /\ at[thread] = "rel_signal" => op = "signal" /\ on = sem
        /\ at[thread] = "outside" => on # sem
        /\ at[thread] \notin {"acq_wait", "try_test", "rel_signal", "outside"} => op = "noop"
  <2> TAKE op, on, to
  <2> SUFFICES ASSUME Takes(Instruction(op, on, to))
      PROVE  /\ Instruction(op, on, to) \in Program(thread)
             /\ inst'[thread] = Instruction(op, on, to)
    BY <1>1, ProgramOp DEF Enter
  <2> DEFINE i == Instruction(op, on, to)
  <2> HIDE DEF i
  <2>1. inst'[thread] = i
    BY FetchedIs DEF Takes, Base, i
  <2> QED BY <2>1 DEF i
<1>4. ASSUME SleepersKept, FinishedStay, count'[sem] = count[sem], UNCHANGED partial,
             \A u \in Threads : sleep'[u] = sem => sleep[u] = sem,
             LeftAlone => \A u \in Threads : state'[u] = "finished" => state[u] = "finished",
             NoSignals => \A u \in Threads : ~ Caught(u),
             ~ Caught(thread), UNCHANGED flags \/ at[thread] = "outside",
             UNCHANGED flags \/ (aborting' /\ signaling' /\ ~ complete' /\ ("interrupt" \in pending' => "interrupt" \in pending)),
             UNCHANGED state \/ at[thread] = "outside",
             at[thread] \notin {"acq_wait", "try_test", "rel_signal"}
      PROVE  Away
  BY <1>4 DEF Away
<1>5. ASSUME NEW op, NEW on, NEW to, Takes(Instruction(op, on, to)),
             op \notin {"wait", "test", "signal"}
      PROVE  /\ at[thread] \notin {"acq_wait", "try_test", "rel_signal"}
             /\ op # "noop" => at[thread] = "outside" /\ inst'[thread] # Noop
  <2>1. \A p, o, q : Instruction(p, o, q).op = p /\ Noop.op = "noop"
    BY DEF Instruction, Noop
  <2>2. op # "noop" => Instruction(op, on, to) # Noop
    BY <2>1
  <2> QED BY <1>3, <1>5, <2>2
<1>6. ASSUME UNCHANGED catches \/ inst'[thread] # Noop
      PROVE  ~ Caught(thread)
  BY <1>1, <1>2, <1>6 DEF Caught, Enter
<1>7. ASSUME UNCHANGED catches
      PROVE  \A u \in Threads : ~ Caught(u)
  BY <1>2, <1>7 DEF Caught
<1>8. ASSUME NEW s \in Semaphores, s # sem, Wait(s), UNCHANGED <<catches, timers>>, at[thread] = "outside"
      PROVE  Away
  <2>1. \A u \in Threads : /\ sleep'[u] = sem => sleep[u] = sem
                           /\ partial'[u] => partial[u] \/ u = thread
                           /\ partial[u] => partial'[u]
    BY <1>2, <1>8 DEF Wait, ThreadSleep, queues
  <2>2. UNCHANGED state /\ count'[sem] = count[sem]
    BY <1>2, <1>8 DEF Wait, ThreadSleep, queues
  <2>3. SleepersKept /\ FinishedStay
    BY <1>1, <1>8, KeptSame, KeptSleep DEF Wait, queues, Base, IInv, Enter
  <2>4. UNCHANGED flags \/ (aborting' /\ signaling' /\ ~ complete' /\ ("interrupt" \in pending' => "interrupt" \in pending))
    BY <1>8 DEF Wait, ThreadSleep, SetSignal, AbortOK
  <2> QED BY <1>7, <1>8, <1>1, <2>1, <2>2, <2>3, <2>4 DEF Away, Enter
<1>11. ASSUME NEW s \in Semaphores, SemaphoreWait(s)
       PROVE  (at[thread] = "acq_wait" /\ s = sem) \/ (at[thread] = "outside" /\ Away)
  <2>1. Takes(Instruction("wait", s, 0)) /\ Wait(s) /\ UNCHANGED <<catches, timers>>
    BY <1>11 DEF SemaphoreWait
  <2> QED BY <1>3, <1>8, <2>1
<1>12. ASSUME NEW s \in Semaphores, SemaphoreTest(s)
       PROVE  (at[thread] = "try_test" /\ s = sem) \/ (at[thread] = "outside" /\ Away)
  <2>1. Takes(Instruction("test", s, 0)) /\ UNCHANGED <<catches, timers>>
    BY <1>12 DEF SemaphoreTest
  <2>2. Wait(s) \/ UNCHANGED <<count, partial, queues, flags>>
    BY <1>12 DEF SemaphoreTest
  <2>3. CASE UNCHANGED <<count, partial, queues, flags>>
    BY <1>3, <1>4, <1>7, <1>1, <2>1, <2>3, KeptSame DEF queues, Enter
  <2> QED BY <1>3, <1>8, <2>1, <2>2, <2>3
<1>13. ASSUME NEW s \in Semaphores, SemaphoreSignal(s)
       PROVE  (at[thread] = "rel_signal" /\ s = sem) \/ (at[thread] = "outside" /\ Away)
  <2>1. Takes(Instruction("signal", s, 0)) /\ UNCHANGED <<partial, catches, timers, flags>>
    BY <1>13 DEF SemaphoreSignal
  <2>2. SUFFICES ASSUME at[thread] = "outside", s # sem PROVE Away
    BY <1>3, <2>1
  <2>3. WakeOne(s) \/ UNCHANGED queues
    BY <1>13 DEF SemaphoreSignal
  <2>4. count'[sem] = count[sem]
    BY <1>2, <1>13, <2>2 DEF SemaphoreSignal
  <2>5. SleepersKept /\ FinishedStay
    BY <2>2, <2>3, KeptWake, KeptSame DEF queues, Base, IInv
  <2>6. \A u \in Threads : /\ sleep'[u] = sem => sleep[u] = sem
                           /\ state'[u] = "finished" => state[u] = "finished"
    BY <1>2, <2>3 DEF WakeOne, Resume, queues
  <2> QED BY <1>1, <1>4, <1>7, <2>1, <2>2, <2>4, <2>5, <2>6 DEF Enter
<1>14. ASSUME NEW t \in Threads, ThreadJoin(t)
       PROVE  at[thread] = "outside" /\ Away
  <2>1. Takes(Instruction("join", t, 0)) /\ UNCHANGED <<partial, catches, count, timers>>
    BY <1>14 DEF ThreadJoin
  <2>2. UNCHANGED <<queues, flags>> \/ ThreadSleep(t)
    BY <1>14 DEF ThreadJoin
  <2>3. /\ UNCHANGED state /\ \A u \in Threads : sleep'[u] = sem => sleep[u] = sem
        /\ UNCHANGED flags \/ (aborting' /\ signaling' /\ ~ complete' /\ ("interrupt" \in pending' => "interrupt" \in pending))
    BY <1>2, <1>14, <2>2 DEF ThreadSleep, queues, SetSignal, Completes, AbortOK, ThreadJoin
  <2>4. SleepersKept /\ FinishedStay
    BY <1>1, <2>2, KeptSame, KeptSleep DEF queues, Base, IInv, Enter
  <2> QED BY <1>1, <1>4, <1>5, <1>7, <2>1, <2>3, <2>4 DEF Enter
<1>15. ASSUME NEW t \in Threads, ThreadKill(t)
       PROVE  at[thread] = "outside" /\ Away
  <2>1. /\ Takes(Instruction("kill", t, 0)) /\ UNCHANGED <<partial, catches, count, timers, flags>>
        /\ Finish(t)
    BY <1>15 DEF ThreadKill
  <2>2. SleepersKept /\ FinishedStay
    BY <2>1, KeptFinish DEF Base, IInv
  <2>3. \A u \in Threads : sleep'[u] = sem => sleep[u] = sem
    BY <2>1, <1>2, FinishSleep DEF Base, IInv
  <2>4. ~ LeftAlone
    BY <1>15, NobodyKilled DEF Base
  <2> QED BY <1>1, <1>4, <1>5, <1>7, <2>1, <2>2, <2>3, <2>4 DEF Enter
<1>16. ASSUME NEW t \in Threads, ThreadSendSignal(t)
       PROVE  at[thread] = "outside" /\ Away
  <2> DEFINE i == Instruction("send_signal", t, 0)
  <2>1. /\ Fetch(i) /\ UNCHANGED <<partial, count, timers>> /\ ~ complete'
        /\ IF t = thread THEN SetSignal("exception") /\ inst' = Fetched(i) /\ UNCHANGED <<catches, queues>>
                         ELSE SignalThread(t, Fetched(i))
    BY <1>1, <1>16 DEF ThreadSendSignal, Completes, Enter
  <2>2. Fetched(i)[thread] = i /\ i # Noop
    <3>1. i.op = "send_signal" /\ Noop.op = "noop"
      BY DEF Instruction, Noop
    <3> HIDE DEF i
    <3> QED BY <2>1, <3>1, FetchedIs DEF Base
  <2>3. Fetched(i) \in [Threads -> Instructions \cup {Noop, None}]
    BY <2>1, FetchOK DEF Base
  <2> HIDE DEF i
  <2>4. /\ SleepersKept /\ FinishedStay /\ inst'[thread] = i
        /\ UNCHANGED catches \/ catches'[thread] = catches[thread]
    <3>1. CASE t = thread
      BY <2>1, <2>2, <3>1, KeptSame DEF queues
    <3>2. CASE t # thread
      <4>1. SignalThread(t, Fetched(i)) /\ thread \in Threads
        BY <1>1, <2>1, <3>2 DEF Enter
      <4> QED BY <2>2, <2>3, <3>2, <4>1, KeptSignal DEF Base, IInv
    <3> QED BY <3>1, <3>2
  <2>5. at[thread] = "outside"
    <3>1. Instruction("send_signal", t, 0) \in Program(thread)
      BY <2>4 DEF i
    <3> QED BY <1>1, <3>1, ProgramOp DEF Enter
  <2>6. UNCHANGED flags \/ (aborting' /\ signaling' /\ ~ complete' /\ ("interrupt" \in pending' => "interrupt" \in pending))
    <3>1. UNCHANGED flags \/ SetSignal("error") \/ SetSignal("exception")
      BY <2>1, SignalThreadFlags
    <3>2. ASSUME NEW f, f # "interrupt", SetSignal(f)
          PROVE  aborting' /\ signaling' /\ ~ complete' /\ ("interrupt" \in pending' => "interrupt" \in pending)
      BY <2>1, <3>2 DEF SetSignal, AbortOK
    <3> QED BY <3>1, <3>2
  <2>7. \A u \in Threads : sleep'[u] = sem => sleep[u] = sem
    <3>1. Finish(t) => \A u \in Threads : sleep'[u] = sem => sleep[u] = sem
      BY <1>2, FinishSleep DEF Base, IInv
    <3> QED BY <1>2, <2>1, <3>1 DEF SignalThread, Die, Resume, queues
  <2>8. ~ LeftAlone /\ ~ NoSignals
    <3>1. i \in [op : Operations, on : Threads \cup Semaphores \cup {None}, to : Int] /\ i.op = "send_signal"
      BY DEF Instruction, Operations, i
    <3>2. "send_signal" \in Ops
      BY <2>1, <3>1, InstructionOp DEF Base
    <3> QED BY <3>2 DEF LeftAlone, NoSignals
  <2> QED BY <1>1, <1>4, <1>6, <2>1, <2>2, <2>4, <2>5, <2>6, <2>7, <2>8 DEF Enter
<1>17. ASSUME NEW op, NEW to, NEW on, Takes(Instruction(op, on, to)), op \notin {"wait", "test", "signal"},
              UNCHANGED <<partial, count, timers, sleep>>,
              UNCHANGED catches \/ (op # "noop" /\ \A u \in Threads : u # thread => catches'[u] = catches[u]),
              \A u \in Threads : state'[u] = state[u] \/ (state[u] = "unborn" /\ state'[u] = "running"),
              UNCHANGED flags \/ (aborting' /\ signaling' /\ ~ complete' /\ ("interrupt" \in pending' => "interrupt" \in pending)),
              op # "noop" \/ UNCHANGED <<state, flags>>
       PROVE  at[thread] \notin {"acq_wait", "try_test", "rel_signal"} /\ Away
  <2>1. SleepersKept /\ FinishedStay
    BY <1>17 DEF SleepersKept, FinishedStay, Sleepers, Suspended
  <2>2. \A u \in Threads : ~ Caught(u)
    BY <1>2, <1>5, <1>17 DEF Caught
  <2> QED BY <1>1, <1>4, <1>5, <1>17, <2>1, <2>2 DEF Enter
<1>18. ASSUME NEW t \in Threads, NEW p \in Priorities, ThreadSetPriority(t, p)
       PROVE  at[thread] \notin {"acq_wait", "try_test", "rel_signal"} /\ Away
  BY <1>18, <1>17 DEF ThreadSetPriority
<1>19. ASSUME NEW t \in Threads, ThreadFork(t)
       PROVE  at[thread] \notin {"acq_wait", "try_test", "rel_signal"} /\ Away
  <2>1. \A u \in Threads : state'[u] = state[u] \/ (state[u] = "unborn" /\ state'[u] = "running")
    BY <1>2, <1>19 DEF ThreadFork
  <2> QED BY <1>19, <2>1, <1>17 DEF ThreadFork
<1>20. ASSUME ThreadTry \/ ThreadEndTry
       PROVE  at[thread] \notin {"acq_wait", "try_test", "rel_signal"} /\ Away
  <2>1. \A u \in Threads : u # thread => catches'[u] = catches[u]
    BY <1>2, <1>20 DEF ThreadTry, ThreadEndTry
  <2> QED BY <1>20, <2>1, <1>17 DEF ThreadTry, ThreadEndTry, queues
<1>21. ASSUME ThreadEnd
       PROVE  at[thread] \notin {"acq_wait", "try_test", "rel_signal"} /\ Away
  BY <1>21, <1>17 DEF ThreadEnd, queues, SetSignal, Completes, AbortOK
<1>22. ASSUME ThreadNoop
       PROVE  at[thread] \notin {"acq_wait", "try_test", "rel_signal"} /\ Away
  BY <1>22, <1>17 DEF ThreadNoop, queues, Noop
<1>23. ASSUME ThreadDoSleep
       PROVE  at[thread] = "outside" /\ Away
  <2>1. /\ Takes(Instruction("sleep", None, 0)) /\ UNCHANGED <<state, sleep, catches, count>>
        /\ partial' = partial \/ partial' = [partial EXCEPT ![thread] = TRUE]
        /\ UNCHANGED flags \/ (aborting' /\ signaling' /\ ~ complete' /\ ("interrupt" \in pending' => "interrupt" \in pending))
    BY <1>23 DEF ThreadDoSleep, SetSignal, Completes, queues
  <2>2. at[thread] = "outside" /\ \A u \in Threads : ~ Caught(u)
    BY <1>3, <1>5, <1>7, <2>1
  <2>3. SleepersKept /\ FinishedStay
    BY <2>1, KeptSame
  <2>4. \A u \in Threads : /\ partial'[u] => partial[u] \/ u = thread
                           /\ partial[u] => partial'[u]
    BY <1>1, <1>2, <2>1 DEF Enter
  <2> QED BY <1>1, <2>1, <2>2, <2>3, <2>4 DEF Away, Enter
<1> QED BY <1>1, <1>11, <1>12, <1>13, <1>14, <1>15, <1>16, <1>18, <1>19, <1>20, <1>21, <1>22, <1>23
        DEF Execute

LEMMA AbortNext ==
  ASSUME Base, MutexTypeOK, AbortOK, [MutexNext]_mvars
  PROVE  AbortOK'
<1> SUFFICES ASSUME ~ Interrupts  PROVE AbortOK'
  BY DEF AbortOK
<1>1. CASE Execute /\ inst'[thread] \in Program(thread)
  <2>1. /\ phase' = "post" /\ ~ aborting
        /\ \/ SemaphoreWait(sem) \/ SemaphoreTest(sem) \/ SemaphoreSignal(sem)
           \/ Away
    BY <1>1, MutexExecute DEF Enter
  <2>2. ASSUME Wait(sem) \/ UNCHANGED flags  PROVE AbortOK'
    <3>1. UNCHANGED flags \/ (aborting' /\ signaling' /\ ~ complete' /\ ("interrupt" \in pending' => "interrupt" \in pending))
      BY <2>2 DEF Wait, ThreadSleep, SetSignal, AbortOK
    <3> QED BY <2>1, <2>2, <3>1 DEF AbortOK, flags
  <2>3. CASE Away
    BY <2>1, <2>3 DEF Away, AbortOK, flags
  <2> QED BY <2>1, <2>2, <2>3 DEF SemaphoreWait, SemaphoreTest, SemaphoreSignal
<1>2. CASE StepDone
  BY <1>2 DEF StepDone, AbortOK, Aborted, flags
<1>3. CASE AbortSuspend \/ AbortFinished \/ AbortException \/ AbortOther
  BY <1>3 DEF AbortSuspend, AbortFinished, AbortException, AbortOther, Leave, AbortOK,
              Aborted, flags
<1>4. CASE Loop
  BY <1>4 DEF Loop, Dispatch, Return, TakeSignals, CheckInterrupt, WalkSignal, WalkNext,
              CheckTimer, Expire, Expired, AbortOK, flags
<1>5. CASE UNCHANGED mvars
  BY <1>5 DEF mvars, vars, slice, flags, AbortOK
<1>6. CASE Interrupt \/ Alarm
  BY <1>6 DEF Interrupt, Alarm, slice, AbortOK
<1> QED BY <1>1, <1>2, <1>3, <1>4, <1>5, <1>6 DEF MutexNext, Complete

-----------------------------------------------------------------------------
(* The permit of the mutex *)

AtPost(t) == phase = "post" /\ thread = t

\* t has the permit of the semaphore: it holds the mutex, or it is about to, or
\* it has still to give the permit back.
Token(t) ==
  \/ t \in holders
  \/ /\ state[t] # "finished"
     /\ \/ at[t] = "rel_signal" /\ ~ (AtPost(t) /\ complete)
        \/ at[t] = "acq_wait" /\ partial[t] /\ t \notin Waiters(sem)
        \/ at[t] \in {"acq_wait", "try_test"} /\ AtPost(t) /\ complete

\* What the location of a thread says of the holder and the owner.
PlaceOK ==
  /\ \A t \in Threads : /\ partial[t] => at[t] \in {"outside", "acq_wait"}
                        /\ at[t] \in {"own", "rel_clear"} => t \in holders
                        /\ at[t] = "rel_signal" => t \notin holders
  /\ owner # None => owner \in holders

\* What an instruction of the mutex has come to: it is complete, or it is
\* aborted: the thread is to be suspended in it, or ^C came before it.
ResultOK ==
  phase = "post" =>
    /\ at[thread] # "outside" => Running(thread) /\ Raised \subseteq {"suspend"}
    /\ at[thread] \in {"acq_wait", "rel_signal"} => complete \/ aborting
    /\ at[thread] = "try_test" => (complete => value) /\ (value => complete \/ aborting)

\* One thread at a time has the permit, and then the semaphore does not.
PermitOK ==
  /\ \A t, u \in Threads : Token(t) /\ Token(u) => t = u
  /\ count[sem] <= 1
  /\ \A t \in Threads : Token(t) => count[sem] <= 0

MutexInv ==
  Base /\ MutexTypeOK /\ AbortOK /\ EntryOK /\ PlaceOK /\ ResultOK /\ PermitOK

\* What Unwind does to one thread.
LEMMA UnwindAt ==
  ASSUME MutexTypeOK, Unwind
  PROVE  /\ UNCHANGED <<owner, holders>>
         /\ \A t \in Threads : at'[t] = IF Caught(t) THEN "outside" ELSE at[t]
BY DEF Unwind, Caught

LEMMA PlaceNext ==
  ASSUME Base, MutexTypeOK, AbortOK, PlaceOK, [MutexNext]_mvars
  PROVE  PlaceOK'
<1>0. partial \in [Threads -> BOOLEAN]
  BY DEF Base, IInv, FieldsOK
<1>1. ASSUME Unwind,
             \A t \in Threads : partial'[t] => \/ partial[t]
                                               \/ t = thread /\ at[t] \in {"outside", "acq_wait"}
      PROVE  PlaceOK'
  BY <1>1, UnwindAt DEF PlaceOK
<1>2. CASE Execute /\ inst'[thread] \in Program(thread) /\ Unwind
  <2>1. \A t \in Threads : partial'[t] => \/ partial[t]
                                          \/ t = thread /\ at[t] \in {"outside", "acq_wait"}
    <3>1. CASE at[thread] = "acq_wait" /\ SemaphoreWait(sem)
      BY <1>0, <3>1 DEF SemaphoreWait, Wait
    <3>2. CASE at[thread] = "try_test" /\ SemaphoreTest(sem)
      BY <3>2 DEF SemaphoreTest, Wait
    <3>3. CASE SemaphoreSignal(sem)
      BY <3>3 DEF SemaphoreSignal
    <3>4. CASE Away
      BY <3>4 DEF Away
    <3> QED BY <1>2, <3>1, <3>2, <3>3, <3>4, MutexExecute
  <2> QED BY <1>1, <1>2, <2>1
<1>3. CASE /\ \/ AbortSuspend \/ AbortFinished \/ AbortException \/ AbortOther \/ Loop
              \/ Interrupt \/ Alarm
           /\ Unwind
  <2>1. UNCHANGED partial
    BY <1>3 DEF AbortSuspend, AbortFinished, AbortException, AbortOther, Leave,
              Loop, Dispatch, Return, TakeSignals, CheckInterrupt, WalkSignal, WalkNext,
              CheckTimer, Expire, Expired, Interrupt, Alarm, thvars
  <2> QED BY <1>1, <1>3, <2>1
<1>4. CASE Complete
  <2>1. /\ thread \in Threads /\ partial' = [partial EXCEPT ![thread] = FALSE]
        /\ None \notin Threads
    BY <1>4, SchedConstants DEF Complete, StepDone, Base, IInv, SliceOK
  <2>2. \A t \in Threads : partial'[t] => partial[t] /\ t # thread
    BY <1>0, <2>1
  <2> USE DEF PlaceOK, MutexTypeOK
  <2>3. CASE Acquire(thread)
    BY <2>1, <2>2, <2>3 DEF Acquire
  <2>4. CASE TryAcquire(thread)
    BY <2>1, <2>2, <2>4 DEF TryAcquire
  <2>5. CASE Release(thread)
    BY <2>1, <2>2, <2>5 DEF Release
  <2>6. CASE Call(thread)
    BY <2>1, <2>2, <2>6, MutexConstants DEF Call
  <2> QED BY <1>4, <2>3, <2>4, <2>5, <2>6 DEF Complete
<1>5. CASE UNCHANGED mvars
  BY <1>5 DEF mvars, vars, thvars, PlaceOK
<1> QED BY <1>2, <1>3, <1>4, <1>5 DEF MutexNext

LEMMA ResultNext ==
  ASSUME Base, MutexTypeOK, AbortOK, PlaceOK, ResultOK, [MutexNext]_mvars
  PROVE  ResultOK'
<1>0. count[sem] \in Int
  BY MutexConstants DEF Base, IInv, FieldsOK
<1>1. CASE Execute /\ inst'[thread] \in Program(thread) /\ Unwind
  <2>1. Enter
    BY <1>1, MutexExecute
  <2>2. at'[thread] = at[thread] \/ at'[thread] = "outside"
    BY <1>1, <2>1, UnwindAt DEF Enter
  <2>3. Raised = {}
    BY <2>1 DEF Enter, Base, FlagsOK
  <2>4. ASSUME Wait(sem)
        PROVE  Running(thread)' /\ Raised' \subseteq {"suspend"} /\ (complete' \/ aborting')
    BY <2>1, <2>3, <2>4 DEF Wait, ThreadSleep, SetSignal, queues, flags, Running, Raised, Enter
  <2>5. CASE at[thread] = "acq_wait" /\ SemaphoreWait(sem)
    BY <2>1, <2>2, <2>4, <2>5 DEF SemaphoreWait, ResultOK, Enter
  <2>6. CASE at[thread] = "try_test" /\ SemaphoreTest(sem)
    <3>1. CASE count[sem] > 0
      <4>1. Wait(sem) /\ value'
        BY <1>0, <2>6, <3>1 DEF SemaphoreTest
      <4> QED BY <2>1, <2>2, <2>4, <2>6, <4>1 DEF ResultOK, Enter
    <3>2. CASE ~ (count[sem] > 0)
      <4>1. ~ value' /\ ~ complete' /\ UNCHANGED <<queues, flags>>
        BY <1>0, <2>6, <3>2 DEF SemaphoreTest
      <4> QED BY <2>1, <2>2, <2>3, <2>6, <4>1 DEF ResultOK, Enter, queues, flags, Running, Raised
    <3> QED BY <3>1, <3>2
  <2>7. CASE at[thread] = "rel_signal" /\ SemaphoreSignal(sem)
    <3>1. (complete' \/ aborting') /\ UNCHANGED flags /\ (WakeOne(sem) \/ UNCHANGED queues)
      BY <2>1, <2>7 DEF SemaphoreSignal, Completes, flags
    <3>2. Running(thread)'
      <4>1. state \in [Threads -> States]
        BY DEF Base, IInv, QueuesOK
      <4> QED BY <2>1, <3>1, <4>1 DEF WakeOne, Resume, queues, Running, Enter
    <3> QED BY <2>1, <2>2, <2>3, <2>7, <3>1, <3>2 DEF ResultOK, Enter, flags, Raised
  <2>8. CASE at[thread] \notin {"acq_wait", "try_test", "rel_signal"} /\ Away
    BY <2>1, <2>2, <2>3, <2>8 DEF Away, ResultOK, Enter, flags, Raised, Running
  <2> QED BY <1>1, <2>5, <2>6, <2>7, <2>8, MutexExecute
<1>2. CASE Loop \/ Complete \/ AbortSuspend \/ AbortFinished \/ AbortException \/ AbortOther
  <2>1. phase' # "post"
    BY <1>2 DEF AbortSuspend, AbortFinished, AbortException, AbortOther, Leave, Complete, StepDone,
              Loop, Dispatch, Return, TakeSignals, CheckInterrupt, WalkSignal, WalkNext,
              CheckTimer, Expire, Expired
  <2> QED BY <2>1 DEF ResultOK
<1>3. CASE UNCHANGED mvars
  BY <1>3 DEF mvars, vars, queues, slice, flags, ResultOK, Running, Raised
<1>4. CASE (Interrupt \/ Alarm) /\ Unwind
  <2>1. /\ UNCHANGED <<state, thread, complete, value, catches>>
        /\ phase' = phase \/ phase' = "exited"
        /\ Raised' = Raised
    BY <1>4 DEF Interrupt, Alarm, SetSignal, queues, thvars, slice, flags, Raised
  <2>2. phase = "post" => at'[thread] = at[thread]
    <3>1. phase = "post" => thread \in Threads
      BY DEF Base, IInv, SliceOK
    <3>2. catches \in [Threads -> 0..CatchBound] /\ CatchBound \in Nat
      BY Numbers DEF Base, IInv, FieldsOK
    <3> QED BY <1>4, <2>1, <3>1, <3>2, UnwindAt DEF Caught
  <2>3. aborting => aborting'
    BY <1>4 DEF Interrupt, Alarm, SetSignal, flags
  <2> QED BY <2>1, <2>2, <2>3 DEF ResultOK, Running
<1> QED BY <1>1, <1>2, <1>3, <1>4 DEF MutexNext

\* A thread that does nothing with the permit does not get it.
LEMMA TokenKept ==
  ASSUME NEW u \in Threads, u \in holders' => u \in holders, FinishedStay,
         \/ at'[u] = "outside"
         \/ /\ at'[u] = at[u]
            /\ at[u] = "rel_signal" /\ AtPost(u) /\ complete => AtPost(u)' /\ complete'
            /\ at[u] = "acq_wait" /\ partial'[u] => partial[u]
            /\ u \in Waiters(sem) => u \in Waiters(sem)' \/ state'[u] = "finished"
            /\ at[u] \in {"acq_wait", "try_test"} => ~ (AtPost(u)' /\ complete')
  PROVE  Token(u)' => Token(u)
<1>1. state[u] = "finished" => state'[u] = "finished"
  BY DEF FinishedStay
<1>2. CASE at'[u] = "outside"
  BY <1>2 DEF Token
<1>3. CASE at'[u] # "outside"
  BY <1>1, <1>3 DEF Token
<1> QED BY <1>2, <1>3

LEMMA PermitKept ==
  ASSUME PermitOK, count'[sem] = count[sem], \A u \in Threads : Token(u)' => Token(u)
  PROVE  PermitOK'
<1>1. \A t, u \in Threads : Token(t)' /\ Token(u)' => t = u
  BY DEF PermitOK
<1>2. count'[sem] <= 1 /\ \A t \in Threads : Token(t)' => count'[sem] <= 0
  BY DEF PermitOK
<1> QED BY <1>1, <1>2 DEF PermitOK

\* The steps of the interpreter and of the program outside of the mutex.
LEMMA PermitAway ==
  ASSUME MutexInv, Enter, Unwind, Away, at[thread] \notin {"acq_wait", "try_test", "rel_signal"}
  PROVE  \A u \in Threads : Token(u)' => Token(u)
<1> SUFFICES ASSUME NEW u \in Threads  PROVE Token(u)' => Token(u)
  OBVIOUS
<1>1. UNCHANGED holders /\ at'[u] = IF Caught(u) THEN "outside" ELSE at[u]
  BY UnwindAt DEF MutexInv
<1>2. ~ Caught(u) /\ u \in Waiters(sem) => u \in Waiters(sem)' \/ state'[u] = "finished"
  BY DEF Away, SleepersKept, Waiters, Enter
<1>3. at[u] = "acq_wait" /\ partial'[u] => partial[u]
  BY DEF Away
<1>4. ~ AtPost(u) /\ (at[u] \in {"acq_wait", "try_test"} => ~ AtPost(u)')
  BY DEF Enter, AtPost
<1> QED BY <1>1, <1>2, <1>3, <1>4, TokenKept DEF Away

LEMMA PermitPost ==
  ASSUME MutexInv, AbortSuspend \/ AbortFinished \/ AbortException \/ AbortOther, Unwind
  PROVE  \A u \in Threads : Token(u)' => Token(u)
<1> SUFFICES ASSUME NEW u \in Threads  PROVE Token(u)' => Token(u)
  OBVIOUS
<1>1. UNCHANGED holders /\ at'[u] = IF Caught(u) THEN "outside" ELSE at[u]
  BY UnwindAt DEF MutexInv
<1>2. /\ phase = "post" /\ phase' = "top" /\ UNCHANGED <<thread, partial>> /\ ~ complete
      /\ Post /\ thread \in Threads
  BY DEF AbortSuspend, AbortFinished, AbortException, AbortOther, Leave, Aborted, Post,
         MutexInv, Base, IInv, SliceOK
<1>3. /\ state \in [Threads -> States] /\ catches \in [Threads -> 0..CatchBound]
      /\ CatchBound \in Nat /\ inst \in [Threads -> Instructions \cup {Noop, None}]
  BY Numbers DEF MutexInv, Base, IInv, QueuesOK, FieldsOK
<1>4. FinishedStay /\ (Caught(u) \/ (u \in Waiters(sem) => u \in Waiters(sem)' \/ state'[u] = "finished"))
  <2>1. CASE AbortSuspend
    <3>1. Running(thread)
      BY <1>2, <2>1 DEF AbortSuspend, MutexInv, Base, OrderOK
    <3>2. state' = [state EXCEPT ![thread] = "suspended"] /\ UNCHANGED sleep
      BY <2>1, <3>1 DEF AbortSuspend
    <3> QED BY <1>2, <1>3, <3>1, <3>2 DEF FinishedStay, Waiters, Sleepers, Suspended, Running
  <2>2. CASE ~ AbortSuspend
    <3>1. "suspend" \notin pending
      BY <1>2, <2>2, SuspendFirst DEF MutexInv, Base
    <3>2. u \in Waiters(sem) => u \in Sleepers(sem)
      BY <3>1 DEF Waiters
    <3>3. SleepersKept => (u \in Sleepers(sem) => u \in Waiters(sem)' \/ state'[u] = "finished" \/ Caught(u))
      BY DEF SleepersKept, Waiters
    <3>4. CASE Finish(thread)
      BY <1>2, <3>2, <3>3, <3>4, KeptFinish DEF MutexInv, Base, IInv
    <3>5. CASE UNCHANGED queues
      BY <3>2, <3>3, <3>5, KeptSame DEF queues
    <3> QED BY <2>2, <3>4, <3>5 DEF AbortFinished, AbortException, AbortOther, Die, AbortSuspend
  <2> QED BY <2>1, <2>2
<1> QED BY <1>1, <1>2, <1>4, TokenKept DEF AtPost

LEMMA PermitLoop ==
  ASSUME NoEarly, MutexInv, Loop, Unwind
  PROVE  \A u \in Threads : Token(u)' => Token(u)
<1> SUFFICES ASSUME NEW u \in Threads  PROVE Token(u)' => Token(u)
  OBVIOUS
<1>1. UNCHANGED holders /\ at'[u] = IF Caught(u) THEN "outside" ELSE at[u]
  BY UnwindAt DEF MutexInv
<1>2. phase # "post" /\ phase' # "post" /\ UNCHANGED partial
  BY DEF Loop, Dispatch, Return, TakeSignals, CheckInterrupt, WalkSignal, WalkNext,
         CheckTimer, Expire, Expired, thvars
<1>3. FinishedStay /\ SleepersKept
  <2>1. CASE UNCHANGED <<state, sleep>>
    BY <2>1, KeptSame
  <2>2. CASE WalkSignal
    <3>1. /\ walk \in Threads /\ SignalThread(walk, inst) /\ QueuesOK /\ FieldsOK
          /\ inst \in [Threads -> Instructions \cup {Noop, None}]
      BY <2>2 DEF WalkSignal, MutexInv, Base, IInv, FieldsOK
    <3> QED BY <3>1, KeptSignal
  <2>3. ASSUME NEW t \in Threads, Expire(t), Suspended(t)  PROVE FinishedStay /\ SleepersKept
    <3>1. sleep[t] # sem
      BY <2>3, ExpireSafe DEF MutexInv
    <3>2. Resume(t) /\ UNCHANGED sleep /\ QueuesOK
      BY <2>3 DEF Expire, MutexInv, Base, IInv
    <3> QED BY <2>3, <3>1, <3>2, KeptResume
  <2> QED BY <2>1, <2>2, <2>3 DEF Loop, Dispatch, Return, TakeSignals, CheckInterrupt, WalkNext,
                                  CheckTimer, Expire, Expired, queues
<1>4. Caught(u) \/ (u \in Waiters(sem) => u \in Waiters(sem)' \/ state'[u] = "finished")
  BY <1>2, <1>3 DEF Waiters, SleepersKept
<1> QED BY <1>1, <1>2, <1>3, <1>4, TokenKept DEF AtPost

\* The functions of the mutex pass the permit on to the holders.
LEMMA PermitComplete ==
  ASSUME MutexInv, Complete
  PROVE  \A u \in Threads : Token(u)' => Token(u)
<1>1. /\ phase = "post" /\ phase' # "post" /\ thread' = thread /\ thread \in Threads
      /\ UNCHANGED <<state, sleep>> /\ partial' = [partial EXCEPT ![thread] = FALSE]
      /\ (complete \/ ~ aborting) /\ partial \in [Threads -> BOOLEAN]
  BY DEF Complete, StepDone, Aborted, MutexInv, Base, IInv, SliceOK, FieldsOK
<1>2. MutexTypeOK
  BY DEF MutexInv
<1>3. /\ at[thread] # "outside" => Running(thread)
      /\ at[thread] \in {"acq_wait", "rel_signal"} => complete
      /\ at[thread] = "try_test" => (value <=> complete)
  BY <1>1 DEF MutexInv, ResultOK
<1>4. at[thread] \in {"own", "rel_clear"} => thread \in holders
  BY <1>1 DEF MutexInv, PlaceOK
<1>5. \A u \in Threads : u # thread => /\ at'[u] = at[u]
                                       /\ u \in holders' => u \in holders
  BY <1>1, <1>2 DEF Complete, Acquire, TryAcquire, Release, Call, MutexTypeOK
<1>6. ASSUME NEW u \in Threads, u # thread  PROVE Token(u)' => Token(u)
  <2>1. FinishedStay /\ (u \in Waiters(sem) => u \in Waiters(sem)')
    BY <1>1, <1>6, KeptSame DEF Waiters, Sleepers, Suspended
  <2>2. partial'[u] = partial[u]
    BY <1>1, <1>6
  <2> QED BY <1>1, <1>5, <1>6, <2>1, <2>2, TokenKept DEF AtPost
<1>7. Token(thread)' => thread \in holders' \/ at'[thread] = "rel_signal"
  BY <1>1 DEF Token, AtPost
<1>8. thread \in holders => Token(thread)
  BY DEF Token
<1>9. AtPost(thread) /\ at[thread] \in {"acq_wait", "try_test"} /\ complete => Token(thread)
  BY <1>3 DEF Token, Running
<1>10. AtPost(thread)
  BY <1>1 DEF AtPost
<1>11. Token(thread)' => Token(thread)
  <2>1. CASE Acquire(thread)
    BY <1>1, <1>2, <1>3, <1>7, <1>8, <1>9, <1>10, <2>1 DEF Acquire, MutexTypeOK
  <2>2. CASE TryAcquire(thread)
    BY <1>1, <1>2, <1>3, <1>7, <1>8, <1>9, <1>10, <2>2 DEF TryAcquire, MutexTypeOK
  <2>3. CASE Release(thread)
    BY <1>1, <1>2, <1>4, <1>7, <1>8, <2>3 DEF Release, MutexTypeOK
  <2>4. CASE Call(thread)
    BY <1>1, <1>2, <1>7, <1>8, <2>4, MutexConstants DEF Call, MutexTypeOK
  <2> QED BY <2>1, <2>2, <2>3, <2>4 DEF Complete
<1> QED BY <1>1, <1>6, <1>11

\* An instruction of the mutex leaves the other threads alone.
LEMMA PermitOthers ==
  ASSUME MutexInv, Enter, Unwind, NEW u \in Threads, u # thread, UNCHANGED catches,
         partial'[u] = partial[u], state'[u] = state[u], sleep'[u] = sleep[u]
  PROVE  Token(u)' <=> Token(u)
<1>1. catches \in [Threads -> 0..CatchBound] /\ CatchBound \in Nat
  BY Numbers DEF MutexInv, Base, IInv, FieldsOK
<1>2. UNCHANGED holders /\ at'[u] = at[u]
  BY <1>1, UnwindAt DEF MutexInv, Caught
<1>3. u \in Waiters(sem) <=> u \in Waiters(sem)'
  BY DEF Waiters, Sleepers, Suspended, Enter
<1>4. ~ AtPost(u) /\ ~ AtPost(u)'
  BY DEF Enter, AtPost
<1> QED BY <1>2, <1>3, <1>4 DEF Token

\* A wait takes the permit of the semaphore, or goes on with the permit that a
\* signal has left to the thread, or the thread is going to be suspended.
LEMMA PermitWait ==
  ASSUME MutexInv, Enter, Unwind, at[thread] \in {"acq_wait", "try_test"},
         Wait(sem), UNCHANGED catches
  PROVE  PermitOK'
<1>1. /\ thread \in Threads /\ sem \in Semaphores /\ count \in [Semaphores -> Int] /\ count[sem] \in Int
      /\ partial \in [Threads -> BOOLEAN] /\ sleep \in [Threads -> Threads \cup Semaphores \cup {None}]
      /\ Running(thread) /\ phase = "exec"
  BY MutexConstants DEF MutexInv, Base, IInv, QueuesOK, FieldsOK, Enter
<1>2. catches \in [Threads -> 0..CatchBound] /\ CatchBound \in Nat
  BY Numbers DEF MutexInv, Base, IInv, FieldsOK
<1>3. UNCHANGED holders /\ at'[thread] = at[thread]
  BY <1>1, <1>2, UnwindAt DEF MutexInv, Caught
<1>4. \A u \in Threads : u # thread => (Token(u)' <=> Token(u))
  <2> SUFFICES ASSUME NEW u \in Threads, u # thread  PROVE Token(u)' <=> Token(u)
    OBVIOUS
  <2>1. partial'[u] = partial[u] /\ state'[u] = state[u] /\ sleep'[u] = sleep[u]
    BY <1>1 DEF Wait, ThreadSleep, queues
  <2> QED BY <2>1, PermitOthers
<1>5. CASE ~ aborting /\ partial[thread]
  <2>1. UNCHANGED count /\ at[thread] = "acq_wait"
    BY <1>1, <1>5 DEF Wait, MutexInv, PlaceOK
  <2>2. thread \notin Waiters(sem)
    BY <1>1 DEF Waiters, Sleepers, Suspended, Running
  <2>3. Token(thread)
    BY <1>1, <1>5, <2>1, <2>2 DEF Token, Running
  <2> QED BY <1>4, <2>1, <2>3, PermitKept DEF MutexInv
<1>6. CASE ~ aborting /\ ~ partial[thread] /\ count[sem] > 0
  <2>1. count'[sem] = count[sem] - 1
    BY <1>1, <1>6 DEF Wait
  <2>2. \A u \in Threads : ~ Token(u)
    BY <1>1, <1>6 DEF MutexInv, PermitOK
  <2>3. count'[sem] <= 0
    BY <1>1, <2>1 DEF MutexInv, PermitOK
  <2>4. \A u \in Threads : Token(u)' => u = thread
    BY <1>4, <2>2
  <2> QED BY <1>1, <2>1, <2>3, <2>4 DEF PermitOK
<1>7. CASE ~ aborting /\ ~ partial[thread] /\ ~ (count[sem] > 0)
  <2>1. /\ count'[sem] = count[sem] - 1 /\ ~ complete' /\ ThreadSleep(sem)
    BY <1>1, <1>7 DEF Wait
  <2>2. count'[sem] <= 0
    BY <1>1, <1>7, <2>1
  <2>3. thread \in Waiters(sem)'
    BY <1>1, <2>1 DEF ThreadSleep, SetSignal, Waiters, Enter
  <2>4. Token(thread)' => Token(thread)
    BY <1>1, <1>3, <2>1, <2>3 DEF Token, Enter
  <2>5. \A u \in Threads : Token(u)' => Token(u)
    BY <1>4, <2>4 DEF Enter
  <2>6. \A t, u \in Threads : Token(t)' /\ Token(u)' => t = u
    BY <2>5 DEF MutexInv, PermitOK
  <2> QED BY <1>1, <2>1, <2>2, <2>6 DEF PermitOK
<1>8. CASE aborting
  <2>1. UNCHANGED <<count, partial, queues>> /\ ~ complete'
    BY <1>8 DEF Wait
  <2>2. Token(thread)' => Token(thread)
    <3>1. thread \notin Waiters(sem) /\ state[thread] # "finished"
      BY <1>1 DEF Waiters, Sleepers, Suspended, Running
    <3>2. at[thread] = "acq_wait" /\ partial[thread] => Token(thread)
      BY <3>1 DEF Token
    <3>3. partial' = partial
      BY <2>1
    <3>4. Token(thread)' => thread \in holders \/ (at[thread] = "acq_wait" /\ partial[thread])
      BY <1>3, <2>1, <3>3 DEF Token, Enter
    <3> QED BY <3>2, <3>4 DEF Token
  <2>3. \A u \in Threads : Token(u)' => Token(u)
    BY <1>4, <2>2 DEF Enter
  <2>4. count'[sem] = count[sem]
    BY <2>1
  <2> QED BY <2>3, <2>4, PermitKept DEF MutexInv
<1> QED BY <1>5, <1>6, <1>7, <1>8

LEMMA PermitTest ==
  ASSUME MutexInv, Enter, Unwind, at[thread] = "try_test", SemaphoreTest(sem)
  PROVE  PermitOK'
<1>1. CASE Wait(sem)
  BY <1>1, PermitWait DEF SemaphoreTest
<1>2. CASE ~ Wait(sem)
  <2>1. /\ ~ complete' /\ UNCHANGED <<count, partial, queues, catches>>
    BY <1>2 DEF SemaphoreTest
  <2>2. \A u \in Threads : u # thread => (Token(u)' <=> Token(u))
    BY <2>1, PermitOthers DEF queues
  <2>3. catches \in [Threads -> 0..CatchBound] /\ CatchBound \in Nat /\ thread \in Threads
    BY Numbers DEF MutexInv, Base, IInv, FieldsOK, Enter
  <2>4. UNCHANGED holders /\ at'[thread] = at[thread]
    BY <2>1, <2>3, UnwindAt DEF MutexInv, Caught
  <2>5. Token(thread)' => Token(thread)
    BY <2>1, <2>4 DEF Token, Enter, queues, AtPost
  <2> QED BY <2>1, <2>2, <2>5, PermitKept DEF MutexInv, Enter
<1> QED BY <1>1, <1>2

\* A signal gives the permit back to the semaphore, or on to the thread it wakes.
LEMMA PermitSignal ==
  ASSUME MutexInv, Enter, Unwind, at[thread] = "rel_signal", SemaphoreSignal(sem)
  PROVE  PermitOK'
<1>1. /\ thread \in Threads /\ sem \in Semaphores /\ count \in [Semaphores -> Int] /\ count[sem] \in Int
      /\ Running(thread) /\ phase = "exec" /\ thread \notin holders
      /\ sleep \in [Threads -> Threads \cup Semaphores \cup {None}] /\ state \in [Threads -> States]
  BY MutexConstants DEF MutexInv, Base, IInv, QueuesOK, FieldsOK, Enter, PlaceOK
<1>2. catches \in [Threads -> 0..CatchBound] /\ CatchBound \in Nat /\ UNCHANGED <<catches, partial>>
  BY Numbers DEF MutexInv, Base, IInv, FieldsOK, SemaphoreSignal
<1>3. UNCHANGED holders /\ at'[thread] = at[thread]
  BY <1>1, <1>2, UnwindAt DEF MutexInv, Caught
<1>4. Token(thread)
  BY <1>1 DEF Token, AtPost, Running
<1>5. \A u \in Threads : u # thread => ~ Token(u)
  BY <1>1, <1>4 DEF MutexInv, PermitOK
<1>6. count[sem] <= 0
  BY <1>1, <1>4 DEF MutexInv, PermitOK
<1>7. CASE aborting
  <2>1. UNCHANGED <<count, queues>>
    BY <1>7 DEF SemaphoreSignal
  <2>2. \A u \in Threads : Token(u)' => Token(u)
    <3>1. \A u \in Threads : u # thread => (Token(u)' <=> Token(u))
      BY <1>2, <2>1, PermitOthers DEF queues
    <3> QED BY <1>4, <3>1
  <2> QED BY <2>1, <2>2, PermitKept DEF MutexInv
<1>8. CASE ~ aborting
  <2>1. /\ count'[sem] = count[sem] + 1 /\ complete'
        /\ IF count[sem] + 1 <= 0 THEN WakeOne(sem) ELSE UNCHANGED queues
    BY <1>1, <1>8 DEF SemaphoreSignal, Completes
  <2>2. ~ Token(thread)'
    BY <1>1, <1>3, <2>1 DEF Token, AtPost, Enter
  <2>3. ASSUME NEW u \in Threads, state'[u] = state[u], sleep'[u] = sleep[u]
        PROVE  ~ Token(u)'
    BY <1>2, <1>5, <2>2, <2>3, PermitOthers DEF Enter
  <2>4. CASE UNCHANGED queues
    <3>1. \A u \in Threads : ~ Token(u)'
      BY <2>3, <2>4 DEF queues
    <3>2. count'[sem] <= 1
      BY <1>1, <1>6, <2>1
    <3> QED BY <3>1, <3>2 DEF PermitOK
  <2>5. CASE ~ UNCHANGED queues
    <3>1. WakeOne(sem) /\ count'[sem] <= 0
      BY <1>1, <2>1, <2>5
    <3>2. PICK w \in Sleepers(sem) : Resume(w) /\ sleep' = [sleep EXCEPT ![w] = None]
      BY <2>5, <3>1 DEF WakeOne
    <3>3. \A u \in Threads : u # w => state'[u] = state[u] /\ sleep'[u] = sleep[u]
      BY <1>1, <3>2 DEF Resume
    <3>4. \A u \in Threads : Token(u)' => u = w
      BY <2>3, <3>3
    <3>5. count'[sem] <= 1
      BY <1>1, <2>1, <3>1
    <3> QED BY <3>1, <3>4, <3>5 DEF PermitOK
  <2> QED BY <2>4, <2>5
<1> QED BY <1>7, <1>8

LEMMA PermitNext ==
  ASSUME NoEarly, MutexInv, [MutexNext]_mvars, phase' # "exited"
  PROVE  PermitOK'
<1>1. CASE Execute /\ inst'[thread] \in Program(thread) /\ Unwind
  <2>1. /\ Enter
        /\ \/ at[thread] = "acq_wait" /\ SemaphoreWait(sem)
           \/ at[thread] = "try_test" /\ SemaphoreTest(sem)
           \/ at[thread] = "rel_signal" /\ SemaphoreSignal(sem)
           \/ at[thread] \notin {"acq_wait", "try_test", "rel_signal"} /\ Away
    BY <1>1, MutexExecute DEF MutexInv
  <2>2. CASE at[thread] = "acq_wait" /\ SemaphoreWait(sem)
    BY <1>1, <2>1, <2>2, PermitWait DEF SemaphoreWait
  <2>3. CASE at[thread] \notin {"acq_wait", "try_test", "rel_signal"} /\ Away
    <3>1. count'[sem] = count[sem]
      BY <2>3 DEF Away
    <3> QED BY <1>1, <2>1, <2>3, <3>1, PermitAway, PermitKept DEF MutexInv
  <2> QED BY <1>1, <2>1, <2>2, <2>3, PermitTest, PermitSignal
<1>2. CASE (AbortSuspend \/ AbortFinished \/ AbortException \/ AbortOther \/ Loop) /\ Unwind
  <2>1. UNCHANGED count
    BY <1>2 DEF AbortSuspend, AbortFinished, AbortException, AbortOther, Leave,
              Loop, Dispatch, Return, TakeSignals, CheckInterrupt, WalkSignal, WalkNext,
              CheckTimer, Expire, Expired
  <2> QED BY <1>2, <2>1, PermitPost, PermitLoop, PermitKept DEF MutexInv
<1>3. CASE Complete
  <2>1. UNCHANGED count
    BY <1>3 DEF Complete, StepDone
  <2> QED BY <1>3, <2>1, PermitComplete, PermitKept DEF MutexInv
<1>4. CASE UNCHANGED mvars
  BY <1>4 DEF mvars, vars, queues, thvars, slice, flags, MutexInv, PermitOK, Token, AtPost,
              Waiters, Sleepers, Suspended
<1>5. CASE (Interrupt \/ Alarm) /\ Unwind
  <2>1. /\ UNCHANGED <<state, sleep, partial, catches, count, thread, complete, phase>>
        /\ "suspend" \in pending' <=> "suspend" \in pending
    BY <1>5 DEF Interrupt, Alarm, SetSignal, queues, thvars, slice, flags
  <2>2. catches \in [Threads -> 0..CatchBound] /\ CatchBound \in Nat
    BY Numbers DEF MutexInv, Base, IInv, FieldsOK
  <2>3. UNCHANGED holders /\ \A u \in Threads : at'[u] = at[u]
    BY <1>5, <2>1, <2>2, UnwindAt DEF MutexInv, Caught
  <2>4. Waiters(sem)' = Waiters(sem)
    BY <2>1 DEF Waiters, Sleepers, Suspended
  <2>5. \A u \in Threads : Token(u)' => Token(u)
    BY <2>1, <2>3, <2>4 DEF Token, AtPost
  <2> QED BY <2>1, <2>5, PermitKept DEF MutexInv
<1> QED BY <1>1, <1>2, <1>3, <1>4, <1>5 DEF MutexNext

LEMMA InitMutex == MutexInit => MutexInv
<1> SUFFICES ASSUME MutexInit  PROVE MutexInv
  OBVIOUS
<1>1. Base
  BY InitBase DEF MutexInit
<1>2. MutexTypeOK /\ AbortOK /\ EntryOK /\ PlaceOK /\ ResultOK
  BY DEF MutexInit, Init, MutexTypeOK, Locations, AbortOK, EntryOK, Due, PlaceOK, ResultOK
<1>3. \A t \in Threads : ~ Token(t)
  BY DEF MutexInit, Init, Token
<1>4. count[sem] = 1
  BY MutexConstants DEF MutexInit, Init
<1> QED BY <1>1, <1>2, <1>3, <1>4 DEF MutexInv, PermitOK

LEMMA NextMutex ==
  ASSUME NoEarly, MutexInv, [MutexNext]_mvars, phase' # "exited"
  PROVE  MutexInv'
<1>1. Base' /\ [Next]_vars
  BY MutexSteps, BaseNext DEF MutexInv
<1> QED BY <1>1, MutexTypeNext, AbortNext, EntryNext, PlaceNext, ResultNext, PermitNext DEF MutexInv

\* Without ^C the process never exits in the middle of an instruction.
LEMMA NextQuiet == NoSignals /\ MutexInv /\ [MutexNext]_mvars => MutexInv'
<1> SUFFICES ASSUME NoSignals, MutexInv, [MutexNext]_mvars  PROVE MutexInv'
  OBVIOUS
<1>1. AbortOK'
  BY AbortNext DEF MutexInv
<1>2. phase' # "exited"
  BY <1>1 DEF AbortOK, NoSignals
<1> QED BY <1>2, NextMutex DEF NoEarly

Excluded == MutualExclusion /\ (owner # None => owner \in holders)

LEMMA InvExcludes == MutexInv => Excluded
<1> SUFFICES ASSUME MutexInv, NEW t \in holders, NEW u \in holders  PROVE t = u
  BY DEF Excluded, MutualExclusion, MutexInv, PlaceOK
<1>1. t \in Threads /\ u \in Threads
  BY DEF MutexInv, MutexTypeOK
<1>2. Token(t) /\ Token(u)
  BY DEF Token
<1> QED BY <1>1, <1>2 DEF MutexInv, PermitOK

\* "Mutexes can be held by only one thread at a time" (mutex.5c), and the owner of
\* a mutex that has one holds it, whatever the other instructions of the program
\* are: threads that hold the mutex or wait for it may be killed, joined, forked,
\* sent a signal or interrupted by ^C. But only if no sleep is ended early: the
\* program has no sleep, or no thread is sent a signal or interrupted. The entry
\* that such a sleep leaves behind lets a thread out of acquire without a permit.
THEOREM Excludes ==
  ASSUME "sleep" \notin Ops \/ ("send_signal" \notin Ops /\ ~ Interrupts)
  PROVE  MutexSpec => [](MutualExclusion /\ (owner # None => owner \in holders))
<1> DEFINE Safe == Excluded /\ (phase # "exited" => MutexInv)
<1>1. MutexInit => Safe
  BY InitMutex, InvExcludes
<1>2. Safe /\ [MutexNext]_mvars => Safe'
  <2> SUFFICES ASSUME Safe, [MutexNext]_mvars  PROVE Safe'
    OBVIOUS
  <2>1. CASE phase = "exited"
    <3>1. ~ MutexNext
      BY <2>1 DEF MutexNext, Complete, Execute, SemaphoreWait, SemaphoreTest, SemaphoreSignal,
         ThreadJoin, ThreadKill, ThreadSendSignal, ThreadSetPriority, ThreadDoSleep, ThreadFork,
         ThreadTry, ThreadEndTry, ThreadEnd, ThreadNoop, Takes, Fetch, StepDone, AbortSuspend,
         AbortFinished, AbortException, AbortOther, Leave, Loop, Dispatch, Return, TakeSignals,
         CheckInterrupt, WalkSignal, WalkNext, CheckTimer, Expire, Expired, Interrupt, Alarm
    <3>2. UNCHANGED <<phase, owner, holders>>
      BY <3>1 DEF mvars, vars
    <3> QED BY <2>1, <3>2 DEF Excluded, MutualExclusion
  <2>2. CASE phase # "exited" /\ phase' = "exited"
    <3>1. Unwind \/ UNCHANGED <<owner, holders>>
      BY <2>2 DEF MutexNext, Complete, StepDone, mvars
    <3>2. UNCHANGED <<owner, holders>>
      BY <3>1 DEF Unwind
    <3> QED BY <2>2, <3>2 DEF Excluded, MutualExclusion
  <2>3. CASE phase # "exited" /\ phase' # "exited"
    <3>1. MutexInv'
      BY <2>3, NextMutex DEF NoEarly, NoSignals
    <3>2. Excluded'
      BY <3>1, InvExcludes, PTL
    <3> QED BY <3>1, <3>2
  <2> QED BY <2>1, <2>2, <2>3
<1>3. Safe => MutualExclusion /\ (owner # None => owner \in holders)
  BY DEF Excluded
<1> QED BY <1>1, <1>2, <1>3, PTL DEF MutexSpec

-----------------------------------------------------------------------------
(* The owner field *)

OwnOK ==
  \A t \in Threads :
    /\ t \in holders => owner = t \/ (at[t] = "own" /\ owner = None)
    /\ at[t] = "rel_clear" => owner = t

\* Only the thread that completes an instruction of the mutex changes its place.
LEMMA NobodyThrown ==
  ASSUME NoSignals, MutexInv, MutexNext
  PROVE  Complete \/ UNCHANGED <<at, owner, holders>>
<1>1. catches \in [Threads -> 0..CatchBound] /\ CatchBound \in Nat /\ at \in [Threads -> Locations]
  BY Numbers DEF MutexInv, MutexTypeOK, Base, IInv, FieldsOK
<1>2. ASSUME Unwind, \A u \in Threads : ~ Caught(u) \/ at[u] = "outside"
      PROVE  UNCHANGED <<at, owner, holders>>
  <2>1. /\ UNCHANGED <<owner, holders>>
        /\ at' = [t \in Threads |-> IF Caught(t) THEN "outside" ELSE at[t]]
    BY <1>2 DEF Unwind, Caught
  <2>2. at' = at
    BY <1>1, <1>2, <2>1
  <2> QED BY <2>1, <2>2
<1>3. UNCHANGED catches => \A u \in Threads : ~ Caught(u)
  BY <1>1 DEF Caught
<1>4. CASE Execute /\ inst'[thread] \in Program(thread) /\ Unwind
  <2>1. SemaphoreWait(sem) \/ SemaphoreTest(sem) \/ SemaphoreSignal(sem) \/ Away
    BY <1>4, MutexExecute DEF MutexInv
  <2>2. CASE Away
    BY <1>2, <1>4, <2>2 DEF Away
  <2> QED BY <1>2, <1>3, <1>4, <2>1, <2>2 DEF SemaphoreWait, SemaphoreTest, SemaphoreSignal
<1>5. CASE (AbortSuspend \/ AbortFinished \/ AbortOther \/ Loop \/ Interrupt \/ Alarm) /\ Unwind
  <2>1. UNCHANGED catches
    BY <1>5 DEF AbortSuspend, AbortFinished, AbortOther, Loop, Dispatch, Return, TakeSignals,
              CheckInterrupt, WalkSignal, WalkNext, CheckTimer, Expire, Expired, Interrupt,
              Alarm, thvars, MutexInv, AbortOK, NoSignals
  <2> QED BY <1>2, <1>3, <1>5, <2>1
<1>6. CASE AbortException /\ Unwind
  <2>1. at[thread] = "outside" /\ thread \in Threads
    BY <1>6 DEF AbortException, Leave, MutexInv, ResultOK, Raised, Base, IInv, SliceOK
  <2>2. \A u \in Threads : u # thread => ~ Caught(u)
    BY <1>1, <1>6, <2>1 DEF AbortException, Catch, Die, Caught
  <2> QED BY <1>2, <1>6, <2>1, <2>2
<1> QED BY <1>4, <1>5, <1>6 DEF MutexNext

LEMMA OwnNext ==
  ASSUME NoSignals, MutexInv, OwnOK, [MutexNext]_mvars
  PROVE  OwnOK'
<1>1. CASE UNCHANGED <<at, owner, holders>>
  BY <1>1 DEF OwnOK
<1>2. CASE Complete
  <2>1. /\ thread \in Threads /\ None \notin Threads /\ MutexTypeOK
        /\ \A t, u \in holders : t = u
    <3>1. \A t, u \in holders : t = u
      BY DEF MutexInv, PermitOK, Token, MutexTypeOK
    <3> QED BY <1>2, <3>1, SchedConstants DEF Complete, StepDone, MutexInv, Base, IInv, SliceOK
  <2>2. /\ at[thread] \in {"own", "rel_clear"} => thread \in holders
        /\ owner # None => owner \in holders
    BY <2>1 DEF MutexInv, PlaceOK
  <2>3. at[thread] = "acq_wait" \/ (at[thread] = "try_test" /\ value) => Token(thread)
    <3>1. (complete \/ ~ aborting) /\ phase = "post"
      BY <1>2 DEF Complete, StepDone, Aborted
    <3>2. /\ at[thread] # "outside" => Running(thread)
          /\ at[thread] = "acq_wait" => complete
          /\ at[thread] = "try_test" => (value <=> complete)
      BY <3>1 DEF MutexInv, ResultOK
    <3> QED BY <3>1, <3>2 DEF Token, AtPost, Running
  <2>4. Token(thread) => \A t \in holders : t = thread
    BY <2>1 DEF MutexInv, PermitOK, Token, MutexTypeOK
  <2>5. CASE Acquire(thread)
    BY <2>1, <2>2, <2>3, <2>4, <2>5 DEF Acquire, OwnOK, MutexTypeOK
  <2>6. CASE TryAcquire(thread)
    BY <2>1, <2>2, <2>3, <2>4, <2>6 DEF TryAcquire, OwnOK, MutexTypeOK
  <2>7. CASE Release(thread)
    BY <2>1, <2>2, <2>7 DEF Release, OwnOK, MutexTypeOK
  <2>8. CASE Call(thread)
    BY <2>1, <2>8, MutexConstants DEF Call, OwnOK, MutexTypeOK
  <2> QED BY <1>2, <2>5, <2>6, <2>7, <2>8 DEF Complete
<1> QED BY <1>1, <1>2, NobodyThrown DEF mvars

\* The owner field names the holder, and misses it only until it has been
\* written, in every program that does not throw threads out of acquire by an
\* exception: between its wait and the assignment to owner, a thread that is
\* thrown out would leave a mutex without owner that nobody can release.
THEOREM OwnerIsHolder ==
  ASSUME NoSignals
  PROVE  MutexSpec => []OwnerExcludes
<1>1. MutexInit => MutexInv /\ OwnOK
  BY InitMutex DEF MutexInit, OwnOK
<1>2. MutexInv /\ OwnOK /\ [MutexNext]_mvars => (MutexInv /\ OwnOK)'
  BY NextQuiet, OwnNext
<1>3. MutexInv /\ OwnOK => OwnerExcludes
  BY DEF OwnerExcludes, MutualExclusion, OwnerHolds, MutexInv, OwnOK, PlaceOK, PermitOK, Token,
         MutexTypeOK
<1> QED BY <1>1, <1>2, <1>3, PTL DEF MutexSpec

-----------------------------------------------------------------------------
(* A mutex nobody holds can be taken *)

\* The permit of the semaphore is not lost: when the semaphore does not have it,
\* a thread does. Who sleeps on the semaphore waits in acquire.
KeptOK ==
  /\ count[sem] <= 0 => \E t \in Threads : Token(t)
  /\ \A t \in Threads : sleep[t] = sem => at[t] = "acq_wait" /\ partial[t]
  /\ phase = "post" /\ at[thread] = "try_test" /\ ~ complete => count[sem] <= 0

KeptInv == MutexInv /\ SleepOK /\ CountOK /\ KeptOK

\* A thread keeps the permit in a step in which it is not finished, nor falls
\* asleep on the semaphore.
LEMMA TokenStays ==
  ASSUME KeptInv, NEW u \in Threads, UNCHANGED holders, at'[u] = at[u],
         at[u] # "outside" /\ state'[u] = "finished" => state[u] = "finished",
         at[u] = "rel_signal" /\ AtPost(u)' /\ complete' => AtPost(u) /\ complete,
         at[u] = "acq_wait" /\ partial[u] => partial'[u],
         sleep'[u] = sem => sleep[u] = sem,
         at[u] \in {"acq_wait", "try_test"} /\ AtPost(u) => ~ complete
  PROVE  Token(u) => Token(u)'
<1>1. Waiters(sem) = SleepersOn(sem)
  BY WaitQueueMembers, MutexConstants DEF KeptInv, MutexInv
<1>2. u \in Waiters(sem)' => sleep'[u] = sem
  BY DEF Waiters, Sleepers
<1>3. u \in Waiters(sem)' => u \in Waiters(sem)
  BY <1>1, <1>2 DEF SleepersOn
<1> QED BY <1>3 DEF Token

\* The first part of KeptOK when every thread keeps the permit.
LEMMA TokensStay ==
  ASSUME KeptOK, count'[sem] = count[sem], \A u \in Threads : Token(u) => Token(u)'
  PROVE  count'[sem] <= 0 => \E t \in Threads : Token(t)'
BY DEF KeptOK

LEMMA KeptExecute ==
  ASSUME LeftAlone, KeptInv, Execute, inst'[thread] \in Program(thread), Unwind
  PROVE  KeptOK'
<1>1. /\ Enter
      /\ \/ at[thread] = "acq_wait" /\ SemaphoreWait(sem)
         \/ at[thread] = "try_test" /\ SemaphoreTest(sem)
         \/ at[thread] = "rel_signal" /\ SemaphoreSignal(sem)
         \/ at[thread] \notin {"acq_wait", "try_test", "rel_signal"} /\ Away
  BY MutexExecute DEF KeptInv, MutexInv
<1>2. UNCHANGED <<at, owner, holders>>
  BY NobodyThrown DEF MutexNext, KeptInv, LeftAlone, NoSignals, Complete, StepDone, Execute,
     SemaphoreWait, SemaphoreTest, SemaphoreSignal, ThreadJoin, ThreadKill,
     ThreadSendSignal, ThreadSetPriority, ThreadDoSleep, ThreadFork, ThreadTry,
     ThreadEndTry, ThreadEnd, ThreadNoop, Takes, Fetch
<1>3. /\ thread \in Threads /\ sem \in Semaphores /\ count \in [Semaphores -> Int] /\ count[sem] \in Int
      /\ partial \in [Threads -> BOOLEAN] /\ sleep \in [Threads -> Threads \cup Semaphores \cup {None}]
      /\ state \in [Threads -> States] /\ None # sem
      /\ ~ aborting /\ Running(thread) /\ phase = "exec" /\ thread' = thread
  BY <1>1, MutexConstants, SchedConstants
     DEF KeptInv, MutexInv, Base, IInv, QueuesOK, FieldsOK, Enter, LeftAlone
<1>4. \A u \in Threads : ~ AtPost(u) /\ (u # thread => ~ AtPost(u)')
  BY <1>3 DEF AtPost
<1>5. CASE at[thread] \notin {"acq_wait", "try_test", "rel_signal"} /\ Away
  <2>1. \A u \in Threads : Token(u) => Token(u)'
    <3> SUFFICES ASSUME NEW u \in Threads  PROVE Token(u) => Token(u)'
      OBVIOUS
    <3>1. u = thread => at[u] \notin {"acq_wait", "try_test", "rel_signal"}
      BY <1>5
    <3> QED BY <1>2, <1>4, <1>5, <3>1, TokenStays DEF Away
  <2>2. count'[sem] = count[sem]
    BY <1>5 DEF Away
  <2>3. count'[sem] <= 0 => \E t \in Threads : Token(t)'
    BY <2>1, <2>2, TokensStay DEF KeptInv
  <2> QED BY <1>2, <1>3, <1>5, <2>3 DEF KeptInv, KeptOK, Away
<1>6. ASSUME at[thread] \in {"acq_wait", "try_test"}, Wait(sem), partial[thread] => at[thread] = "acq_wait",
             at[thread] = "try_test" => count[sem] > 0
      PROVE  KeptOK'
  <2>1. \A u \in Threads : u # thread => (Token(u) => Token(u)')
    <3> SUFFICES ASSUME NEW u \in Threads, u # thread  PROVE Token(u) => Token(u)'
      OBVIOUS
    <3>1. partial'[u] = partial[u] /\ state'[u] = state[u] /\ sleep'[u] = sleep[u]
      BY <1>3, <1>6 DEF Wait, ThreadSleep, queues
    <3> QED BY <1>2, <1>4, <3>1, TokenStays
  <2>2. state'[thread] # "finished" /\ phase' = "post"
    BY <1>1, <1>3, <1>6 DEF Wait, ThreadSleep, queues, Running, Enter
  <2>3. CASE complete'
    <3>1. Token(thread)'
      BY <1>2, <1>3, <1>6, <2>2, <2>3 DEF Token, AtPost
    <3>2. UNCHANGED sleep /\ \A u \in Threads : partial[u] => partial'[u]
      BY <1>3, <1>6, <2>3 DEF Wait, queues
    <3> QED BY <1>2, <1>3, <2>3, <3>1, <3>2 DEF KeptOK, KeptInv
  <2>4. CASE ~ complete'
    <3>1. /\ ~ partial[thread] /\ count[sem] <= 0 /\ ThreadSleep(sem) /\ at[thread] = "acq_wait"
          /\ partial' = [partial EXCEPT ![thread] = TRUE] /\ count'[sem] = count[sem] - 1
      BY <1>3, <1>6, <2>4 DEF Wait
    <3>2. PICK v \in Threads : Token(v)
      BY <3>1 DEF KeptInv, KeptOK
    <3>3. Token(thread) => Token(thread)'
      BY <1>2, <1>3, <1>4, <1>6, <3>1 DEF Token
    <3>4. Token(v)'
      BY <1>3, <2>1, <3>2, <3>3
    <3>5. \A t \in Threads : sleep'[t] = sem => at[t] = "acq_wait" /\ partial'[t]
      BY <1>3, <3>1 DEF ThreadSleep, KeptInv, KeptOK
    <3> QED BY <1>2, <1>3, <3>1, <3>4, <3>5 DEF KeptOK
  <2> QED BY <2>3, <2>4
<1>7. CASE at[thread] = "acq_wait" /\ SemaphoreWait(sem)
  BY <1>6, <1>7 DEF SemaphoreWait
<1>8. CASE at[thread] = "try_test" /\ SemaphoreTest(sem)
  <2>1. ~ partial[thread]
    BY <1>3, <1>8 DEF KeptInv, MutexInv, PlaceOK
  <2>2. CASE count[sem] > 0
    BY <1>3, <1>6, <1>8, <2>1, <2>2 DEF SemaphoreTest
  <2>3. CASE ~ (count[sem] > 0)
    <3>1. ~ complete' /\ UNCHANGED <<count, partial, queues>> /\ count[sem] <= 0
      BY <1>3, <1>8, <2>3 DEF SemaphoreTest
    <3>2. \A u \in Threads : Token(u) => Token(u)'
      BY <1>2, <1>3, <1>4, <1>8, <3>1, TokenStays DEF queues
    <3>3. count'[sem] <= 0 => \E t \in Threads : Token(t)'
      BY <3>1, <3>2, TokensStay DEF KeptInv
    <3> QED BY <1>2, <3>1, <3>3 DEF KeptInv, KeptOK, queues
  <2> QED BY <2>2, <2>3
<1>9. CASE at[thread] = "rel_signal" /\ SemaphoreSignal(sem)
  <2>1. /\ count'[sem] = count[sem] + 1 /\ UNCHANGED partial
        /\ IF count[sem] + 1 <= 0 THEN WakeOne(sem) ELSE UNCHANGED queues
    BY <1>3, <1>9 DEF SemaphoreSignal
  <2>2. WakeOne(sem) \/ UNCHANGED queues
    BY <2>1
  <2>3. \A t \in Threads : sleep'[t] = sem => sleep[t] = sem
    BY <1>3, <2>2 DEF WakeOne, queues
  <2>4. ASSUME count'[sem] <= 0  PROVE \E t \in Threads : Token(t)'
    <3>1. count[sem] < 0 /\ WakeOne(sem) /\ -count[sem] > 0
      BY <1>3, <2>1, <2>4
    <3>2. Sleepers(sem) # {}
      <4>1. Cardinality(SleepersOn(sem)) # 0
        BY <1>3, <3>1 DEF KeptInv, CountOK
      <4>2. SleepersOn(sem) # {}
        BY <4>1, FS_EmptySet
      <4>3. Sleepers(sem) = Waiters(sem)
        BY <1>3 DEF Waiters
      <4> QED BY <1>3, <4>2, <4>3, WaitQueueMembers DEF KeptInv, MutexInv
    <3>3. PICK w \in Sleepers(sem) : Resume(w) /\ sleep' = [sleep EXCEPT ![w] = None]
      BY <3>1, <3>2 DEF WakeOne
    <3>4. w \in Threads /\ sleep[w] = sem
      BY DEF Sleepers
    <3>5. state'[w] = "running" /\ sleep'[w] = None
      BY <1>3, <3>3, <3>4 DEF Resume
    <3>6. w \notin Waiters(sem)'
      BY <1>3, <3>5 DEF Waiters, Sleepers
    <3>7. Token(w)'
      BY <1>2, <2>1, <3>4, <3>5, <3>6 DEF Token, KeptInv, KeptOK
    <3> QED BY <3>4, <3>7
  <2> QED BY <1>2, <1>3, <1>9, <2>1, <2>3, <2>4 DEF KeptOK, KeptInv
<1> QED BY <1>1, <1>5, <1>7, <1>8, <1>9

LEMMA KeptOther ==
  ASSUME LeftAlone, KeptInv, AbortSuspend \/ AbortFinished \/ AbortException \/ AbortOther \/ Loop, Unwind
  PROVE  KeptOK'
<1>1. ~ Complete
  BY DEF AbortSuspend, AbortFinished, AbortException, AbortOther, Leave, Complete, StepDone,
         Loop, Dispatch, Return, TakeSignals, CheckInterrupt, WalkSignal, WalkNext,
         CheckTimer, Expire, Expired
<1>2. UNCHANGED <<at, owner, holders>>
  BY <1>1, NobodyThrown DEF MutexNext, KeptInv, LeftAlone, NoSignals
<1>3. /\ phase' # "post" /\ UNCHANGED <<count, partial>> /\ (phase = "post" => ~ complete)
  BY DEF AbortSuspend, AbortFinished, AbortException, AbortOther, Leave, Aborted, thvars,
         Loop, Dispatch, Return, TakeSignals, CheckInterrupt, WalkSignal, WalkNext,
         CheckTimer, Expire, Expired, KeptInv, SleepOK
<1>4. \A u \in Threads :
        /\ at[u] # "outside" /\ state'[u] = "finished" => state[u] = "finished"
        /\ sleep'[u] = sem => sleep[u] = sem
  <2>1. CASE AbortSuspend
    <3>1. state \in [Threads -> States] /\ UNCHANGED sleep
      BY <2>1 DEF AbortSuspend, KeptInv, MutexInv, Base, IInv, QueuesOK
    <3> QED BY <2>1, <3>1 DEF AbortSuspend
  <2>2. CASE AbortFinished
    <3>1. at[thread] = "outside" /\ thread \in Threads /\ Finish(thread)
      BY <2>2 DEF AbortFinished, Leave, KeptInv, MutexInv, ResultOK, Raised, Base, IInv, SliceOK
    <3> QED BY <3>1, FinishSleep, MutexConstants, SchedConstants
            DEF KeptInv, MutexInv, Base, IInv
  <2>3. CASE AbortOther \/ Loop
    <3>1. CASE UNCHANGED <<state, sleep>>
      BY <3>1
    <3>2. ASSUME NEW t \in Threads, Expire(t), Suspended(t)
          PROVE  UNCHANGED sleep /\ \A u \in Threads : state'[u] = "finished" => state[u] = "finished"
      <4>1. state \in [Threads -> States] /\ Resume(t) /\ UNCHANGED sleep
        BY <3>2 DEF Expire, KeptInv, MutexInv, Base, IInv, QueuesOK
      <4> QED BY <4>1 DEF Resume
    <3> QED BY <2>3, <3>1, <3>2 DEF AbortOther, Loop, Dispatch, Return, TakeSignals, CheckInterrupt,
         WalkSignal, WalkNext, CheckTimer, Expire, Expired, queues, KeptInv, SleepOK
  <2>4. ~ AbortException
    BY DEF AbortException, KeptInv, SleepOK
  <2> QED BY <2>1, <2>2, <2>3, <2>4
<1>5. \A u \in Threads : Token(u) => Token(u)'
  BY <1>2, <1>3, <1>4, TokenStays DEF AtPost
<1>6. count'[sem] <= 0 => \E t \in Threads : Token(t)'
  BY <1>3, <1>5, TokensStay DEF KeptInv
<1> QED BY <1>2, <1>3, <1>4, <1>6 DEF KeptOK, KeptInv

LEMMA KeptComplete ==
  ASSUME KeptInv, Complete
  PROVE  KeptOK'
<1>1. /\ phase = "post" /\ phase' # "post" /\ thread' = thread /\ thread \in Threads
      /\ UNCHANGED <<state, sleep, count>> /\ partial' = [partial EXCEPT ![thread] = FALSE]
      /\ (complete \/ ~ aborting) /\ partial \in [Threads -> BOOLEAN] /\ None # sem
  BY SchedConstants, MutexConstants
     DEF Complete, StepDone, Aborted, KeptInv, MutexInv, Base, IInv, SliceOK, FieldsOK
<1>2. MutexTypeOK
  BY DEF KeptInv, MutexInv
<1>3. /\ at[thread] # "outside" => Running(thread)
      /\ at[thread] \in {"acq_wait", "rel_signal"} => complete
      /\ at[thread] = "try_test" => (value <=> complete)
  BY <1>1 DEF KeptInv, MutexInv, ResultOK
<1>4. /\ at[thread] \in {"own", "rel_clear"} => thread \in holders
      /\ at[thread] = "rel_signal" => thread \notin holders
  BY <1>1 DEF KeptInv, MutexInv, PlaceOK
<1>5. sleep[thread] # sem
  <2>1. ~ Blocked(thread)
    <3>1. ~ Aborted
      BY DEF Complete, StepDone
    <3> QED BY <1>1, <3>1 DEF Blocked, Stopping, KeptInv, MutexInv, Base, ThreadOK, FlagsOK, Raised
  <2> QED BY <1>1, <2>1 DEF KeptInv, SleepOK
<1>6. \A u \in Threads : u # thread => /\ at'[u] = at[u] /\ partial'[u] = partial[u]
                                       /\ u \in holders => u \in holders'
                                       /\ u \in holders' => u \in holders
  BY <1>1, <1>2 DEF Complete, Acquire, TryAcquire, Release, Call, MutexTypeOK
<1>7. ASSUME NEW u \in Threads, u # thread  PROVE Token(u) => Token(u)'
  <2>1. u \in Waiters(sem)' => u \in Waiters(sem)
    BY <1>1 DEF Waiters, Sleepers, Suspended
  <2> QED BY <1>1, <1>6, <1>7, <2>1 DEF Token, AtPost
<1>8. thread \in holders' => Token(thread)'
  BY <1>1 DEF Token
<1>9. at'[thread] = "rel_signal" /\ at[thread] # "outside" => Token(thread)'
  BY <1>1, <1>3 DEF Token, AtPost, Running
<1>10. Token(thread) => thread \in holders \/ (at[thread] \in {"acq_wait", "try_test"} /\ (at[thread] = "try_test" => complete \/ thread \in holders))
  BY <1>1, <1>3 DEF Token, AtPost
<1>11. Token(thread) => Token(thread)'
  <2>1. CASE Acquire(thread)
    BY <1>1, <1>2, <1>3, <1>8, <1>10, <2>1 DEF Acquire, MutexTypeOK
  <2>2. CASE TryAcquire(thread)
    BY <1>1, <1>2, <1>3, <1>8, <1>10, <2>2 DEF TryAcquire, MutexTypeOK
  <2>3. CASE Release(thread)
    BY <1>1, <1>2, <1>4, <1>8, <1>9, <1>10, <2>3 DEF Release, MutexTypeOK
  <2>4. CASE Call(thread)
    BY <1>1, <1>2, <1>8, <1>10, <2>4, MutexConstants DEF Call, MutexTypeOK
  <2> QED BY <2>1, <2>2, <2>3, <2>4 DEF Complete
<1>12. \A u \in Threads : Token(u) => Token(u)'
  BY <1>1, <1>7, <1>11
<1>13. count'[sem] <= 0 => \E t \in Threads : Token(t)'
  BY <1>1, <1>12, TokensStay DEF KeptInv
<1>14. \A t \in Threads : sleep'[t] = sem => at'[t] = "acq_wait" /\ partial'[t]
  BY <1>1, <1>5, <1>6 DEF KeptInv, KeptOK
<1> QED BY <1>1, <1>13, <1>14 DEF KeptOK

LEMMA KeptNext == LeftAlone /\ KeptInv /\ [MutexNext]_mvars => KeptInv'
<1> SUFFICES ASSUME LeftAlone, KeptInv, [MutexNext]_mvars  PROVE KeptInv'
  OBVIOUS
<1>1. MutexInv' /\ [Next]_vars
  BY NextQuiet, MutexSteps DEF KeptInv, LeftAlone, NoSignals
<1>2. SleepOK' /\ CountOK'
  BY <1>1, NextSleep, NextCount DEF KeptInv, MutexInv
<1>3. KeptOK'
  <2>1. CASE UNCHANGED mvars
    BY <2>1 DEF mvars, vars, queues, thvars, slice, flags, KeptInv, KeptOK, Token, AtPost,
                Waiters, Sleepers, Suspended
  <2>2. CASE (Interrupt \/ Alarm) /\ Unwind
    <3>1. /\ UNCHANGED <<state, sleep, partial, count, thread, complete, phase>>
          /\ "suspend" \in pending' <=> "suspend" \in pending
      BY <2>2 DEF Interrupt, Alarm, queues, thvars, slice, flags, LeftAlone
    <3>2. UNCHANGED <<at, holders>>
      <4>1. ~ Complete \/ UNCHANGED <<at, holders>>
        BY <3>1 DEF Complete, StepDone
      <4> QED BY <2>2, <4>1, NobodyThrown DEF MutexNext, KeptInv, LeftAlone, NoSignals
    <3>3. Waiters(sem)' = Waiters(sem)
      BY <3>1 DEF Waiters, Sleepers, Suspended
    <3>4. \A u \in Threads : Token(u) => Token(u)'
      BY <3>1, <3>2, <3>3 DEF Token, AtPost
    <3> QED BY <3>1, <3>2, <3>4 DEF KeptInv, KeptOK
  <2> QED BY <2>1, <2>2, KeptExecute, KeptOther, KeptComplete DEF MutexNext
<1> QED BY <1>1, <1>2, <1>3 DEF KeptInv

LEMMA InitKept == LeftAlone /\ MutexInit => KeptInv
<1> SUFFICES ASSUME LeftAlone, MutexInit  PROVE KeptInv
  OBVIOUS
<1>1. MutexInv
  BY InitMutex
<1>2. SleepOK
  BY DEF MutexInit, Init, SleepOK
<1>3. CountOK
  <2>1. \A s \in Semaphores : SleepersOn(s) = {} /\ count[s] >= 0 /\ count[s] \in Int
    BY SchedConstants DEF MutexInit, Init, SleepersOn, LeftAlone
  <2> QED BY <2>1, FS_EmptySet DEF CountOK
<1>4. KeptOK
  BY SchedConstants, MutexConstants DEF MutexInit, Init, KeptOK
<1> QED BY <1>1, <1>2, <1>3, <1>4 DEF KeptInv

\* When nobody holds the mutex, or is about to take it or to give it back, the
\* semaphore has the permit.
LEMMA TokenChanging ==
  ASSUME MutexInv, NEW t \in Threads, Token(t)
  PROVE  holders # {} \/ \E u \in Threads : Changing(u)
BY DEF Token, Changing, AtPost

\* The permit is never lost, in a program that does not kill or signal threads:
\* while nobody holds the mutex or changes it, its semaphore has count 1.
THEOREM NotLost ==
  ASSUME LeftAlone
  PROVE  MutexSpec => []UnlockedCanBeTaken
<1>1. KeptInv => UnlockedCanBeTaken
  <2> SUFFICES ASSUME KeptInv, ~ (holders # {} \/ \E u \in Threads : Changing(u))
      PROVE  count[sem] = 1
    BY DEF UnlockedCanBeTaken
  <2>1. ~ \E t \in Threads : Token(t)
    BY TokenChanging DEF KeptInv
  <2>2. count[sem] \in Int /\ count[sem] <= 1 /\ ~ (count[sem] <= 0)
    BY <2>1, MutexConstants DEF KeptInv, KeptOK, MutexInv, PermitOK, Base, IInv, FieldsOK
  <2> QED BY <2>2
<1> QED BY <1>1, InitKept, KeptNext, PTL DEF MutexSpec

\* try_acquire fails only if somebody holds the mutex or is just taking or
\* releasing it.
THEOREM TryTakes ==
  ASSUME LeftAlone
  PROVE  MutexSpec => TryAcquireTakesUnlocked
<1>1. ASSUME KeptInv, Complete, at[thread] = "try_test", ~ value
      PROVE  holders # {} \/ \E t \in Threads : Changing(t)
  <2>1. phase = "post"
    BY <1>1 DEF Complete, StepDone
  <2>2. ~ complete
    BY <1>1, <2>1 DEF KeptInv, MutexInv, ResultOK
  <2>3. \E t \in Threads : Token(t)
    BY <1>1, <2>1, <2>2 DEF KeptInv, KeptOK
  <2> QED BY <1>1, <2>3, TokenChanging DEF KeptInv
<1>2. KeptInv => [Complete /\ at[thread] = "try_test" /\ ~value
                    => holders # {} \/ \E t \in Threads : Changing(t)]_mvars
  BY <1>1
<1> QED BY <1>2, InitKept, KeptNext, PTL DEF MutexSpec, TryAcquireTakesUnlocked

=============================================================================
