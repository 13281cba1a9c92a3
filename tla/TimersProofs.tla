---------------------------- MODULE TimersProofs ----------------------------
(***************************************************************************)
(* Proofs about Timers: that the interval timer runs as long as an entry   *)
(* is queued, that every sleeper is queued, and that no sleep is cut short *)
(* by an entry of another one.                                             *)
(***************************************************************************)
EXTENDS Timers, FiniteSetTheorems, SequenceTheorems, WellFoundedInduction, TLAPS

-----------------------------------------------------------------------------
(* The queue *)

Entries == [who : Threads \cup {None}, ms : Int, incr : {0, Period}]

\* A set of places has a first one: of the sets of places up to one of them, a
\* smallest set is that of the first place.
LEMMA FirstLater ==
  ASSUME NEW S \in SUBSET Nat, S # {}
  PROVE  \E i \in S : \A j \in S : i <= j
<1> DEFINE upto(i) == {j \in S : j <= i}
           U == {upto(i) : i \in S}
<1>1. \A j \in S : j \in Nat
  OBVIOUS
<1>2. ASSUME NEW i \in S  PROVE upto(i) \in FiniteSubsetsOf(S)
  <2>1. i \in Nat /\ \A j \in S : j <= i => j \in 0..i
    BY <1>1
  <2>2. upto(i) \subseteq 0..i
    BY <2>1
  <2>3. IsFiniteSet(0..i)
    BY <2>1, FS_Interval
  <2> HIDE DEF upto
  <2>4. IsFiniteSet(upto(i))
    BY <2>2, <2>3, FS_Subset
  <2> QED BY <2>4 DEF FiniteSubsetsOf, upto
<1>3. PICK m \in U : \A u \in U : ~ (<<u, m>> \in StrictSubsetOrdering(S))
  <2>1. U \subseteq FiniteSubsetsOf(S) /\ U # {}
    BY <1>2
  <2> HIDE DEF U
  <2> QED BY <2>1, FS_StrictSubsetOrderingWellFounded, WFMin, Zenon
<1>4. PICK i \in S : m = upto(i)
  BY <1>3
<1>5. ASSUME NEW j \in S, j < i  PROVE FALSE
  <2>1. (\A x \in S : x <= j => x <= i) /\ i <= i /\ ~ (i <= j)
    BY <1>1, <1>5
  <2>2. upto(j) \subseteq upto(i) /\ i \in upto(i) /\ i \notin upto(j)
    BY <2>1
  <2>3. <<upto(j), upto(i)>> \in StrictSubsetOrdering(S)
    BY <2>2 DEF StrictSubsetOrdering
  <2> QED BY <1>3, <1>4, <2>3
<1> QED BY <1>1, <1>5

\* _TimerInsert puts the entry somewhere into the queue, and keeps the others in
\* their order.
LEMMA InsertIs ==
  ASSUME NEW q \in Seq(Entries), NEW e \in Entries
  PROVE  /\ Place(q, e) \in 1..(Len(q) + 1)
         /\ Insert(q, e) \in Seq(Entries)
         /\ DOMAIN Insert(q, e) = 1..(Len(q) + 1)
         /\ \A i \in 1..(Len(q) + 1) :
              Insert(q, e)[i] = IF i < Place(q, e) THEN q[i]
                                ELSE IF i = Place(q, e) THEN e ELSE q[i - 1]
<1> DEFINE later == {i \in DOMAIN q : q[i].ms > e.ms}
           P(k) == k \in later \cup {Len(q) + 1} /\ \A j \in later : k <= j
           k == CHOOSE k : P(k)
<1>1. DOMAIN q = 1..Len(q) /\ Len(q) \in Nat /\ \A i \in 1..Len(q) : q[i] \in Entries
  BY LenProperties, ElementOfSeq
<1>2. later \subseteq 1..Len(q) /\ later \in SUBSET Nat
  BY <1>1
<1>3. \E n : P(n)
  <2> HIDE DEF later
  <2>1. CASE later = {}
    BY <2>1
  <2>2. CASE later # {}
    BY <1>2, <2>2, FirstLater
  <2> QED BY <2>1, <2>2
<1>4. P(k)
  BY <1>3
<1>5. Place(q, e) = k
  BY DEF Place
<1> HIDE DEF k
<1>6. k \in 1..(Len(q) + 1)
  <2> HIDE DEF later
  <2> QED BY <1>1, <1>2, <1>4
<1> DEFINE r == [i \in 1..(Len(q) + 1) |-> IF i < k THEN q[i] ELSE IF i = k THEN e ELSE q[i - 1]]
<1>7. Insert(q, e) = r
  BY <1>5 DEF Insert
<1>8. r \in [1..(Len(q) + 1) -> Entries]
  <2> HIDE DEF P
  <2> QED BY <1>1, <1>6
<1>9. Len(q) + 1 \in Nat
  BY <1>1
<1>10. r \in Seq(Entries)
  <2> HIDE DEF r
  <2> QED BY <1>8, <1>9, SeqDef
<1> HIDE DEF P
<1> QED BY <1>1, <1>5, <1>6, <1>7, <1>10

\* Who is queued, and when, after an insertion.
Has(q, who, ms) == \E i \in DOMAIN q : q[i].who = who /\ q[i].ms = ms

\* The threads of S and the poll of files are in the queue at most once.
Once(q, S) ==
  \A i, j \in DOMAIN q : q[i].who = q[j].who /\ q[i].who \notin S => i = j

LEMMA InsertHas ==
  ASSUME NEW q \in Seq(Entries), NEW e \in Entries, NEW S
  PROVE  /\ \A who, ms : Has(Insert(q, e), who, ms) <=> Has(q, who, ms) \/ (who = e.who /\ ms = e.ms)
         /\ Once(q, S) /\ ~ (\E i \in DOMAIN q : q[i].who = e.who) => Once(Insert(q, e), S)
         /\ Once(q, S) /\ e.who \in S => Once(Insert(q, e), S)
<1> DEFINE k == Place(q, e)
           r == Insert(q, e)
<1>1. DOMAIN q = 1..Len(q) /\ Len(q) \in Nat
  BY LenProperties
<1>2. /\ k \in 1..(Len(q) + 1) /\ DOMAIN r = 1..(Len(q) + 1)
      /\ \A i \in 1..(Len(q) + 1) :
           r[i] = IF i < k THEN q[i] ELSE IF i = k THEN e ELSE q[i - 1]
  BY InsertIs
<1> HIDE DEF k, r
<1>3. ASSUME NEW who, NEW ms
      PROVE  Has(r, who, ms) <=> Has(q, who, ms) \/ (who = e.who /\ ms = e.ms)
  <2>1. ASSUME NEW i \in DOMAIN r  PROVE i = k \/ \E j \in DOMAIN q : r[i] = q[j]
    BY <1>1, <1>2, <2>1
  <2>2. ASSUME NEW j \in DOMAIN q  PROVE \E i \in DOMAIN r : r[i] = q[j]
    <3>1. CASE j < k
      BY <1>1, <1>2, <3>1
    <3>2. CASE ~ (j < k)
      <4>1. j + 1 \in DOMAIN r /\ r[j + 1] = q[j]
        BY <1>1, <1>2, <3>2
      <4> QED BY <4>1
    <3> QED BY <3>1, <3>2
  <2>3. k \in DOMAIN r /\ r[k] = e
    BY <1>1, <1>2
  <2> QED BY <2>1, <2>2, <2>3 DEF Has
<1>4. ASSUME Once(q, S), \A i \in DOMAIN q : q[i].who # e.who \/ e.who \in S
      PROVE  Once(r, S)
  <2> SUFFICES ASSUME NEW i \in 1..(Len(q) + 1), NEW j \in 1..(Len(q) + 1),
                      r[i].who = r[j].who, r[i].who \notin S
               PROVE  i = j
    BY <1>2 DEF Once
  <2>1. r[i] = IF i < k THEN q[i] ELSE IF i = k THEN e ELSE q[i - 1]
    BY <1>2
  <2>2. r[j] = IF j < k THEN q[j] ELSE IF j = k THEN e ELSE q[j - 1]
    BY <1>2
  <2>3. /\ i < k => i \in DOMAIN q
        /\ j < k => j \in DOMAIN q
        /\ i > k => i - 1 \in DOMAIN q
        /\ j > k => j - 1 \in DOMAIN q
    BY <1>1, <1>2
  <2>4. \A m, n \in DOMAIN q : q[m].who = q[n].who /\ q[m].who \notin S => m = n
    BY <1>4 DEF Once
  <2>5. CASE i = k
    BY <1>1, <1>2, <1>4, <2>1, <2>2, <2>3, <2>5
  <2>6. CASE j = k
    BY <1>1, <1>2, <1>4, <2>1, <2>2, <2>3, <2>6
  <2>7. CASE i # k /\ j # k
    <3> DEFINE m == IF i < k THEN i ELSE i - 1
               n == IF j < k THEN j ELSE j - 1
    <3>1. m \in DOMAIN q /\ n \in DOMAIN q /\ r[i] = q[m] /\ r[j] = q[n]
      BY <1>1, <1>2, <2>1, <2>2, <2>3, <2>7
    <3>2. m = n
      BY <2>4, <3>1
    <3> QED BY <1>1, <1>2, <2>7, <3>2
  <2> QED BY <2>5, <2>6, <2>7
<1> QED BY <1>3, <1>4 DEF r

LEMMA TailHas ==
  ASSUME NEW q \in Seq(Entries), q # <<>>, NEW S
  PROVE  /\ Head(q) \in Entries /\ Tail(q) \in Seq(Entries)
         /\ \A who, ms : Has(q, who, ms) <=> Has(Tail(q), who, ms) \/ (who = Head(q).who /\ ms = Head(q).ms)
         /\ Once(q, S) => Once(Tail(q), S)
         /\ Once(q, S) /\ Head(q).who \notin S => \A ms : ~ Has(Tail(q), Head(q).who, ms)
<1>1. /\ DOMAIN q = 1..Len(q) /\ Len(q) \in Nat /\ Len(q) # 0 /\ Head(q) = q[1]
      /\ Tail(q) \in Seq(Entries) /\ DOMAIN Tail(q) = 1..(Len(q) - 1)
      /\ \A i \in 1..(Len(q) - 1) : Tail(q)[i] = q[i + 1]
  BY LenProperties, HeadTailProperties, EmptySeq
<1>2. Head(q) \in Entries
  BY <1>1, ElementOfSeq
<1>3. ASSUME NEW i \in 2..Len(q)  PROVE i - 1 \in DOMAIN Tail(q) /\ Tail(q)[i - 1] = q[i]
  BY <1>1
<1>4. ASSUME NEW i \in DOMAIN Tail(q)  PROVE i + 1 \in DOMAIN q /\ i + 1 # 1 /\ Tail(q)[i] = q[i + 1]
  BY <1>1
<1>5. ASSUME NEW who, NEW ms
      PROVE  Has(q, who, ms) <=> Has(Tail(q), who, ms) \/ (who = Head(q).who /\ ms = Head(q).ms)
  <2>1. \A i \in DOMAIN q : i = 1 \/ i \in 2..Len(q)
    BY <1>1
  <2>2. 1 \in DOMAIN q
    BY <1>1
  <2>3. ASSUME Has(q, who, ms)  PROVE Has(Tail(q), who, ms) \/ (who = Head(q).who /\ ms = Head(q).ms)
    <3>1. PICK i \in DOMAIN q : q[i].who = who /\ q[i].ms = ms
      BY <2>3 DEF Has
    <3> QED BY <1>1, <1>3, <2>1, <3>1 DEF Has
  <2>4. Has(Tail(q), who, ms) => Has(q, who, ms)
    BY <1>4 DEF Has
  <2>5. who = Head(q).who /\ ms = Head(q).ms => Has(q, who, ms)
    BY <1>1, <2>2 DEF Has
  <2> QED BY <2>3, <2>4, <2>5
<1>6. ASSUME Once(q, S)  PROVE Once(Tail(q), S)
  <2> SUFFICES ASSUME NEW i \in DOMAIN Tail(q), NEW j \in DOMAIN Tail(q),
                      Tail(q)[i].who = Tail(q)[j].who, Tail(q)[i].who \notin S
               PROVE  i = j
    BY DEF Once
  <2>1. i + 1 = j + 1
    BY <1>4, <1>6 DEF Once
  <2> QED BY <1>1, <2>1
<1>7. ASSUME Once(q, S), Head(q).who \notin S, NEW ms, Has(Tail(q), Head(q).who, ms)
      PROVE  FALSE
  <2>1. PICK i \in DOMAIN Tail(q) : Tail(q)[i].who = Head(q).who
    BY <1>7 DEF Has
  <2>2. 1 \in DOMAIN q /\ q[1].who = q[i + 1].who
    BY <1>1, <1>4, <2>1
  <2> QED BY <1>1, <1>4, <1>7, <2>2 DEF Once
<1> QED BY <1>1, <1>2, <1>5, <1>6, <1>7

LEMMA HasWho ==
  ASSUME NEW q, NEW who
  PROVE  (\E i \in DOMAIN q : q[i].who = who) <=> \E ms : Has(q, who, ms)
BY DEF Has

LEMMA QueuedIs == \A who : Queued(who) <=> \E ms : Has(sleeping, who, ms)
BY HasWho DEF Queued

LEMMA QueuedNext == \A who : Queued(who)' <=> \E ms : Has(sleeping', who, ms)
BY HasWho DEF Queued

-----------------------------------------------------------------------------
(* The invariant *)

TypesInv ==
  /\ now \in Nat /\ sleeping \in Seq(Entries)
  /\ itimer \in Int \cup {None} /\ signalTimer \in BOOLEAN
  /\ expiring \in Nat \cup {None}
  /\ asleep \in [Threads -> BOOLEAN] /\ until \in [Threads -> Int]
  /\ early \subseteq Threads /\ repeating \in BOOLEAN

\* The entry of a thread of which no signal has ended a sleep is that of its
\* last sleep, and is there only while it lasts.
EntryOK ==
  \A t \in Threads \ early : \A ms :
    Has(sleeping, t, ms) => asleep[t] /\ ms = until[t]

QueueInv ==
  /\ TypesInv
  /\ SleepersQueued
  /\ repeating /\ now < MaxTime => Queued(None)
  /\ Once(sleeping, early)
  /\ expiring # None => expiring <= now
  /\ EntryOK
  /\ SleepsLongEnough

LEMMA InitQueue == Init => QueueInv
<1> SUFFICES ASSUME Init  PROVE QueueInv
  OBVIOUS
<1>1. sleeping \in Seq(Entries) /\ DOMAIN sleeping = {}
  BY EmptySeq DEF Init
<1>2. TypesInv
  <2>1. /\ now \in Nat /\ itimer \in Int \cup {None} /\ expiring \in Nat \cup {None}
        /\ early \subseteq Threads /\ signalTimer \in BOOLEAN /\ repeating \in BOOLEAN
    BY DEF Init
  <2>2. asleep \in [Threads -> BOOLEAN] /\ until \in [Threads -> Int]
    BY DEF Init
  <2> QED BY <1>1, <2>1, <2>2 DEF TypesInv
<1>3. SleepersQueued /\ SleepsLongEnough
  BY DEF Init, SleepersQueued, SleepsLongEnough
<1>4. Once(sleeping, early) /\ EntryOK
  BY <1>1 DEF Once, EntryOK, Has
<1> QED BY <1>2, <1>3, <1>4 DEF Init, QueueInv

LEMMA TimerSetIs ==
  ASSUME NEW when \in Int, NEW w \in Int, now \in Int
  PROVE  /\ TimerSet(when, w) \in Int \cup {None}
         /\ when # w => TimerSet(when, w) # None
BY TimersConstants DEF TimerSet

\* An entry is inserted.
LEMMA InsertTypes ==
  ASSUME now \in Int, itimer \in Int \cup {None},
         NEW q \in Seq(Entries), NEW e \in Entries, NEW w \in Int, TimerInsert(q, e, w)
  PROVE  /\ sleeping' \in Seq(Entries) /\ itimer' \in Int \cup {None}
         /\ sleeping' = Insert(q, e)
BY InsertIs, TimerSetIs DEF TimerInsert, Entries

LEMMA NextQueue ==
  ASSUME QueueInv, [Next]_vars
  PROVE  QueueInv'
<1> USE TimersConstants DEF QueueInv, TypesInv
<1>1. ASSUME NEW t \in Threads, NEW delta \in Deltas, Sleep(t, delta)  PROVE QueueInv'
  <2> DEFINE e == Entry(t, now + delta, 0)
  <2>1. e \in Entries /\ e.who = t /\ e.ms = now + delta /\ now + delta \in Int
    BY DEF Entry, Entries
  <2> HIDE DEF e
  <2>2. /\ TimerInsert(sleeping, e, now) /\ expiring = None /\ ~ asleep[t]
        /\ asleep' = [asleep EXCEPT ![t] = TRUE]
        /\ until' = [until EXCEPT ![t] = now + delta]
        /\ UNCHANGED <<now, signalTimer, expiring, early, repeating>>
    BY <1>1 DEF Sleep, e
  <2>3. TypesInv' /\ sleeping' = Insert(sleeping, e)
    BY <2>1, <2>2, InsertTypes
  <2>4. \A who, ms : Has(sleeping', who, ms) <=> Has(sleeping, who, ms) \/ (who = t /\ ms = now + delta)
    BY <2>1, <2>3, InsertHas
  <2>5. t \notin early => ~ \E i \in DOMAIN sleeping : sleeping[i].who = t
    BY <2>2, HasWho DEF EntryOK
  <2>6. Once(sleeping', early')
    BY <2>1, <2>2, <2>3, <2>5, InsertHas
  <2>7. SleepersQueued'
    BY <2>2, <2>4, QueuedIs, QueuedNext DEF SleepersQueued
  <2>8. Queued(None) => Queued(None)'
    BY <2>4, QueuedIs, QueuedNext
  <2>9. EntryOK'
    <3> SUFFICES ASSUME NEW u \in Threads \ early, NEW ms, Has(sleeping', u, ms)
                 PROVE  asleep'[u] /\ ms = until'[u]
      BY <2>2 DEF EntryOK
    <3>1. CASE u = t
      <4>1. ~ Has(sleeping, u, ms)
        BY <2>5, <3>1, HasWho
      <4>2. asleep'[t] /\ until'[t] = now + delta
        BY <2>2
      <4> QED BY <2>4, <3>1, <4>1, <4>2
    <3>2. CASE u # t
      <4>1. asleep'[u] = asleep[u] /\ until'[u] = until[u]
        BY <2>2, <3>2
      <4>2. Has(sleeping, u, ms)
        BY <2>4, <3>2
      <4> QED BY <4>1, <4>2 DEF EntryOK
    <3> QED BY <3>1, <3>2
  <2>10. SleepsLongEnough'
    BY <2>2 DEF SleepsLongEnough
  <2> QED BY <2>2, <2>3, <2>6, <2>7, <2>8, <2>9, <2>10
<1>2. ASSUME NEW t \in Threads, WakeEarly(t)  PROVE QueueInv'
  BY <1>2 DEF WakeEarly, SleepersQueued, Queued, Once, EntryOK, SleepsLongEnough
<1>3. CASE WriteBlocks
  <2> DEFINE e == Entry(None, now + Period, Period)
  <2>1. e \in Entries /\ e.who = None /\ e.ms = now + Period
    BY DEF Entry, Entries
  <2> HIDE DEF e
  <2>2. /\ expiring = None /\ repeating'
        /\ UNCHANGED <<now, signalTimer, expiring, asleep, until, early>>
    BY <1>3 DEF WriteBlocks
  <2>3. CASE Queued(None) /\ UNCHANGED <<sleeping, itimer>>
    BY <2>2, <2>3 DEF SleepersQueued, Queued, Once, EntryOK, SleepsLongEnough
  <2>4. CASE ~ Queued(None) /\ TimerInsert(sleeping, e, now)
    <3>1. TypesInv' /\ sleeping' = Insert(sleeping, e)
      BY <2>1, <2>2, <2>4, InsertTypes
    <3>2. \A who, ms : Has(sleeping', who, ms) <=> Has(sleeping, who, ms) \/ (who = None /\ ms = now + Period)
      BY <2>1, <3>1, InsertHas
    <3>3. Once(sleeping', early')
      BY <2>1, <2>2, <2>4, <3>1, InsertHas DEF Queued
    <3>4. SleepersQueued' /\ Queued(None)'
      BY <2>2, <3>2, QueuedIs, QueuedNext DEF SleepersQueued
    <3>5. EntryOK' /\ SleepsLongEnough'
      BY <2>2, <3>2 DEF EntryOK, SleepsLongEnough
    <3> QED BY <2>2, <3>1, <3>3, <3>4, <3>5
  <2> QED BY <1>3, <2>3, <2>4 DEF WriteBlocks, e
<1>4. CASE WriteUnblocks
  BY <1>4 DEF WriteUnblocks, SleepersQueued, Queued, Once, EntryOK, SleepsLongEnough
<1>5. CASE Tick
  <2>1. /\ now' = now + 1 /\ itimer' \in {itimer, None} /\ signalTimer' \in {signalTimer, TRUE}
        /\ UNCHANGED <<sleeping, expiring, asleep, until, early, repeating>>
    BY <1>5 DEF Tick
  <2>2. (now' < MaxTime => now < MaxTime) /\ (expiring # None => expiring <= now')
    BY <2>1
  <2>3. TypesInv'
    <3>1. now' \in Nat
      BY <2>1
    <3>2. itimer' \in Int \cup {None} /\ signalTimer' \in BOOLEAN
      BY <2>1, Zenon
    <3> QED BY <2>1, <3>1, <3>2
  <2>4. SleepersQueued' /\ Once(sleeping, early)' /\ EntryOK' /\ Queued(None)' = Queued(None)
    BY <2>1 DEF SleepersQueued, Queued, Once, EntryOK
  <2>5. SleepsLongEnough'
    BY <2>1 DEF SleepsLongEnough
  <2> QED BY <2>1, <2>2, <2>3, <2>4, <2>5
<1>6. CASE TimerInterrupt
  <2>1. /\ expiring' = now /\ signalTimer' = FALSE
        /\ UNCHANGED <<now, sleeping, itimer, asleep, until, early, repeating>>
    BY <1>6 DEF TimerInterrupt
  <2>2. TypesInv'
    BY <2>1
  <2>3. SleepersQueued' /\ Once(sleeping, early)' /\ EntryOK' /\ Queued(None)' = Queued(None)
    BY <2>1 DEF SleepersQueued, Queued, Once, EntryOK
  <2>4. SleepsLongEnough'
    BY <2>1 DEF SleepsLongEnough
  <2> QED BY <2>1, <2>2, <2>3, <2>4
<1>7. CASE SleepDone
  <2> DEFINE t == Head(sleeping).who
             ms == Head(sleeping).ms
  <2>1. /\ sleeping # <<>> /\ expiring \in Nat /\ expiring >= ms /\ expiring <= now
        /\ asleep' = [asleep EXCEPT ![t] = FALSE] /\ sleeping' = Tail(sleeping) /\ t # None
        /\ UNCHANGED <<now, itimer, signalTimer, expiring, until, early, repeating>>
    BY <1>7 DEF SleepDone, Due
  <2>2. Head(sleeping) \in Entries /\ sleeping' \in Seq(Entries)
    BY <2>1, TailHas
  <2>3. t \in Threads /\ ms \in Int
    BY <2>1, <2>2 DEF Entries
  <2>4. /\ \A who, n : Has(sleeping, who, n) <=> Has(sleeping', who, n) \/ (who = t /\ n = ms)
        /\ Once(sleeping', early')
        /\ t \notin early => \A n : ~ Has(sleeping', t, n)
    BY <2>1, TailHas
  <2> HIDE DEF t, ms
  <2>5. TypesInv'
    BY <2>1, <2>2
  <2>6. \A who : who # t /\ Queued(who) => Queued(who)'
    BY <2>4, QueuedIs, QueuedNext
  <2>7. SleepersQueued'
    BY <2>1, <2>3, <2>6 DEF SleepersQueued
  <2>8. EntryOK'
    BY <2>1, <2>3, <2>4 DEF EntryOK
  <2>9. SleepsLongEnough'
    <3>1. t \notin early => until[t] = ms
      BY <2>3, <2>4 DEF EntryOK
    <3> QED BY <2>1, <2>3, <3>1 DEF SleepsLongEnough
  <2> QED BY <2>1, <2>4, <2>5, <2>6, <2>7, <2>8, <2>9
<1>8. CASE IoTimeout
  <2> DEFINE h == Head(sleeping)
             e == Entry(None, h.ms + h.incr, h.incr)
  <2>1. /\ sleeping # <<>> /\ expiring \in Nat /\ h.who = None
        /\ UNCHANGED <<now, signalTimer, expiring, asleep, until, early, repeating>>
    BY <1>8 DEF IoTimeout, Due
  <2>2. h \in Entries /\ Tail(sleeping) \in Seq(Entries)
    BY <2>1, TailHas
  <2>3. /\ \A who, n : Has(sleeping, who, n) <=> Has(Tail(sleeping), who, n) \/ (who = h.who /\ n = h.ms)
        /\ Once(Tail(sleeping), early)
        /\ \A n : ~ Has(Tail(sleeping), None, n)
    BY <2>1, TailHas
  <2>4. e \in Entries /\ e.who = None
    BY <2>2 DEF Entry, Entries
  <2>5. CASE repeating /\ now < MaxTime
    <3>1. TimerInsert(Tail(sleeping), e, expiring)
      BY <1>8, <2>5 DEF IoTimeout
    <3> HIDE DEF h, e
    <3>2. TypesInv' /\ sleeping' = Insert(Tail(sleeping), e)
      <4>1. now \in Int /\ expiring \in Int
        BY <2>1
      <4>2. sleeping' \in Seq(Entries) /\ itimer' \in Int \cup {None} /\ sleeping' = Insert(Tail(sleeping), e)
        BY <2>2, <2>4, <3>1, <4>1, InsertTypes
      <4> QED BY <2>1, <4>2
    <3>3. \A who, n : Has(sleeping', who, n) <=> Has(Tail(sleeping), who, n) \/ (who = None /\ n = e.ms)
      BY <2>2, <2>4, <3>2, InsertHas
    <3>4. Once(sleeping', early')
      <4>1. ~ \E i \in DOMAIN Tail(sleeping) : Tail(sleeping)[i].who = e.who
        BY <2>3, <2>4, HasWho
      <4> QED BY <2>1, <2>2, <2>3, <2>4, <3>2, <4>1, InsertHas
    <3>5. \A who, n : who # None => (Has(sleeping', who, n) <=> Has(sleeping, who, n))
      BY <2>1, <2>3, <3>3
    <3>6. SleepersQueued' /\ Queued(None)'
      BY <2>1, <3>3, <3>5, QueuedIs, QueuedNext DEF SleepersQueued
    <3>7. EntryOK' /\ SleepsLongEnough'
      BY <2>1, <3>5 DEF EntryOK, SleepsLongEnough
    <3> QED BY <2>1, <3>2, <3>4, <3>6, <3>7
  <2>6. CASE ~ (repeating /\ now < MaxTime)
    <3>1. sleeping' = Tail(sleeping) /\ UNCHANGED itimer
      BY <1>8, <2>6 DEF IoTimeout
    <3> HIDE DEF h, e
    <3>2. \A who, n : who # None => (Has(sleeping', who, n) <=> Has(sleeping, who, n))
      BY <2>1, <2>3, <3>1
    <3>3. SleepersQueued'
      BY <2>1, <3>2, QueuedIs, QueuedNext DEF SleepersQueued
    <3>4. EntryOK' /\ SleepsLongEnough'
      BY <2>1, <3>2 DEF EntryOK, SleepsLongEnough
    <3>5. TypesInv' /\ Once(sleeping', early')
      BY <2>1, <2>2, <2>3, <3>1
    <3> QED BY <2>1, <2>6, <3>1, <3>3, <3>4, <3>5
  <2> QED BY <2>5, <2>6
<1>9. CASE TimerDone
  <2>1. /\ expiring' = None /\ UNCHANGED <<now, sleeping, signalTimer, asleep, until, early, repeating>>
        /\ expiring \in Nat
        /\ itimer' = IF sleeping = <<>> THEN itimer ELSE TimerSet(Head(sleeping).ms, expiring)
    BY <1>9 DEF TimerDone
  <2>2. itimer' \in Int \cup {None}
    <3>1. sleeping # <<>> => Head(sleeping).ms \in Int
      BY TailHas DEF Entries
    <3> QED BY <2>1, <3>1, TimerSetIs
  <2> QED BY <2>1, <2>2 DEF SleepersQueued, Queued, Once, EntryOK, SleepsLongEnough
<1>10. CASE UNCHANGED vars
  BY <1>10 DEF vars, SleepersQueued, Queued, Once, EntryOK, SleepsLongEnough
<1> QED BY <1>1, <1>2, <1>3, <1>4, <1>5, <1>6, <1>7, <1>8, <1>9, <1>10 DEF Next, Handle

\* A sleep of a thread none of whose sleeps has been ended by a signal lasts at
\* least as long as it should (do_sleep, _sleepDone), whatever other threads and
\* the poll of blocked output put into the queue.
THEOREM NoShortSleep == Spec => []SleepsLongEnough
<1>1. QueueInv => SleepsLongEnough
  BY DEF QueueInv
<1> QED BY <1>1, InitQueue, NextQueue, PTL DEF Spec

-----------------------------------------------------------------------------
(* The interval timer *)

LEMMA InsertArmed ==
  ASSUME QueueInv, TimerArmed, expiring = None, expiring' = None, UNCHANGED signalTimer,
         NEW e \in Entries, e.ms # now, TimerInsert(sleeping, e, now)
  PROVE  TimerArmed'
<1>1. CASE Place(sleeping, e) = 1
  BY <1>1, TimerSetIs DEF TimerInsert, TimerArmed, QueueInv, TypesInv, Entries
<1>2. CASE Place(sleeping, e) # 1
  <2>1. sleeping # <<>>
    <3>1. Place(sleeping, e) \in 1..(Len(sleeping) + 1)
      BY InsertIs DEF QueueInv, TypesInv
    <3>2. Len(sleeping) \in Nat /\ (sleeping = <<>> => Len(sleeping) = 0)
      BY LenProperties, EmptySeq DEF QueueInv, TypesInv
    <3> QED BY <1>2, <3>1, <3>2
  <2> QED BY <1>2, <2>1 DEF TimerInsert, TimerArmed
<1> QED BY <1>1, <1>2

LEMMA NextArmed ==
  ASSUME 0 \notin Deltas, QueueInv, TimerArmed, [Next]_vars
  PROVE  TimerArmed'
<1> USE TimersConstants DEF QueueInv, TypesInv
<1>1. ASSUME NEW t \in Threads, NEW delta \in Deltas, Sleep(t, delta)  PROVE TimerArmed'
  <2>1. /\ Entry(t, now + delta, 0) \in Entries /\ Entry(t, now + delta, 0).ms # now
    BY DEF Entry, Entries
  <2> QED BY <1>1, <2>1, InsertArmed DEF Sleep
<1>2. CASE WriteBlocks
  <2>1. /\ Entry(None, now + Period, Period) \in Entries
        /\ Entry(None, now + Period, Period).ms # now
    BY DEF Entry, Entries
  <2> QED BY <1>2, <2>1, InsertArmed DEF WriteBlocks, TimerArmed
<1>3. CASE TimerDone
  <2>1. ASSUME sleeping # <<>>  PROVE itimer' # None
    <3>1. Head(sleeping).ms \in Int /\ expiring \in Nat /\ Head(sleeping).ms # expiring
      <4>1. expiring \in Nat /\ ~ (expiring >= Head(sleeping).ms)
        BY <1>3, <2>1 DEF TimerDone, Due
      <4>2. Head(sleeping) \in Entries
        BY <2>1, TailHas
      <4> QED BY <4>1, <4>2 DEF Entries
    <3> QED BY <1>3, <2>1, <3>1, TimerSetIs DEF TimerDone
  <2> QED BY <1>3, <2>1 DEF TimerDone, TimerArmed
<1>4. CASE Tick
  BY <1>4 DEF Tick, TimerArmed
<1>5. ASSUME \/ \E t \in Threads : WakeEarly(t)
             \/ WriteUnblocks \/ TimerInterrupt \/ SleepDone \/ IoTimeout \/ UNCHANGED vars
      PROVE  TimerArmed'
  BY <1>5 DEF WakeEarly, WriteUnblocks, TimerInterrupt, SleepDone, IoTimeout, vars, TimerArmed
<1> QED BY <1>1, <1>2, <1>3, <1>4, <1>5 DEF Next, Handle

\* No entry is left behind in the queue: each sleeper and the poll of blocked
\* output is queued, and while the queue is not empty the interval timer is on or
\* SIGALRM has come, in a program without sleep (0). setitimer takes the delta 0 of
\* such a sleep at the head of the queue as an order to turn the timer off.
THEOREM Served ==
  ASSUME 0 \notin Deltas
  PROVE  Spec => []EntriesServed
<1>1. Init => QueueInv /\ TimerArmed
  BY InitQueue DEF Init, TimerArmed
<1>2. QueueInv /\ TimerArmed /\ [Next]_vars => (QueueInv /\ TimerArmed)'
  BY NextQueue, NextArmed
<1>3. QueueInv /\ TimerArmed => EntriesServed
  <2> SUFFICES ASSUME QueueInv, TimerArmed  PROVE EntriesServed
    OBVIOUS
  <2>1. \A i \in DOMAIN sleeping : sleeping[i] \in Entries
    BY ElementOfSeq, LenProperties DEF QueueInv, TypesInv
  <2>2. None \notin early
    BY TimersConstants DEF QueueInv, TypesInv
  <2> QED BY <2>1, <2>2 DEF EntriesServed, TimersTypeOK, OneIoTimeout, QueueInv, TypesInv, Once,
                            Entries
<1> QED BY <1>1, <1>2, <1>3, PTL DEF Spec

=============================================================================
