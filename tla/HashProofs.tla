----------------------------- MODULE HashProofs -----------------------------
(***************************************************************************)
(* Proofs about Hash: that every entry is found in any table that the      *)
(* operations can make, that it is counted right, and that the table is    *)
(* the mapping that Map describes.                                         *)
(***************************************************************************)
EXTENDS Hash, FiniteSetTheorems, FunctionTheorems, SequenceTheorems,
        WellFoundedInduction, TLAPS

-----------------------------------------------------------------------------
(* Recursion over 0..n *)

LEMMA Least ==
  ASSUME NEW S \in SUBSET Nat, S # {}
  PROVE  \E i \in S : \A j \in S : i <= j
<1> DEFINE upto(i) == {j \in S : j <= i}
           U == {upto(i) : i \in S}
<1>1. \A j \in S : j \in Nat
  OBVIOUS
<1>2. ASSUME NEW i \in S  PROVE upto(i) \in FiniteSubsetsOf(S)
  <2>1. i \in Nat /\ \A j \in S : j <= i => j \in 0..i
    BY <1>1
  <2>2. upto(i) \subseteq 0..i
    BY <2>1
  <2>3. IsFiniteSet(0..i)
    BY <2>1, FS_Interval
  <2> HIDE DEF upto
  <2>4. IsFiniteSet(upto(i))
    BY <2>2, <2>3, FS_Subset
  <2> QED BY <2>4 DEF FiniteSubsetsOf, upto
<1>3. PICK m \in U : \A u \in U : ~ (<<u, m>> \in StrictSubsetOrdering(S))
  <2>1. U \subseteq FiniteSubsetsOf(S) /\ U # {}
    BY <1>2
  <2> HIDE DEF U
  <2> QED BY <2>1, FS_StrictSubsetOrderingWellFounded, WFMin, Zenon
<1>4. PICK i \in S : m = upto(i)
  BY <1>3
<1>5. ASSUME NEW j \in S, j < i  PROVE FALSE
  <2>1. (\A x \in S : x <= j => x <= i) /\ i <= i /\ ~ (i <= j)
    BY <1>1, <1>5
  <2>2. upto(j) \subseteq upto(i) /\ i \in upto(i) /\ i \notin upto(j)
    BY <2>1
  <2>3. <<upto(j), upto(i)>> \in StrictSubsetOrdering(S)
    BY <2>2 DEF StrictSubsetOrdering
  <2> QED BY <1>3, <1>4, <2>3
<1> QED BY <1>1, <1>5

LEMMA UpTo ==
  ASSUME NEW n \in Nat, NEW S, 0 \in S, \A i \in 1..n : i - 1 \in S => i \in S
  PROVE  \A i \in 0..n : i \in S
<1> DEFINE left == {i \in 0..n : i \notin S}
<1> SUFFICES ASSUME left # {}  PROVE FALSE
  OBVIOUS
<1>1. PICK i \in left : \A j \in left : i <= j
  <2>1. left \in SUBSET Nat
    OBVIOUS
  <2> QED BY <2>1, Least
<1>2. i \in 1..n /\ i - 1 \in 0..n /\ ~ (i <= i - 1)
  BY <1>1
<1> QED BY <1>1, <1>2

Runs(f, n, first, step) == f[0] = first /\ \A i \in 1..n : f[i] = step[<<i, f[i - 1]>>]

\* A function on 0..n can be defined by its value at 0 and a step.
LEMMA Recursion ==
  ASSUME NEW n \in Nat, NEW T, NEW first \in T, NEW step \in [(1..n) \X T -> T]
  PROVE  \E f \in [0..n -> T] : Runs(f, n, first, step)
<1> DEFINE Defines(m, f) == /\ f \in [0..m -> T] /\ f[0] = first
                            /\ \A i \in 1..m : f[i] = step[<<i, f[i - 1]>>]
           S == {m \in 0..n : \E f : Defines(m, f)}
<1>1. 0 \in S
  <2> DEFINE f == [i \in 0..0 |-> first]
  <2>1. f \in [0..0 -> T] /\ f[0] = first /\ 1..0 = {}
    OBVIOUS
  <2> HIDE DEF f
  <2>2. Defines(0, f)
    BY <2>1
  <2> QED BY <2>2
<1>2. ASSUME NEW m \in 1..n, m - 1 \in S  PROVE m \in S
  <2>1. PICK f : Defines(m - 1, f)
    BY <1>2
  <2> DEFINE g == [i \in 0..m |-> IF i = m THEN step[<<m, f[m - 1]>>] ELSE f[i]]
  <2>2. \A i \in 0..m : i # m => i \in 0..m-1
    OBVIOUS
  <2>3. f[m - 1] \in T
    BY <2>1
  <2>4. g \in [0..m -> T]
    BY <2>1, <2>2, <2>3
  <2>5. g[0] = first
    BY <2>1
  <2>6. ASSUME NEW i \in 1..m  PROVE g[i] = step[<<i, g[i - 1]>>]
    <3>1. i - 1 \in 0..m /\ i - 1 # m /\ g[i - 1] = f[i - 1] /\ (i # m => i \in 1..m-1)
      OBVIOUS
    <3>2. CASE i = m
      BY <3>1, <3>2
    <3>3. CASE i # m
      <4>1. g[i] = f[i] /\ f[i] = step[<<i, f[i - 1]>>]
        BY <2>1, <3>1, <3>3
      <4> QED BY <3>1, <4>1
    <3> QED BY <3>2, <3>3
  <2>7. Defines(m, g)
    <3> HIDE DEF g
    <3> QED BY <2>4, <2>5, <2>6
  <2>8. m \in 0..n
    OBVIOUS
  <2> HIDE DEF g
  <2>9. \E d : Defines(m, d)
    BY <2>7
  <2> HIDE DEF Defines
  <2> QED BY <2>8, <2>9
<1>3. n \in S
  <2>1. \A m \in 1..n : m - 1 \in S => m \in S
    BY <1>2
  <2>2. n \in 0..n
    OBVIOUS
  <2> HIDE DEF S
  <2> QED BY <1>1, <2>1, <2>2, UpTo
<1> QED BY <1>3 DEF Runs

-----------------------------------------------------------------------------
(* Chains *)

\* Numbers with the same rest differ by a multiple.
LEMMA SameRest ==
  ASSUME NEW n \in Nat \ {0}, NEW a \in Nat, NEW b \in Nat, a <= b, a % n = b % n
  PROVE  (b - a) % n = 0
<1>1. \A x \in Nat : /\ x \div n \in Nat /\ x % n \in 0..(n - 1)
                     /\ x = (x \div n) * n + (x % n)
  BY SMT
<1>2. PICK p \in Nat, q \in Nat, m \in 0..(n - 1) : a = p * n + m /\ b = q * n + m
  <2>1. a \div n \in Nat /\ a % n \in 0..(n - 1) /\ a = (a \div n) * n + (a % n)
    BY ONLY <1>1, a \in Nat, Zenon
  <2>2. b \div n \in Nat /\ b = (b \div n) * n + (a % n)
    BY ONLY <1>1, b \in Nat, a % n = b % n, Zenon
  <2> QED BY ONLY <2>1, <2>2, Zenon
<1>3. PICK d \in Nat : d = b - a
  OBVIOUS
<1>4. PICK e \in Nat, f \in 0..(n - 1) : d = e * n + f /\ f = d % n
  BY ONLY <1>1, <1>3, Zenon
<1>5. PICK w \in Int : w = q - p - e
  OBVIOUS
<1>6. w * n = f
  <2>1. q * n - p * n = e * n + f
    BY <1>2, <1>3, <1>4
  <2>2. w * n = q * n - p * n - e * n
    BY ONLY <1>2, <1>4, <1>5, n \in Nat \ {0}, SMT
  <2>3. q * n \in Int /\ p * n \in Int /\ e * n \in Int
    BY ONLY <1>2, <1>4, n \in Nat \ {0}, SMT
  <2> QED BY <1>4, <2>1, <2>2, <2>3
<1>7. w >= 1 => w * n >= n
  BY ONLY <1>5, n \in Nat \ {0}, SMT
<1>8. w <= 0 - 1 => w * n <= 0 - n
  BY ONLY <1>5, n \in Nat \ {0}, SMT
<1>9. f = 0
  <2>1. w = 0 => w * n = 0
    BY ONLY <1>5, n \in Nat \ {0}, SMT
  <2> QED BY <1>4, <1>5, <1>6, <1>7, <1>8, <2>1
<1> QED BY <1>3, <1>4, <1>9

LEMMA RowIs ==
  ASSUME NEW r \in DOMAIN HashSets
  PROVE  /\ HashSets[r].entries \in Nat \ {0} /\ HashSets[r].size \in Nat \ {0}
         /\ HashSets[r].rehash \in Nat \ {0}
         /\ HashSets[r].entries < HashSets[r].size /\ HashSets[r].rehash <= HashSets[r].size
         /\ \A a, b \in 1 .. HashSets[r].size - 1 : (a * b) % HashSets[r].size # 0
<1>1. HashSets[r] \in [entries : Nat \ {0}, size : Nat \ {0}, rehash : Nat \ {0}]
  <2>1. PICK T : T = [entries : Nat \ {0}, size : Nat \ {0}, rehash : Nat \ {0}] /\ HashSets \in Seq(T)
    BY HashConstants
  <2>2. r \in 1..Len(HashSets)
    BY <2>1, LenProperties
  <2> QED BY <2>1, <2>2, ElementOfSeq
<1> QED BY <1>1, HashRows

\* A search visits every slot.
LEMMA ChainIs ==
  ASSUME NEW r \in DOMAIN HashSets, NEW k \in Keys
  PROVE  /\ Chain[r][k] \in [Slots(r) -> Slots(r)]
         /\ \A i, j \in Slots(r) : Chain[r][k][i] = Chain[r][k][j] => i = j
         /\ \A s \in Slots(r) : \E i \in Slots(r) : s = Chain[r][k][i]
<1>1. PICK n, h, rest, step :
        /\ n = HashSets[r].size /\ h = HashOf[k] /\ rest = h % HashSets[r].rehash
        /\ step = IF rest = 0 THEN 1 ELSE rest
  OBVIOUS
<1>2. PICK c : c = Chain[r][k]
  OBVIOUS
<1>3. n \in Nat \ {0} /\ h \in Nat /\ Slots(r) = 0..(n - 1) /\ step \in 1..(n - 1)
  <2>1. /\ HashSets[r].entries \in Nat \ {0} /\ n \in Nat \ {0} /\ HashSets[r].rehash \in Nat \ {0}
        /\ HashSets[r].entries < n /\ HashSets[r].rehash <= n
    BY <1>1, RowIs
  <2>2. h \in Nat
    BY <1>1, HashConstants
  <2>3. rest \in 0..(HashSets[r].rehash - 1)
    BY <1>1, <2>1, <2>2
  <2> QED BY <1>1, <2>1, <2>2, <2>3 DEF Slots
<1>4. c = [i \in Slots(r) |-> (h + i * step) % n]
  <2>1. c = [i \in Slots(r) |-> (h + i * (IF rest = 0 THEN 1 ELSE rest)) % n]
    BY <1>1, <1>2 DEF Chain
  <2> QED BY <1>1, <2>1
<1>5. \A i \in 0..(n - 1) : i * step \in Nat /\ (h + i * step) % n \in 0..(n - 1)
  <2>1. \A i \in 0..(n - 1) : i * step \in Nat
    BY ONLY <1>3, SMT
  <2> QED BY <1>3, <2>1
<1>6. c \in [Slots(r) -> Slots(r)]
  BY <1>3, <1>4, <1>5
<1>7. ASSUME NEW i \in 0..(n - 1), NEW j \in 0..(n - 1), c[i] = c[j], i < j  PROVE FALSE
  <2>1. PICK a \in Nat, b \in Nat, d \in 1..(n - 1) :
          a = h + i * step /\ b = h + j * step /\ d = j - i
    BY <1>3, <1>5, <1>7
  <2>2. a % n = b % n
    BY <1>3, <1>4, <1>7, <2>1
  <2>3. j * step - i * step = d * step
    BY ONLY <1>3, <1>7, <2>1, SMT
  <2>4. d * step \in Nat
    BY ONLY <1>3, <2>1, SMT
  <2>5. a <= b /\ b - a = d * step
    BY <1>3, <1>5, <1>7, <2>1, <2>3, <2>4
  <2>6. (d * step) % n = 0
    <3>1. (b - a) % n = 0
      BY ONLY <1>3, <2>1, <2>2, <2>5, SameRest
    <3> QED BY <2>5, <3>1
  <2> QED BY <1>1, <1>3, <2>1, <2>6, RowIs
<1>8. \A i, j \in Slots(r) : c[i] = c[j] => i = j
  BY <1>3, <1>7
<1>9. \A s \in Slots(r) : \E i \in Slots(r) : s = c[i]
  <2>1. IsFiniteSet(Slots(r))
    BY <1>3, FS_Interval
  <2>2. PICK S : S = Slots(r)
    OBVIOUS
  <2>3. c \in Injection(S, S)
    BY <1>6, <1>8, <2>2 DEF Injection, IsInjective
  <2>4. c \in Surjection(S, S)
    BY <2>1, <2>2, <2>3, FS_Injection
  <2> QED BY <2>2, <2>4 DEF Surjection
<1> QED BY <1>2, <1>6, <1>8, <1>9

-----------------------------------------------------------------------------
(* Tables *)

EltType == [key : Keys \cup {None}, value : Values \cup {Void, None}]

\* The search for k goes past the first j slots of its chain.
Ahead(e, r, k, j) ==
  \A m \in 0..(j - 1) : e[Chain[r][k][m]].key # k /\ e[Chain[r][k][m]] # Empty

\* No entry is behind the place where the search for its key ends.
Chained(e, r) == \A k \in Keys : \A j \in Slots(r) : e[Chain[r][k][j]].key = k => Ahead(e, r, k, j)

TableOK(e, r) == r \in DOMAIN HashSets /\ e \in [Slots(r) -> EltType] /\ Chained(e, r)

\* No slot that is not in use has a value that an assignment has left there.
Clean(e, r) == \A i \in Slots(r) : e[i].key = None => e[i].value \in {None, Void}

Room(e, r) == \E i \in Slots(r) : ~ Valid(e, i)

\* f is where an entry for k is or can be put.
Fits(e, r, k, f) ==
  /\ f \in Slots(r) /\ \E j \in Slots(r) : f = Chain[r][k][j] /\ Ahead(e, r, k, j)
  /\ e[f].key = k \/ (e[f].key = None /\ \A i \in Slots(r) : e[i].key # k)

LEMMA SlotsIs ==
  ASSUME NEW r \in DOMAIN HashSets
  PROVE  \E n \in Nat \ {0} : n = HashSets[r].size /\ Slots(r) = 0..(n - 1)
BY RowIs DEF Slots

LEMMA FirstIs ==
  ASSUME NEW S \in SUBSET Nat, S # {}
  PROVE  First(S) \in S /\ \A j \in S : First(S) <= j
<1>1. \E i \in S : \A j \in S : i <= j
  BY Least
<1> QED BY <1>1 DEF First

LEMMA KeyIsNotNone == \A k \in Keys : k # None
BY HashConstants

LEMMA FindIs ==
  ASSUME NEW e, NEW r, TableOK(e, r), Room(e, r), NEW k \in Keys
  PROVE  Fits(e, r, k, Find(e, r, k))
<1>1. r \in DOMAIN HashSets /\ e \in [Slots(r) -> EltType] /\ Chained(e, r)
  BY DEF TableOK
<1>2. PICK n \in Nat \ {0} : Slots(r) = 0..(n - 1)
  BY <1>1, SlotsIs
<1>3. PICK c : c = Chain[r][k]
  OBVIOUS
<1>4. /\ c \in [Slots(r) -> Slots(r)] /\ \A i, j \in Slots(r) : c[i] = c[j] => i = j
      /\ \A s \in Slots(r) : \E i \in Slots(r) : s = c[i]
  BY <1>1, <1>3, ChainIs
<1>5. PICK ends : ends = {i \in Slots(r) : e[c[i]].key = k \/ e[c[i]] = Empty}
  OBVIOUS
<1>6. PICK end : end = First(ends)
  OBVIOUS
<1>7. PICK dels : dels = {i \in Slots(r) : Deleted(e, c[i]) /\ (ends = {} \/ i < end)}
  OBVIOUS
<1>8. PICK f : f = Find(e, r, k)
  OBVIOUS
<1>9. f = IF dels = {} \/ (ends # {} /\ e[c[end]].key = k) THEN c[end] ELSE c[First(dels)]
  BY <1>3, <1>5, <1>6, <1>7, <1>8 DEF Find
<1>10. ends \in SUBSET Nat /\ dels \in SUBSET Nat
  BY <1>2, <1>5, <1>7
<1>11. ends # {} => end \in ends /\ \A i \in ends : end <= i
  BY <1>6, <1>10, FirstIs
<1>12. dels # {} => First(dels) \in dels /\ \A i \in dels : First(dels) <= i
  BY <1>10, FirstIs
<1>13. \A i \in Slots(r) : e[i] \in EltType /\ (e[i] = Empty <=> e[i].key = None /\ e[i].value = None)
  BY <1>1 DEF EltType, Empty, Slot
<1>14. ends # {} \/ dels # {}
  <2>1. PICK i \in Slots(r) : e[i].key = None
    BY DEF Room, Valid
  <2>2. PICK j \in Slots(r) : i = c[j]
    BY <1>4
  <2>3. e[i] = Empty \/ Deleted(e, i)
    BY <1>13, <2>1 DEF Deleted
  <2> QED BY <1>5, <1>7, <2>2, <2>3
<1>15. ASSUME NEW j \in Slots(r), c[j] = f, Ahead(e, r, k, j),
              e[f].key = k \/ (e[f].key = None /\ \A i \in Slots(r) : e[i].key # k)
       PROVE  Fits(e, r, k, f)
  <2>1. f \in Slots(r)
    BY <1>4, <1>15
  <2> QED BY <1>3, <1>15, <2>1 DEF Fits
<1>16. ASSUME ends # {}, NEW i \in Slots(r), e[i].key = k
       PROVE  e[c[end]].key = k
  <2>1. PICK j \in Slots(r) : i = c[j]
    BY <1>4
  <2>2. j \in ends /\ end \in ends /\ end <= j /\ end \in 0..(n - 1) /\ j \in 0..(n - 1)
    BY <1>2, <1>5, <1>11, <1>16, <2>1
  <2>3. Ahead(e, r, k, j)
    BY <1>1, <1>3, <1>16, <2>1 DEF Chained
  <2>4. CASE end = j
    BY <1>16, <2>1, <2>4
  <2>5. CASE end # j
    <3>1. end \in 0..(j - 1)
      BY <2>2, <2>5
    <3>2. e[c[end]] # Empty
      BY <1>3, <2>3, <3>1 DEF Ahead
    <3> QED BY <1>5, <2>2, <3>2
  <2> QED BY <2>4, <2>5
<1>17. CASE ends # {} /\ e[c[end]].key = k
  <2>1. end \in Slots(r) /\ f = c[end]
    BY <1>5, <1>9, <1>11, <1>17
  <2>2. Ahead(e, r, k, end)
    <3>1. ASSUME NEW m \in 0..(end - 1)  PROVE e[c[m]].key # k /\ e[c[m]] # Empty
      <4>1. m \in Slots(r) /\ ~ (end <= m)
        BY <1>2, <2>1
      <4> QED BY <1>5, <1>11, <1>17, <4>1
    <3> QED BY <1>3, <3>1 DEF Ahead
  <2> QED BY <1>8, <1>15, <1>17, <2>1, <2>2
<1>18. CASE dels = {} /\ ~ (ends # {} /\ e[c[end]].key = k)
  <2>1. end \in Slots(r) /\ f = c[end] /\ e[f] = Empty /\ ends # {}
    BY <1>5, <1>9, <1>11, <1>14, <1>18
  <2>2. e[f].key = None /\ \A i \in Slots(r) : e[i].key # k
    BY <1>4, <1>13, <1>16, <1>18, <2>1
  <2>3. Ahead(e, r, k, end)
    <3>1. ASSUME NEW m \in 0..(end - 1)  PROVE e[c[m]].key # k /\ e[c[m]] # Empty
      <4>1. m \in Slots(r) /\ ~ (end <= m)
        BY <1>2, <2>1
      <4> QED BY <1>5, <1>11, <2>1, <4>1
    <3> QED BY <1>3, <3>1 DEF Ahead
  <2> QED BY <1>8, <1>15, <2>1, <2>2, <2>3
<1>19. CASE dels # {} /\ ~ (ends # {} /\ e[c[end]].key = k)
  <2>1. PICK d : d = First(dels)
    OBVIOUS
  <2>2. /\ d \in Slots(r) /\ f = c[d] /\ Deleted(e, f) /\ (ends = {} \/ d < end)
        /\ \A i \in dels : d <= i
    BY <1>7, <1>9, <1>12, <1>19, <2>1
  <2>3. \A i \in Slots(r) : e[i].key # k
    <3>1. CASE ends = {}
      BY <1>4, <1>5, <3>1
    <3>2. CASE ends # {}
      BY <1>16, <1>19, <3>2
    <3> QED BY <3>1, <3>2
  <2>4. Ahead(e, r, k, d)
    <3>1. ASSUME NEW m \in 0..(d - 1)  PROVE e[c[m]].key # k /\ e[c[m]] # Empty
      <4>1. m \in Slots(r) /\ m < d
        BY <1>2, <2>2
      <4>2. m \notin ends
        <5>1. CASE ends = {}
          BY <5>1
        <5>2. CASE ends # {}
          <6>1. end \in Slots(r) /\ d < end /\ (m \in ends => end <= m)
            BY <1>5, <1>11, <2>2, <5>2
          <6>2. end \in Nat /\ m \in Nat /\ d \in Nat
            BY <1>2, <2>2, <4>1, <6>1
          <6> QED BY <4>1, <6>1, <6>2
        <5> QED BY <5>1, <5>2
      <4> QED BY <1>5, <4>1, <4>2
    <3> QED BY <1>3, <3>1 DEF Ahead
  <2>5. e[f].key = None
    BY <2>2 DEF Deleted
  <2> QED BY <1>8, <1>15, <2>2, <2>3, <2>4, <2>5
<1> QED BY <1>17, <1>18, <1>19

LEMMA UniqueKey ==
  ASSUME NEW e, NEW r, TableOK(e, r), NEW i \in Slots(r), NEW j \in Slots(r), e[i].key \in Keys,
         e[i].key = e[j].key
  PROVE  i = j
<1>1. r \in DOMAIN HashSets /\ Chained(e, r)
  BY DEF TableOK
<1>2. PICK k \in Keys : k = e[i].key
  OBVIOUS
<1>3. PICK c : c = Chain[r][k]
  OBVIOUS
<1>4. PICK n \in Nat \ {0} : Slots(r) = 0..(n - 1)
  BY <1>1, SlotsIs
<1>5. PICK p \in Slots(r), q \in Slots(r) : i = c[p] /\ j = c[q]
  BY <1>1, <1>2, <1>3, ChainIs
<1>6. Ahead(e, r, k, p) /\ Ahead(e, r, k, q)
  BY <1>1, <1>2, <1>3, <1>5 DEF Chained
<1>7. ~ (p < q)
  <2>1. p < q => p \in 0..(q - 1)
    BY <1>4
  <2> QED BY <1>2, <1>3, <1>5, <1>6, <2>1 DEF Ahead
<1>8. ~ (q < p)
  <2>1. q < p => q \in 0..(p - 1)
    BY <1>4
  <2> QED BY <1>2, <1>3, <1>5, <1>6, <2>1 DEF Ahead
<1>9. p = q
  BY <1>4, <1>7, <1>8
<1> QED BY <1>5, <1>9

\* A slot may be deleted, get another value, or an entry that is searched for there.
LEMMA ChangeOK ==
  ASSUME NEW e, NEW r, TableOK(e, r), NEW f \in Slots(r), NEW s \in EltType, s # Empty,
         s.key = None \/ s.key = e[f].key \/ Fits(e, r, s.key, f),
         NEW d, d = [e EXCEPT ![f] = s]
  PROVE  TableOK(d, r)
<1>1. r \in DOMAIN HashSets /\ e \in [Slots(r) -> EltType] /\ Chained(e, r)
  BY DEF TableOK
<1>2. d \in [Slots(r) -> EltType] /\ d[f] = s /\ \A i \in Slots(r) : i # f => d[i] = e[i]
  BY <1>1
<1>3. PICK n \in Nat \ {0} : Slots(r) = 0..(n - 1)
  BY <1>1, SlotsIs
<1>4. ASSUME NEW k \in Keys, NEW j \in Slots(r), d[Chain[r][k][j]].key = k
      PROVE  Ahead(d, r, k, j)
  <2>1. PICK c : c = Chain[r][k]
    OBVIOUS
  <2>2. /\ c \in [Slots(r) -> Slots(r)] /\ \A a, b \in Slots(r) : c[a] = c[b] => a = b
        /\ \A m \in 0..(j - 1) : m \in Slots(r) /\ m # j
    <3>1. \A m \in 0..(j - 1) : m \in Slots(r) /\ m # j
      BY <1>3
    <3> QED BY <1>1, <2>1, <3>1, ChainIs
  <2>3. CASE c[j] = f
    <3>1. s.key = k /\ k # None
      BY <1>2, <1>4, <2>1, <2>3, KeyIsNotNone
    <3>2. Ahead(e, r, k, j)
      <4>1. CASE k = e[f].key
        BY <1>1, <2>1, <2>3, <4>1 DEF Chained
      <4>2. CASE Fits(e, r, k, f)
        BY <2>1, <2>2, <2>3, <4>2 DEF Fits
      <4> QED BY <3>1, <4>1, <4>2
    <3>3. \A m \in 0..(j - 1) : c[m] \in Slots(r) /\ c[m] # f
      BY <2>2, <2>3
    <3> QED BY <1>2, <2>1, <3>2, <3>3 DEF Ahead
  <2>4. CASE c[j] # f
    <3>1. e[c[j]].key = k /\ c[j] \in Slots(r)
      BY <1>2, <1>4, <2>1, <2>2, <2>4
    <3>2. Ahead(e, r, k, j)
      BY <1>1, <2>1, <3>1 DEF Chained
    <3>3. s.key # k
      <4>1. e[f].key # k
        BY <2>4, <3>1, UniqueKey
      <4>2. ~ Fits(e, r, k, f)
        BY <3>1, <4>1 DEF Fits
      <4> QED BY <4>1, <4>2, KeyIsNotNone
    <3>4. \A m \in 0..(j - 1) : c[m] \in Slots(r)
      BY <2>2
    <3>5. ASSUME NEW m \in 0..(j - 1)  PROVE d[c[m]].key # k /\ d[c[m]] # Empty
      <4>1. CASE c[m] = f
        BY <1>2, <3>3, <4>1
      <4>2. CASE c[m] # f
        <5>1. e[c[m]].key # k /\ e[c[m]] # Empty
          BY <2>1, <3>2 DEF Ahead
        <5> QED BY <1>2, <3>4, <4>2, <5>1
      <4> QED BY <4>1, <4>2
    <3> QED BY <2>1, <3>5 DEF Ahead
  <2> QED BY <2>3, <2>4
<1>5. Chained(d, r)
  BY <1>4 DEF Chained
<1> QED BY <1>1, <1>2, <1>5 DEF TableOK

-----------------------------------------------------------------------------
(* What is in a table *)

Content(e) == {e[i] : i \in ValidSlots(e)}

KeysOf(e) == {e[i].key : i \in ValidSlots(e)}

\* The slot in which the entry t is.
Has(e, r, t) == \E i \in Slots(r) : t = e[i] /\ e[i].key # None

LEMMA ContentIs ==
  ASSUME NEW e, NEW r, TableOK(e, r)
  PROVE  /\ \A t : t \in Content(e) <=> Has(e, r, t)
         /\ \A t \in Content(e) : t \in EltType /\ t.key \in Keys
         /\ \A k : k \in KeysOf(e) <=> \E t \in Content(e) : k = t.key
         /\ KeysOf(e) \subseteq Keys /\ ValidSlots(e) \subseteq Slots(r)
<1>1. e \in [Slots(r) -> EltType] /\ DOMAIN e = Slots(r)
  BY DEF TableOK
<1>2. \A t : t \in Content(e) <=> Has(e, r, t)
  BY <1>1 DEF Content, ValidSlots, Valid, Has
<1>3. \A i \in Slots(r) : e[i] \in EltType /\ (e[i].key # None => e[i].key \in Keys)
  BY <1>1 DEF EltType
<1>4. \A t \in Content(e) : t \in EltType /\ t.key \in Keys
  BY <1>2, <1>3 DEF Has
<1>5. \A k : k \in KeysOf(e) <=> \E t \in Content(e) : k = t.key
  BY DEF KeysOf, Content
<1> QED BY <1>1, <1>2, <1>4, <1>5 DEF ValidSlots

\* The table d has the entries of e, but s in place of the entry for its key.
Put(e, d, r, s) ==
  TableOK(d, r) /\ \A t : t \in Content(d) <=> t = s \/ (t \in Content(e) /\ t.key # s.key)

\* An entry for k replaces the one there was; nothing else changes.
LEMMA PutContent ==
  ASSUME NEW e, NEW r, TableOK(e, r), NEW k \in Keys, NEW f, Fits(e, r, k, f),
         NEW s \in EltType, s.key = k, NEW d, d = [e EXCEPT ![f] = s]
  PROVE  Put(e, d, r, s)
<1>1. /\ r \in DOMAIN HashSets /\ e \in [Slots(r) -> EltType] /\ f \in Slots(r)
      /\ e[f].key = k \/ (e[f].key = None /\ \A i \in Slots(r) : e[i].key # k)
  BY DEF TableOK, Fits
<1>2. s # Empty /\ k # None
  BY KeyIsNotNone DEF Empty, Slot
<1>3. TableOK(d, r)
  BY <1>1, <1>2, ChangeOK
<1>4. d[f] = s /\ \A i \in Slots(r) : i # f => d[i] = e[i]
  BY <1>1
<1>5. \A i \in Slots(r) : e[i].key # None => (i # f <=> e[i].key # k)
  <2>1. ASSUME NEW i \in Slots(r), i # f  PROVE e[i].key # k
    <3>1. CASE e[f].key = k
      BY <1>1, <2>1, <3>1, UniqueKey
    <3>2. CASE e[f].key # k
      BY <1>1, <3>2
    <3> QED BY <3>1, <3>2
  <2>2. e[f].key # None => e[f].key = k
    BY <1>1
  <2> QED BY <2>1, <2>2
<1>6. ASSUME NEW t  PROVE t \in Content(d) <=> t = s \/ (t \in Content(e) /\ t.key # k)
  <2>1. t \in Content(d) <=> Has(d, r, t)
    BY <1>3, ContentIs
  <2>2. t \in Content(e) <=> Has(e, r, t)
    BY ContentIs
  <2>3. t \in Content(d) <=> t = s \/ \E i \in Slots(r) : i # f /\ t = e[i] /\ e[i].key # None
    BY <1>1, <1>2, <1>4, <2>1 DEF Has
  <2> QED BY <1>5, <2>2, <2>3 DEF Has
<1> QED BY <1>3, <1>6 DEF Put

\* The table d has the entries of e, but none for k.
Cut(e, d, r, k) ==
  TableOK(d, r) /\ \A t : t \in Content(d) <=> t \in Content(e) /\ t.key # k

\* The slot of an entry for k is made a deleted one.
LEMMA DeleteContent ==
  ASSUME NEW e, NEW r, TableOK(e, r), NEW k \in Keys, NEW f \in Slots(r), e[f].key = k,
         NEW s \in EltType, s.key = None, s # Empty, NEW d, d = [e EXCEPT ![f] = s]
  PROVE  Cut(e, d, r, k)
<1>1. r \in DOMAIN HashSets /\ e \in [Slots(r) -> EltType]
  BY DEF TableOK
<1>2. TableOK(d, r)
  BY ChangeOK
<1>3. d[f] = s /\ \A i \in Slots(r) : i # f => d[i] = e[i]
  BY <1>1
<1>4. \A i \in Slots(r) : i # f <=> e[i].key # k
  BY UniqueKey
<1>5. ASSUME NEW t  PROVE t \in Content(d) <=> t \in Content(e) /\ t.key # k
  <2>1. t \in Content(d) <=> Has(d, r, t)
    BY <1>2, ContentIs
  <2>2. t \in Content(e) <=> Has(e, r, t)
    BY ContentIs
  <2>3. t \in Content(d) <=> \E i \in Slots(r) : i # f /\ t = e[i] /\ e[i].key # None
    BY <1>3, <2>1 DEF Has
  <2> QED BY <1>4, <2>2, <2>3 DEF Has
<1> QED BY <1>2, <1>5 DEF Cut

\* There is one entry for each key.
LEMMA CountIs ==
  ASSUME NEW e, NEW r, TableOK(e, r)
  PROVE  /\ IsFiniteSet(KeysOf(e)) /\ Cardinality(KeysOf(e)) \in Nat
         /\ Cardinality(ValidSlots(e)) = Cardinality(KeysOf(e))
         /\ Cardinality(KeysOf(e)) <= Cardinality(Keys)
<1>1. r \in DOMAIN HashSets /\ DOMAIN e = Slots(r) /\ e \in [Slots(r) -> EltType]
  BY DEF TableOK
<1>2. KeysOf(e) \subseteq Keys /\ ValidSlots(e) \subseteq Slots(r)
  BY ContentIs
<1>3. /\ IsFiniteSet(KeysOf(e)) /\ Cardinality(KeysOf(e)) \in Nat
      /\ Cardinality(KeysOf(e)) <= Cardinality(Keys)
  BY <1>2, HashKeysFit, FS_Subset, FS_CardinalityType
<1>4. IsFiniteSet(ValidSlots(e))
  <2>1. IsFiniteSet(Slots(r))
    BY <1>1, SlotsIs, FS_Interval
  <2> QED BY <1>2, <2>1, FS_Subset
<1>5. PICK A, B : A = ValidSlots(e) /\ B = KeysOf(e)
  OBVIOUS
<1>6. PICK g : g = [i \in A |-> e[i].key]
  OBVIOUS
<1>7. g \in [A -> B] /\ (\A k \in B : \E i \in A : k = g[i]) /\ \A i \in A : g[i] = e[i].key
  BY <1>5, <1>6 DEF KeysOf
<1>8. \A i, j \in A : g[i] = g[j] => i = j
  <2>1. \A i \in A : i \in Slots(r) /\ e[i].key \in Keys
    BY <1>2, <1>5 DEF KeysOf
  <2> QED BY <1>7, <2>1, UniqueKey
<1>9. g \in Bijection(A, B)
  BY <1>7, <1>8, Fun_IsBij DEF Bijection, Injection, Surjection, IsInjective
<1>10. ExistsBijection(A, B)
  BY <1>9 DEF ExistsBijection
<1>11. Cardinality(A) = Cardinality(B)
  BY <1>4, <1>5, <1>10, FS_Bijection
<1> QED BY <1>3, <1>5, <1>11

\* With fewer entries than slots there is a slot for another.
LEMMA RoomIs ==
  ASSUME NEW e, NEW r, TableOK(e, r), Cardinality(KeysOf(e)) < HashSets[r].size
  PROVE  Room(e, r)
<1>1. r \in DOMAIN HashSets /\ DOMAIN e = Slots(r)
  BY DEF TableOK
<1>2. PICK n \in Nat \ {0} : n = HashSets[r].size /\ Slots(r) = 0..(n - 1)
  BY <1>1, SlotsIs
<1>3. Cardinality(Slots(r)) = n
  BY <1>2, FS_Interval
<1>4. Cardinality(ValidSlots(e)) = Cardinality(KeysOf(e)) /\ Cardinality(KeysOf(e)) \in Nat
  BY CountIs
<1>5. ValidSlots(e) # Slots(r)
  BY <1>2, <1>3, <1>4
<1> QED BY <1>1, <1>5 DEF Room, ValidSlots

-----------------------------------------------------------------------------
(* Rehash *)

Blank(r) == [i \in Slots(r) |-> Empty]

\* The table after the entry of slot m - 1 has been moved.
Moves(e, r, m, new) ==
  IF Valid(e, m - 1) THEN [new EXCEPT ![Find(new, r, e[m - 1].key)] = e[m - 1]] ELSE new

RehashBy(f, e, r) ==
  LET n == Cardinality(DOMAIN e) IN
  /\ f[0] = Blank(r)
  /\ \A i \in 1..n : f[i] = Moves(e, r, i, f[i - 1])
  /\ Rehash(e, r) = f[n]

LEMMA BlankIs ==
  ASSUME NEW r \in DOMAIN HashSets
  PROVE  TableOK(Blank(r), r) /\ Content(Blank(r)) = {} /\ Clean(Blank(r), r)
<1>1. Empty \in EltType /\ Empty.key = None
  BY DEF Empty, Slot, EltType
<1>2. Blank(r) \in [Slots(r) -> EltType] /\ \A i \in Slots(r) : Blank(r)[i] = Empty
  BY <1>1 DEF Blank
<1>3. Chained(Blank(r), r)
  <2>1. ASSUME NEW k \in Keys, NEW j \in Slots(r)  PROVE Blank(r)[Chain[r][k][j]].key # k
    <3>1. Chain[r][k][j] \in Slots(r)
      BY ChainIs
    <3> QED BY <1>1, <1>2, <3>1, KeyIsNotNone
  <2> QED BY <2>1 DEF Chained
<1>4. TableOK(Blank(r), r)
  BY <1>2, <1>3 DEF TableOK
<1>5. \A t : t \notin Content(Blank(r))
  BY <1>1, <1>2, <1>4, ContentIs DEF Has
<1>6. Clean(Blank(r), r)
  BY <1>2 DEF Clean, Empty, Slot
<1> QED BY <1>4, <1>5, <1>6

LEMMA RehashSteps ==
  ASSUME NEW e, NEW r \in DOMAIN HashSets, NEW n \in Nat, n = Cardinality(DOMAIN e),
         \A i \in 1..n : e[i - 1] \in EltType
  PROVE  \E f \in [0..n -> [Slots(r) -> EltType]] : RehashBy(f, e, r)
<1> DEFINE T == [Slots(r) -> EltType]
           step == [p \in (1..n) \X T |-> Moves(e, r, p[1], p[2])]
           Eq(K) == K = [m \in 0..n |-> IF m = 0 THEN Blank(r) ELSE Moves(e, r, m, K[m - 1])]
<1>1. Blank(r) \in T
  BY BlankIs DEF TableOK
<1>2. \A i \in 1..n, t \in T : Moves(e, r, i, t) \in T
  BY DEF Moves
<1>3. step \in [(1..n) \X T -> T]
  BY <1>2
<1>4. PICK f \in [0..n -> T] : f[0] = Blank(r) /\ \A i \in 1..n : f[i] = step[<<i, f[i - 1]>>]
  <2> HIDE DEF step, T
  <2>1. PICK f \in [0..n -> T] : Runs(f, n, Blank(r), step)
    BY <1>1, <1>3, Recursion
  <2> QED BY <2>1 DEF Runs
<1>5. \A i \in 1..n : f[i] = Moves(e, r, i, f[i - 1])
  <2> TAKE i \in 1..n
  <2> HIDE DEF T
  <2>1. f[i - 1] \in T
    BY <1>4
  <2>2. step[<<i, f[i - 1]>>] = Moves(e, r, i, f[i - 1])
    BY <2>1
  <2> HIDE DEF step
  <2> QED BY <1>4, <2>2
<1>6. Eq(f)
  <2> HIDE DEF T
  <2>1. \A m \in 0..n : m = 0 \/ m \in 1..n
    OBVIOUS
  <2>2. \A m \in 0..n : f[m] = IF m = 0 THEN Blank(r) ELSE Moves(e, r, m, f[m - 1])
    BY <1>4, <1>5, <2>1
  <2> QED BY <1>4, <2>2
<1>7. PICK K : Eq(K) /\ K = CHOOSE g : Eq(g)
  BY <1>6
<1>8. Rehash(e, r) = K[n]
  BY <1>7, n = Cardinality(DOMAIN e), Zenon DEF Rehash, Moves, Blank
<1>9. \A m \in 0..n : K[m] = f[m]
  <2> DEFINE S == {m \in 0..n : K[m] = f[m]}
  <2>1. K[0] = Blank(r) /\ \A m \in 1..n : K[m] = Moves(e, r, m, K[m - 1])
    <3>1. 0 \in 0..n /\ \A m \in 1..n : m \in 0..n /\ m # 0
      OBVIOUS
    <3> QED BY <1>7, <3>1
  <2>2. 0 \in S
    BY <1>4, <2>1
  <2>3. \A m \in 1..n : m - 1 \in S => m \in S
    BY <1>5, <2>1
  <2>4. \A m \in 0..n : m \in S
    <3> HIDE DEF S
    <3> QED BY <2>2, <2>3, UpTo
  <2> QED BY <2>4
<1>10. Rehash(e, r) = f[n]
  BY <1>8, <1>9
<1>11. RehashBy(f, e, r)
  BY <1>4, <1>5, <1>10 DEF RehashBy
<1> QED BY <1>4, <1>11

\* Every entry is in the new table, and found there.
LEMMA RehashIs ==
  ASSUME NEW e, NEW q, TableOK(e, q), NEW r \in DOMAIN HashSets,
         Cardinality(KeysOf(e)) < HashSets[r].size, NEW d, d = Rehash(e, r)
  PROVE  TableOK(d, r) /\ Content(d) = Content(e) /\ Clean(d, r)
<1>1. q \in DOMAIN HashSets /\ e \in [Slots(q) -> EltType] /\ DOMAIN e = Slots(q)
  BY DEF TableOK
<1>2. PICK n \in Nat \ {0} : Slots(q) = 0..(n - 1)
  BY <1>1, SlotsIs
<1>3. n = Cardinality(DOMAIN e)
  BY <1>1, <1>2, FS_Interval
<1>4. \A i \in 1..n : i - 1 \in Slots(q) /\ e[i - 1] \in EltType
  BY <1>1, <1>2
<1>5. PICK f \in [0..n -> [Slots(r) -> EltType]] : RehashBy(f, e, r)
  BY <1>3, <1>4, RehashSteps
<1>6. /\ f[0] = Blank(r) /\ d = f[n]
      /\ \A i \in 1..n : f[i] = Moves(e, r, i, f[i - 1])
  BY <1>3, <1>5 DEF RehashBy
<1> DEFINE In(t, m) == \E i \in 1..m : t = e[i - 1] /\ e[i - 1].key # None
           S == {m \in 0..n : /\ TableOK(f[m], r) /\ Clean(f[m], r)
                             /\ \A t : t \in Content(f[m]) <=> In(t, m)}
<1>7. \A t : In(t, n) <=> t \in Content(e)
  <2> TAKE t
  <2>1. t \in Content(e) <=> Has(e, q, t)
    BY ContentIs
  <2>2. \A i \in Slots(q) : i + 1 \in 1..n /\ (i + 1) - 1 = i
    BY <1>2
  <2>3. Has(e, q, t) => In(t, n)
    BY <2>2 DEF Has
  <2>4. In(t, n) => Has(e, q, t)
    BY <1>4 DEF Has
  <2> QED BY <2>1, <2>3, <2>4
<1>8. 0 \in S
  <2>1. \A t : ~ In(t, 0)
    OBVIOUS
  <2> QED BY <1>6, <2>1, BlankIs
<1>9. ASSUME NEW m \in 1..n, m - 1 \in S  PROVE m \in S
  <2>1. PICK b, c, s : b = f[m - 1] /\ c = f[m] /\ s = e[m - 1]
    OBVIOUS
  <2>2. /\ TableOK(b, r) /\ (\A t : t \in Content(b) <=> In(t, m - 1)) /\ Clean(b, r)
        /\ c = Moves(e, r, m, b)
    BY <1>6, <1>9, <2>1
  <2>3. s \in EltType /\ m - 1 \in Slots(q) /\ m \in 0..n
    BY <1>4, <2>1
  <2>4. \A i \in 1..m : i \in 1..m-1 \/ i = m
    OBVIOUS
  <2>5. \A i \in 1..m-1 : i \in 1..n /\ i \in 1..m /\ i - 1 \in Slots(q) /\ i - 1 # m - 1
    BY <1>2
  <2>6. \A t : In(t, m) <=> In(t, m - 1) \/ (t = s /\ s.key # None)
    BY <2>1, <2>4, <2>5
  <2>7. CASE s.key = None
    <3>1. c = b
      BY <2>1, <2>2, <2>7 DEF Moves, Valid
    <3>2. \A t : t \in Content(c) <=> In(t, m)
      BY <2>2, <2>6, <2>7, <3>1
    <3> QED BY <2>1, <2>2, <2>3, <3>1, <3>2
  <2>8. CASE s.key # None
    <3>1. PICK k \in Keys : k = s.key
      BY <2>3, <2>8 DEF EltType
    <3>2. c = [b EXCEPT ![Find(b, r, k)] = s]
      BY <2>1, <2>2, <2>8, <3>1 DEF Moves, Valid
    <3>3. KeysOf(b) \subseteq KeysOf(e)
      <4>1. \A t : In(t, m - 1) => In(t, n)
        BY <2>5
      <4>2. \A t \in Content(b) : t \in Content(e)
        BY <1>7, <2>2, <4>1
      <4> HIDE DEF In
      <4> QED BY <2>2, <4>2, ContentIs
    <3>4. Cardinality(KeysOf(b)) <= Cardinality(KeysOf(e)) /\ Cardinality(KeysOf(e)) \in Nat
          /\ Cardinality(KeysOf(b)) \in Nat
      BY <2>2, <3>3, CountIs, FS_Subset
    <3>5. Cardinality(KeysOf(b)) < HashSets[r].size
      <4>1. HashSets[r].size \in Nat
        BY RowIs
      <4> QED BY <3>4, <4>1
    <3>6. Fits(b, r, k, Find(b, r, k))
      BY <2>2, <3>5, RoomIs, FindIs
    <3>7. /\ TableOK(c, r)
          /\ \A t : t \in Content(c) <=> t = s \/ (t \in Content(b) /\ t.key # k)
      <4>1. PICK p : p = Find(b, r, k)
        OBVIOUS
      <4>2. /\ TableOK(b, r) /\ k \in Keys /\ Fits(b, r, k, p) /\ s \in EltType /\ s.key = k
            /\ c = [b EXCEPT ![p] = s]
        BY <2>2, <2>3, <3>1, <3>2, <3>6, <4>1
      <4>3. Put(b, c, r, s)
        BY ONLY <4>2, PutContent
      <4> QED BY <3>1, <4>3 DEF Put
    <3>8. \A t : In(t, m - 1) => t.key # k
      <4>1. \A i \in 1..m-1 : e[i - 1].key # k
        BY <2>1, <2>3, <2>5, <3>1, UniqueKey
      <4> QED BY <4>1
    <3>9. \A t : t \in Content(c) <=> In(t, m)
      <4> HIDE DEF In
      <4> QED BY <2>2, <2>6, <2>8, <3>7, <3>8
    <3>10. Clean(c, r)
      <4>1. b \in [Slots(r) -> EltType]
        BY <2>2 DEF TableOK
      <4>2. \A i \in Slots(r) : c[i] = s \/ c[i] = b[i]
        BY <3>2, <4>1
      <4> QED BY <2>2, <2>8, <4>2 DEF Clean
    <3> HIDE DEF In
    <3> QED BY <2>1, <2>3, <3>7, <3>9, <3>10
  <2> QED BY <2>7, <2>8
<1>10. n \in S
  <2>1. n \in 0..n
    OBVIOUS
  <2> HIDE DEF S
  <2> QED BY <1>8, <1>9, <2>1, UpTo
<1>11. TableOK(d, r) /\ Clean(d, r) /\ \A t : t \in Content(d) <=> t \in Content(e)
  <2> HIDE DEF In
  <2> QED BY <1>6, <1>7, <1>10
<1>12. Content(d) = Content(e)
  BY <1>11
<1> QED BY <1>11, <1>12

-----------------------------------------------------------------------------
(* The operations on a table *)

\* A table that is counted right and not too full to be searched.
Good(e, r, n) ==
  TableOK(e, r) /\ n = Cardinality(ValidSlots(e)) /\ n <= HashSets[r].entries

\* There is room for one more entry, or there never are more than there is room for.
Spare(r, n) == n < HashSets[r].entries \/ r = Len(HashSets)

LEMMA LastRow == Len(HashSets) \in DOMAIN HashSets /\ DOMAIN HashSets = 1..Len(HashSets)
<1>1. PICK T : HashSets \in Seq(T) /\ HashSets # <<>>
  BY HashConstants
<1>2. Len(HashSets) \in Nat /\ DOMAIN HashSets = 1..Len(HashSets)
  BY <1>1, LenProperties
<1>3. Len(HashSets) # 0
  BY <1>1, EmptySeq
<1> QED BY <1>2, <1>3

LEMMA GoodIs ==
  ASSUME NEW e, NEW r, NEW n, Good(e, r, n)
  PROVE  /\ TableOK(e, r) /\ r \in DOMAIN HashSets /\ Room(e, r)
         /\ n \in Nat /\ n = Cardinality(KeysOf(e)) /\ IsFiniteSet(KeysOf(e))
         /\ n <= HashSets[r].entries /\ n < HashSets[r].size
<1>1. TableOK(e, r) /\ r \in DOMAIN HashSets /\ n = Cardinality(ValidSlots(e)) /\ n <= HashSets[r].entries
  BY DEF Good, TableOK
<1>2. n \in Nat /\ n = Cardinality(KeysOf(e)) /\ IsFiniteSet(KeysOf(e))
  BY <1>1, CountIs
<1>3. n < HashSets[r].size
  BY <1>1, <1>2, RowIs
<1> QED BY <1>1, <1>2, <1>3, RoomIs

\* A search finds the entry for k if there is one, or the slot for it.
LEMMA FoundIs ==
  ASSUME NEW e, NEW r, NEW n, Good(e, r, n), NEW k \in Keys, NEW i, i = Find(e, r, k)
  PROVE  /\ Fits(e, r, k, i) /\ i \in Slots(r) /\ e[i] \in EltType
         /\ (Valid(e, i) <=> k \in KeysOf(e)) /\ (Valid(e, i) => e[i].key = k)
<1>1. TableOK(e, r) /\ Fits(e, r, k, i)
  BY GoodIs, FindIs
<1>2. /\ i \in Slots(r) /\ e \in [Slots(r) -> EltType]
      /\ e[i].key = k \/ (e[i].key = None /\ \A j \in Slots(r) : e[j].key # k)
  BY <1>1 DEF Fits, TableOK
<1>3. Valid(e, i) => e[i].key = k
  BY <1>2 DEF Valid
<1>4. Valid(e, i) <=> k \in KeysOf(e)
  BY <1>2, KeyIsNotNone DEF Valid, KeysOf, ValidSlots
<1> QED BY <1>1, <1>2, <1>3, <1>4

LEMMA PutKeys ==
  ASSUME NEW e, NEW q, NEW d, NEW r, NEW s, TableOK(e, q), Put(e, d, r, s)
  PROVE  \A k : k \in KeysOf(d) <=> k = s.key \/ k \in KeysOf(e)
<1>1. TableOK(d, r) /\ \A t : t \in Content(d) <=> t = s \/ (t \in Content(e) /\ t.key # s.key)
  BY DEF Put
<1>2. ASSUME NEW k  PROVE k \in KeysOf(d) <=> k = s.key \/ k \in KeysOf(e)
  <2>1. k \in KeysOf(d) <=> \E t \in Content(d) : k = t.key
    BY <1>1, ContentIs
  <2>2. k \in KeysOf(e) <=> \E t \in Content(e) : k = t.key
    BY ContentIs
  <2> QED BY <1>1, <2>1, <2>2
<1> QED BY <1>2

\* An entry is put in a table that has room for it.
LEMMA PutIs ==
  ASSUME NEW e, NEW r, NEW n, Good(e, r, n), Spare(r, n), NEW k \in Keys,
         NEW s \in EltType, s.key = k, NEW i, i = Find(e, r, k), NEW d, d = [e EXCEPT ![i] = s],
         NEW m, m = IF Valid(e, i) THEN n ELSE n + 1
  PROVE  Good(d, r, m) /\ Put(e, d, r, s) /\ (Clean(e, r) => Clean(d, r))
<1>1. /\ TableOK(e, r) /\ Fits(e, r, k, i) /\ i \in Slots(r) /\ (Valid(e, i) <=> k \in KeysOf(e))
      /\ e \in [Slots(r) -> EltType] /\ r \in DOMAIN HashSets
      /\ n \in Nat /\ n = Cardinality(KeysOf(e)) /\ IsFiniteSet(KeysOf(e)) /\ n <= HashSets[r].entries
  BY GoodIs, FoundIs DEF TableOK
<1>2. Put(e, d, r, s)
  <2>1. s.key = k /\ s \in EltType /\ d = [e EXCEPT ![i] = s]
    OBVIOUS
  <2> QED BY ONLY <1>1, <2>1, PutContent
<1>3. TableOK(d, r)
  BY <1>2 DEF Put
<1>4. KeysOf(d) = KeysOf(e) \cup {k}
  BY <1>1, <1>2, PutKeys
<1>5. m = Cardinality(KeysOf(d))
  <2>1. CASE Valid(e, i)
    <3>1. KeysOf(d) = KeysOf(e)
      BY <1>1, <1>4, <2>1
    <3> QED BY <1>1, <2>1, <3>1
  <2>2. CASE ~ Valid(e, i)
    <3>1. Cardinality(KeysOf(e) \cup {k}) = Cardinality(KeysOf(e)) + 1
      BY <1>1, <2>2, FS_AddElement
    <3> QED BY <1>1, <1>4, <2>2, <3>1
  <2> QED BY <2>1, <2>2
<1>6. m = Cardinality(ValidSlots(d)) /\ m <= Cardinality(Keys)
  BY <1>3, <1>5, CountIs
<1>7. m <= HashSets[r].entries
  <2>1. HashSets[r].entries \in Nat
    BY <1>1, RowIs
  <2>2. CASE r = Len(HashSets)
    <3>1. Cardinality(Keys) <= HashSets[r].entries /\ Cardinality(Keys) \in Nat
      BY <2>2, HashKeysFit, FS_CardinalityType
    <3> QED BY <1>1, <1>6, <2>1, <3>1
  <2>3. CASE n < HashSets[r].entries
    BY <1>1, <2>1, <2>3
  <2> QED BY <2>2, <2>3 DEF Spare
<1>8. Clean(e, r) => Clean(d, r)
  <2>1. \A j \in Slots(r) : d[j] = s \/ d[j] = e[j]
    BY <1>1
  <2> QED BY <2>1, KeyIsNotNone DEF Clean
<1> QED BY <1>2, <1>3, <1>6, <1>7, <1>8 DEF Good

LEMMA SameKeys ==
  ASSUME NEW e, NEW q, NEW d, NEW r, TableOK(e, q), TableOK(d, r), Content(d) = Content(e)
  PROVE  KeysOf(d) = KeysOf(e)
<1>1. ASSUME NEW l  PROVE l \in KeysOf(d) <=> l \in KeysOf(e)
  <2>1. l \in KeysOf(d) <=> \E t \in Content(d) : l = t.key
    BY ContentIs
  <2>2. l \in KeysOf(e) <=> \E t \in Content(e) : l = t.key
    BY ContentIs
  <2> QED BY <2>1, <2>2
<1> QED BY <1>1

\* Resize makes room, and keeps what is in the table.
LEMMA GrownIs ==
  ASSUME NEW full, full <=> Full(count), Good(elts, row, count), NEW t, t = Grown(full)
  PROVE  /\ t = [row |-> t.row, elts |-> t.elts, count |-> t.count]
         /\ Good(t.elts, t.row, t.count) /\ Spare(t.row, t.count) /\ Content(t.elts) = Content(elts)
         /\ full \/ Clean(elts, row) => Clean(t.elts, t.row)
         /\ ~ full => t.row = row /\ t.elts = elts /\ t.count = count
<1>1. /\ TableOK(elts, row) /\ row \in DOMAIN HashSets /\ count \in Nat
      /\ count = Cardinality(KeysOf(elts)) /\ count <= HashSets[row].entries
      /\ count = Cardinality(ValidSlots(elts))
  BY GoodIs DEF Good
<1>2. /\ HashSets[row].entries \in Nat /\ Len(HashSets) \in Nat
      /\ row \in 1..Len(HashSets) /\ DOMAIN HashSets = 1..Len(HashSets)
  <2>1. Len(HashSets) \in DOMAIN HashSets
    BY LastRow
  <2> QED BY <1>1, <2>1, LastRow, RowIs
<1>3. CASE full
  <2>1. PICK q : q = row + 1
    OBVIOUS
  <2>2. q \in DOMAIN HashSets /\ HashSets[row].entries <= count
    BY <1>1, <1>2, <1>3, <2>1 DEF Full
  <2>3. HashSets[row].entries < HashSets[q].entries
    BY <1>1, <2>1, <2>2, HashRows
  <2>4. HashSets[q].entries \in Nat /\ HashSets[q].size \in Nat /\ HashSets[q].entries < HashSets[q].size
    BY <2>2, RowIs
  <2>5. count < HashSets[q].entries /\ Cardinality(KeysOf(elts)) < HashSets[q].size
    BY <1>1, <1>2, <2>3, <2>4
  <2>6. PICK d : d = Rehash(elts, q)
    OBVIOUS
  <2>7. TableOK(d, q) /\ Content(d) = Content(elts) /\ Clean(d, q)
    BY <1>1, <2>2, <2>5, <2>6, RehashIs
  <2>8. t = [row |-> q, elts |-> d, count |-> count]
    BY <1>1, <1>3, <2>1, <2>6 DEF Grown
  <2>9. KeysOf(d) = KeysOf(elts)
    BY <1>1, <2>7, SameKeys
  <2>10. count = Cardinality(ValidSlots(d))
    BY <1>1, <2>7, <2>9, CountIs
  <2>11. Good(d, q, count) /\ Spare(q, count)
    BY <1>1, <2>4, <2>5, <2>7, <2>10 DEF Good, Spare
  <2>12. t.row = q /\ t.elts = d /\ t.count = count
    BY <2>8
  <2> QED BY <1>3, <2>7, <2>8, <2>11, <2>12
<1>4. CASE ~ full
  <2>1. t = [row |-> row, elts |-> elts, count |-> count]
    BY <1>4 DEF Grown
  <2>2. Spare(row, count)
    BY <1>1, <1>2, <1>4 DEF Full, Spare
  <2> QED BY <1>1, <1>4, <2>1, <2>2
<1> QED BY <1>3, <1>4

LEMMA CutKeys ==
  ASSUME NEW e, NEW q, NEW d, NEW r, NEW k, TableOK(e, q), Cut(e, d, r, k)
  PROVE  KeysOf(d) = KeysOf(e) \ {k}
<1>1. TableOK(d, r) /\ \A t : t \in Content(d) <=> t \in Content(e) /\ t.key # k
  BY DEF Cut
<1>2. ASSUME NEW l  PROVE l \in KeysOf(d) <=> l \in KeysOf(e) /\ l # k
  <2>1. l \in KeysOf(d) <=> \E t \in Content(d) : l = t.key
    BY <1>1, ContentIs
  <2>2. l \in KeysOf(e) <=> \E t \in Content(e) : l = t.key
    BY ContentIs
  <2> QED BY <1>1, <2>1, <2>2
<1> QED BY <1>2

\* The slot of an entry becomes a deleted one.
LEMMA DeleteIs ==
  ASSUME NEW e, NEW r, NEW n, Good(e, r, n), NEW k \in Keys, NEW i, i = Find(e, r, k), Valid(e, i),
         NEW d, d = [e EXCEPT ![i] = Slot(None, Void)]
  PROVE  /\ Good(d, r, n - 1) /\ (Clean(e, r) => Clean(d, r))
         /\ Cut(e, d, r, k)
<1>1. /\ TableOK(e, r) /\ i \in Slots(r) /\ k \in KeysOf(e) /\ e[i].key = k
      /\ e \in [Slots(r) -> EltType] /\ r \in DOMAIN HashSets
      /\ n \in Nat /\ n = Cardinality(KeysOf(e)) /\ IsFiniteSet(KeysOf(e)) /\ n <= HashSets[r].entries
  BY GoodIs, FoundIs DEF TableOK
<1>2. PICK s : s = Slot(None, Void)
  OBVIOUS
<1>3. s \in EltType /\ s.key = None /\ s.value = Void /\ s # Empty
  BY <1>2, HashConstants DEF Slot, Empty, EltType
<1>4. Cut(e, d, r, k) /\ TableOK(d, r)
  <2>1. d = [e EXCEPT ![i] = s]
    BY <1>2
  <2>2. Cut(e, d, r, k)
    BY ONLY <1>1, <1>3, <2>1, k \in Keys, DeleteContent
  <2> QED BY <2>2 DEF Cut
<1>5. KeysOf(d) = KeysOf(e) \ {k}
  BY <1>1, <1>4, CutKeys
<1>6. Cardinality(KeysOf(d)) = n - 1
  BY <1>1, <1>5, FS_RemoveElement
<1>7. n - 1 = Cardinality(ValidSlots(d)) /\ n - 1 <= HashSets[r].entries
  <2>1. HashSets[r].entries \in Nat
    BY <1>1, RowIs
  <2> QED BY <1>1, <1>4, <1>6, <2>1, CountIs
<1>8. Clean(e, r) => Clean(d, r)
  <2>1. \A j \in Slots(r) : d[j] = s \/ d[j] = e[j]
    BY <1>1, <1>2
  <2> QED BY <1>3, <2>1 DEF Clean
<1> QED BY <1>4, <1>7, <1>8 DEF Good

-----------------------------------------------------------------------------
(* The table as a mapping *)

MapOf(e) ==
  LET valid == ValidSlots(e)
  IN  [k \in {e[i].key : i \in valid} |-> e[CHOOSE i \in valid : e[i].key = k].value]

LEMMA MapIs ==
  ASSUME NEW e, NEW r, TableOK(e, r)
  PROVE  /\ DOMAIN MapOf(e) = KeysOf(e) /\ MapOf(e) = [k \in KeysOf(e) |-> MapOf(e)[k]]
         /\ \A t \in Content(e) : MapOf(e)[t.key] = t.value
<1>1. PICK valid : valid = ValidSlots(e)
  OBVIOUS
<1>2. MapOf(e) = [k \in KeysOf(e) |-> e[CHOOSE i \in valid : e[i].key = k].value]
  BY <1>1 DEF MapOf, KeysOf
<1>3. ASSUME NEW i \in valid  PROVE MapOf(e)[e[i].key] = e[i].value
  <2>1. PICK k : k = e[i].key
    OBVIOUS
  <2>2. PICK j : j = CHOOSE l \in valid : e[l].key = k
    OBVIOUS
  <2>3. j \in valid /\ e[j].key = k
    BY <2>1, <2>2
  <2>4. i \in Slots(r) /\ j \in Slots(r) /\ k \in Keys
    <3>1. ValidSlots(e) \subseteq Slots(r) /\ KeysOf(e) \subseteq Keys
      BY ContentIs
    <3> QED BY <1>1, <2>1, <2>3, <3>1 DEF KeysOf
  <2>5. i = j
    BY <2>1, <2>3, <2>4, UniqueKey
  <2>6. k \in KeysOf(e)
    BY <1>1, <2>1 DEF KeysOf
  <2>7. MapOf(e)[k] = e[CHOOSE l \in valid : e[l].key = k].value
    BY <1>2, <2>6
  <2> QED BY <2>1, <2>2, <2>5, <2>7
<1>4. \A t \in Content(e) : MapOf(e)[t.key] = t.value
  BY <1>1, <1>3 DEF Content
<1>5. DOMAIN MapOf(e) = KeysOf(e) /\ MapOf(e) = [k \in KeysOf(e) |-> MapOf(e)[k]]
  BY <1>2
<1> QED BY <1>4, <1>5

LEMMA KeyHasContent ==
  ASSUME NEW e, NEW r, TableOK(e, r), NEW k \in KeysOf(e)
  PROVE  \E t \in Content(e) : k = t.key
BY ContentIs

LEMMA SameMap ==
  ASSUME NEW e, NEW q, NEW d, NEW r, TableOK(e, q), TableOK(d, r), Content(d) = Content(e)
  PROVE  MapOf(d) = MapOf(e)
<1>1. KeysOf(d) = KeysOf(e)
  BY SameKeys
<1>2. ASSUME NEW k \in KeysOf(e)  PROVE MapOf(d)[k] = MapOf(e)[k]
  <2>1. PICK t \in Content(e) : k = t.key
    BY KeyHasContent
  <2>2. MapOf(e)[t.key] = t.value
    BY <2>1, MapIs
  <2>3. MapOf(d)[t.key] = t.value
    BY <2>1, MapIs
  <2> QED BY <2>1, <2>2, <2>3
<1>3. MapOf(d) = [k \in KeysOf(d) |-> MapOf(d)[k]]
  BY MapIs
<1>4. MapOf(e) = [k \in KeysOf(e) |-> MapOf(e)[k]]
  BY MapIs
<1> QED BY <1>1, <1>2, <1>3, <1>4

LEMMA PutMap ==
  ASSUME NEW e, NEW q, NEW d, NEW r, NEW s, TableOK(e, q), Put(e, d, r, s),
         NEW m, m = MapOf(e), NEW k, k = s.key
  PROVE  MapOf(d) = [l \in DOMAIN m \cup {k} |-> IF l = k THEN s.value ELSE m[l]]
<1>1. TableOK(d, r) /\ \A t : t \in Content(d) <=> t = s \/ (t \in Content(e) /\ t.key # k)
  BY DEF Put
<1>2. \A l : l \in KeysOf(d) <=> l = k \/ l \in KeysOf(e)
  BY PutKeys
<1>3. DOMAIN m = KeysOf(e)
  BY MapIs
<1>4. ASSUME NEW l \in KeysOf(d)  PROVE MapOf(d)[l] = IF l = k THEN s.value ELSE m[l]
  <2>1. CASE l = k
    <3>1. s \in Content(d)
      BY <1>1
    <3>2. MapOf(d)[s.key] = s.value
      BY <1>1, <3>1, MapIs
    <3> QED BY <2>1, <3>2
  <2>2. CASE l # k
    <3>1. PICK t \in Content(e) : l = t.key
      BY <1>2, <2>2, KeyHasContent
    <3>2. t \in Content(d)
      BY <1>1, <2>2, <3>1
    <3>3. MapOf(d)[t.key] = t.value
      BY <1>1, <3>2, MapIs
    <3>4. m[t.key] = t.value
      BY <3>1, MapIs
    <3> QED BY <2>2, <3>1, <3>3, <3>4
  <2> QED BY <2>1, <2>2
<1>5. MapOf(d) = [l \in KeysOf(d) |-> MapOf(d)[l]]
  BY <1>1, MapIs
<1>6. KeysOf(d) = DOMAIN m \cup {k}
  BY <1>2, <1>3
<1>7. MapOf(d) = [l \in KeysOf(d) |-> IF l = k THEN s.value ELSE m[l]]
  BY <1>4, <1>5
<1> QED BY <1>6, <1>7

LEMMA CutMap ==
  ASSUME NEW e, NEW q, NEW d, NEW r, NEW k, TableOK(e, q), Cut(e, d, r, k), NEW m, m = MapOf(e)
  PROVE  MapOf(d) = [l \in DOMAIN m \ {k} |-> m[l]]
<1>1. TableOK(d, r) /\ \A t : t \in Content(d) <=> t \in Content(e) /\ t.key # k
  BY DEF Cut
<1>2. KeysOf(d) = DOMAIN m \ {k}
  <2>1. KeysOf(d) = KeysOf(e) \ {k}
    BY CutKeys
  <2>2. DOMAIN m = KeysOf(e)
    BY MapIs
  <2> QED BY <2>1, <2>2
<1>3. ASSUME NEW l \in KeysOf(d)  PROVE MapOf(d)[l] = m[l]
  <2>1. PICK t \in Content(d) : l = t.key
    BY <1>1, KeyHasContent
  <2>2. MapOf(d)[t.key] = t.value
    BY <1>1, <2>1, MapIs
  <2>3. t \in Content(e)
    BY <1>1, <2>1
  <2>4. m[t.key] = t.value
    BY <2>3, MapIs
  <2> QED BY <2>1, <2>2, <2>4
<1>4. MapOf(d) = [l \in KeysOf(d) |-> MapOf(d)[l]]
  BY <1>1, MapIs
<1> QED BY <1>2, <1>3, <1>4

\* A search finds what the mapping has.
LEMMA FindMap ==
  ASSUME NEW e, NEW r, NEW n, Good(e, r, n), NEW k \in Keys, NEW i, i = Find(e, r, k)
  PROVE  /\ Valid(e, i) <=> k \in DOMAIN MapOf(e)
         /\ Valid(e, i) => MapOf(e)[k] = e[i].value
<1>1. TableOK(e, r)
  BY GoodIs
<1>2. i \in Slots(r) /\ (Valid(e, i) <=> k \in KeysOf(e)) /\ (Valid(e, i) => e[i].key = k)
  BY FoundIs
<1>3. DOMAIN MapOf(e) = KeysOf(e)
  BY <1>1, MapIs
<1>4. ASSUME Valid(e, i)  PROVE MapOf(e)[k] = e[i].value
  <2>1. e[i] \in Content(e)
    <3>1. DOMAIN e = Slots(r)
      BY <1>1 DEF TableOK
    <3> QED BY <1>2, <1>4, <3>1 DEF Content, ValidSlots
  <2>2. MapOf(e)[e[i].key] = e[i].value
    BY <1>1, <2>1, MapIs
  <2> QED BY <1>2, <1>4, <2>2
<1> QED BY <1>2, <1>3, <1>4

-----------------------------------------------------------------------------
(* The inductive invariant *)

RefType == [key : Keys, elt : Nat, live : BOOLEAN]

\* What a reference points to is a slot of the table that has been used.
RefOK(e, r, p) ==
  /\ p \in RefType \cup {None}
  /\ p # None /\ p.live => p.elt \in Slots(r) /\ e[p.elt] # Empty

\* And if nothing comes between HashRef and the assignment, the slot of its key.
Held(e, r, p) == Clean(e, r) /\ (p # None => p.live /\ e[p.elt].key = p.key)

HashInv ==
  /\ Good(elts, row, count)
  /\ def \in Values \cup {None}
  /\ RefOK(elts, row, ref)
  /\ ~ Interleaved => Held(elts, row, ref)

\* The table after an insertion: no other slot has changed, unless it has grown.
Inserts(full, k, s, i) ==
  /\ Good(elts', row', count') /\ Put(elts, elts', row', s) /\ i \in Slots(row') /\ elts'[i] = s
  /\ ~ full => row' = row /\ \A j \in Slots(row) : j # i => elts'[j] = elts[j]
  /\ Clean(elts, row) => Clean(elts', row')

LEMMA RefTypeIs == \A p \in RefType : p # None
BY HashConstants DEF RefType

LEMMA InsertIs ==
  ASSUME HashInv, NEW full, full <=> Full(count), NEW t, t = Grown(full),
         NEW s \in EltType, NEW k \in Keys, s.key = k, NEW i, i = Find(t.elts, t.row, k),
         Becomes([t EXCEPT !.elts[i] = s, !.count = Added(t, i)])
  PROVE  Inserts(full, k, s, i)
<1>1. Good(elts, row, count)
  BY DEF HashInv
<1>2. PICK e, r, n : e = t.elts /\ r = t.row /\ n = t.count
  OBVIOUS
<1>3. /\ t = [row |-> r, elts |-> e, count |-> n] /\ Good(e, r, n) /\ Spare(r, n)
      /\ Content(e) = Content(elts) /\ (full \/ Clean(elts, row) => Clean(e, r))
      /\ ~ full => r = row /\ e = elts /\ n = count
  BY <1>1, <1>2, GrownIs
<1>4. PICK d, m : d = [e EXCEPT ![i] = s] /\ m = IF Valid(e, i) THEN n ELSE n + 1
  OBVIOUS
<1>5. row' = r /\ elts' = d /\ count' = m
  <2>1. m = Added(t, i)
    BY <1>2, <1>4 DEF Added
  <2>2. t = [row |-> r, elts |-> e, count |-> n] /\ d = [e EXCEPT ![i] = s]
    BY <1>3, <1>4
  <2>3. Becomes([t EXCEPT !.elts[i] = s, !.count = m])
    BY <2>1
  <2> QED BY ONLY <2>2, <2>3 DEF Becomes
<1>6. i = Find(e, r, k)
  BY <1>2
<1>7. Good(d, r, m) /\ Put(e, d, r, s) /\ (Clean(e, r) => Clean(d, r))
  BY <1>3, <1>4, <1>6, PutIs
<1>8. i \in Slots(r) /\ e \in [Slots(r) -> EltType]
  <2>1. TableOK(e, r)
    BY <1>3, GoodIs
  <2> QED BY <1>3, <1>6, <2>1, FoundIs DEF TableOK
<1>9. Put(elts, d, r, s)
  BY <1>3, <1>7 DEF Put
<1>10. d[i] = s /\ \A j \in Slots(r) : j # i => d[j] = e[j]
  BY <1>4, <1>8
<1> QED BY <1>3, <1>5, <1>7, <1>8, <1>9, <1>10 DEF Inserts

LEMMA InsertRef ==
  ASSUME HashInv, NEW full, NEW k \in Keys, NEW s, s.key = k, NEW i, Inserts(full, k, s, i),
         ref' = Outdated(full), Idle
  PROVE  RefOK(elts', row', ref') /\ (~ Interleaved => ref = None /\ ref' = None /\ Held(elts', row', ref'))
<1>1. RefOK(elts, row, ref) /\ (~ Interleaved => Held(elts, row, ref))
  BY DEF HashInv
<1>2. s # Empty
  BY KeyIsNotNone DEF Empty, Slot
<1>3. /\ i \in Slots(row') /\ elts'[i] = s /\ (Clean(elts, row) => Clean(elts', row'))
      /\ ~ full => row' = row /\ \A j \in Slots(row) : j # i => elts'[j] = elts[j]
  BY DEF Inserts
<1>4. CASE ref = None
  <2>1. ref' = None
    BY <1>4 DEF Outdated
  <2> QED BY <1>1, <1>3, <1>4, <2>1 DEF RefOK, Held
<1>5. CASE ref # None
  <2>1. Interleaved /\ ref \in RefType
    BY <1>1, <1>5 DEF Idle, RefOK
  <2>2. CASE full
    <3>1. ref' = [ref EXCEPT !.live = FALSE]
      BY <1>5, <2>2 DEF Outdated
    <3>2. ref' \in RefType /\ ~ ref'.live
      BY <2>1, <3>1 DEF RefType
    <3> QED BY <2>1, <3>2 DEF RefOK
  <2>3. CASE ~ full
    <3>1. ref' = ref
      BY <1>5, <2>3 DEF Outdated
    <3>2. ref.live => ref.elt \in Slots(row) /\ elts[ref.elt] # Empty
      BY <1>1, <1>5 DEF RefOK
    <3> QED BY <1>2, <1>3, <2>1, <2>3, <3>1, <3>2 DEF RefOK
  <2> QED BY <2>2, <2>3
<1> QED BY <1>4, <1>5

-----------------------------------------------------------------------------
(* Every step keeps the invariant, and is a step of Map *)

Pointer == IF ref = None THEN None ELSE ref.key

\* A step of the mapping, or none.
Follows == ~ Interleaved => [Promise!Next]_(Promise!vars)

LEMMA MappingIs == Mapping = MapOf(elts)
BY DEF Mapping, MapOf

LEMMA SlotIs ==
  ASSUME NEW k \in Keys, NEW v \in Values \cup {Void, None}, NEW s, s = Slot(k, v)
  PROVE  s \in EltType /\ s.key = k /\ s.value = v
BY DEF Slot, EltType

LEMMA HashSetStep ==
  ASSUME HashInv, NEW k \in Keys, NEW v \in Values, HashSet(k, v)
  PROVE  HashInv' /\ Follows
<1>1. PICK full : full = Full(count)
  OBVIOUS
<1>2. PICK t : t = Grown(full)
  OBVIOUS
<1>3. PICK i, s : i = Find(t.elts, t.row, k) /\ s = Slot(k, v)
  OBVIOUS
<1>4. /\ Idle /\ Becomes([t EXCEPT !.elts[i] = s, !.count = Added(t, i)])
      /\ ref' = Outdated(full) /\ result' = {} /\ def' = def
  BY <1>1, <1>2, <1>3 DEF HashSet
<1>5. s \in EltType /\ s.key = k /\ s.value = v
  BY <1>3, SlotIs
<1>6. Inserts(full, k, s, i)
  BY <1>1, <1>2, <1>3, <1>4, <1>5, InsertIs
<1>7. /\ RefOK(elts', row', ref')
      /\ ~ Interleaved => ref = None /\ ref' = None /\ Held(elts', row', ref')
  BY <1>4, <1>5, <1>6, InsertRef
<1>8. HashInv'
  BY <1>4, <1>6, <1>7 DEF HashInv, Inserts
<1>9. ASSUME ~ Interleaved  PROVE Promise!Set(k, v)
  <2>1. PICK m, n : m = MapOf(elts) /\ n = MapOf(elts')
    OBVIOUS
  <2>2. n = [l \in DOMAIN m \cup {k} |-> IF l = k THEN v ELSE m[l]]
    <3>1. TableOK(elts, row) /\ Put(elts, elts', row', s)
      BY <1>6, GoodIs DEF HashInv, Inserts
    <3> QED BY <1>5, <2>1, <3>1, PutMap
  <2>3. Mapping = m /\ Mapping' = n
    BY <2>1, MappingIs DEF Mapping, MapOf
  <2> QED BY <1>4, <1>7, <1>9, <2>2, <2>3 DEF Promise!Set, Promise!With
<1> QED BY <1>8, <1>9 DEF Follows, Promise!Next

LEMMA HashGetStep ==
  ASSUME HashInv, NEW k \in Keys, HashGet(k), ~ ReadsGrow
  PROVE  HashInv' /\ Follows /\ (def # None => k \in DOMAIN Mapping')
<1>1. PICK i, m : i = Find(elts, row, k) /\ m = MapOf(elts)
  OBVIOUS
<1>2. Good(elts, row, count) /\ TableOK(elts, row) /\ def \in Values \cup {None}
  BY GoodIs DEF HashInv
<1>3. (Valid(elts, i) <=> k \in DOMAIN m) /\ (Valid(elts, i) => m[k] = elts[i].value)
  BY <1>1, <1>2, FindMap
<1>4. Mapping = m /\ Mapping' = MapOf(elts')
  BY <1>1, MappingIs DEF Mapping, MapOf
<1>5. Idle /\ def' = def
  BY DEF HashGet
<1>6. ASSUME UNCHANGED <<row, elts, count, ref>>,
             \/ Valid(elts, i) /\ result' = {elts[i].value} \ {None}
             \/ ~ Valid(elts, i) /\ def = None /\ result' = {}
      PROVE  HashInv' /\ Follows /\ (def # None => k \in DOMAIN Mapping')
  <2>1. HashInv'
    BY <1>5, <1>6 DEF HashInv
  <2>2. MapOf(elts') = m
    BY <1>1, <1>6
  <2>3. Promise!Get(k)
    BY <1>3, <1>4, <1>5, <1>6, <2>2 DEF Promise!Get
  <2> QED BY <1>3, <1>4, <1>6, <2>1, <2>2, <2>3 DEF Follows, Promise!Next
<1>7. ASSUME ~ Valid(elts, i), def # None, ~ Full(count), ref' = Outdated(Full(count)), result' = {def},
             Becomes(LET t == Grown(Full(count)) IN
               IF Full(count) THEN [t EXCEPT !.count = @ + 1]
               ELSE [t EXCEPT !.count = @ + 1, !.elts[i] = Slot(k, def)])
      PROVE  HashInv' /\ Follows /\ (def # None => k \in DOMAIN Mapping')
  <2>1. PICK s : s = Slot(k, def)
    OBVIOUS
  <2>2. s \in EltType /\ s.key = k /\ s.value = def
    BY <1>2, <2>1, SlotIs
  <2>3. PICK t : t = Grown(FALSE)
    OBVIOUS
  <2>4. t = [row |-> row, elts |-> elts, count |-> count]
    BY <2>3 DEF Grown
  <2>5. row' = row /\ elts' = [elts EXCEPT ![i] = s] /\ count' = count + 1
    <3>1. Grown(Full(count)) = [row |-> row, elts |-> elts, count |-> count]
      BY <1>7 DEF Grown
    <3>2. Becomes([Grown(Full(count)) EXCEPT !.count = @ + 1, !.elts[i] = s])
      BY <1>7, <2>1
    <3> QED BY ONLY <3>1, <3>2 DEF Becomes
  <2>6. Becomes([t EXCEPT !.elts[i] = s, !.count = Added(t, i)])
    <3>1. Added(t, i) = count + 1
      BY <1>7, <2>4 DEF Added
    <3> QED BY ONLY <2>4, <2>5, <3>1 DEF Becomes
  <2>7. Inserts(FALSE, k, s, i)
    <3>1. FALSE <=> Full(count)
      BY <1>7
    <3>2. i = Find(t.elts, t.row, k)
      BY <1>1, <2>4
    <3> QED BY <2>2, <2>3, <2>6, <3>1, <3>2, InsertIs
  <2>8. ref' = Outdated(FALSE)
    BY <1>7 DEF Outdated
  <2>9. /\ RefOK(elts', row', ref')
        /\ ~ Interleaved => ref = None /\ ref' = None /\ Held(elts', row', ref')
    BY <1>5, <2>2, <2>7, <2>8, InsertRef
  <2>10. HashInv'
    BY <1>2, <1>5, <2>7, <2>9 DEF HashInv, Inserts
  <2>11. MapOf(elts') = [l \in DOMAIN m \cup {k} |-> IF l = k THEN def ELSE m[l]]
    <3>1. Put(elts, elts', row', s)
      BY <2>7 DEF Inserts
    <3> QED BY <1>1, <1>2, <2>2, <3>1, PutMap
  <2>12. ASSUME ~ Interleaved  PROVE Promise!Get(k)
    BY <1>3, <1>4, <1>5, <1>7, <2>9, <2>11, <2>12 DEF Promise!Get, Promise!With
  <2>13. k \in DOMAIN Mapping'
    BY <1>4, <2>11
  <2> QED BY <2>10, <2>12, <2>13 DEF Follows, Promise!Next
<1>8. \/ /\ UNCHANGED <<row, elts, count, ref>>
         /\ \/ Valid(elts, i) /\ result' = {elts[i].value} \ {None}
            \/ ~ Valid(elts, i) /\ def = None /\ result' = {}
      \/ /\ ~ Valid(elts, i) /\ def # None /\ ~ Full(count) /\ ref' = Outdated(Full(count))
         /\ result' = {def}
         /\ Becomes(LET t == Grown(Full(count)) IN
              IF Full(count) THEN [t EXCEPT !.count = @ + 1]
              ELSE [t EXCEPT !.count = @ + 1, !.elts[i] = Slot(k, def)])
  BY <1>1 DEF HashGet
<1> QED BY <1>6, <1>7, <1>8

LEMMA HashSetDefStep ==
  ASSUME HashInv, NEW v \in Values, HashSetDef(v)
  PROVE  HashInv' /\ Follows
<1>1. Idle /\ def' = v /\ result' = {} /\ row' = row /\ elts' = elts /\ count' = count /\ ref' = ref
  BY DEF HashSetDef
<1>2. HashInv'
  BY <1>1 DEF HashInv
<1>3. Mapping' = Mapping
  BY <1>1 DEF Mapping
<1>4. Promise!SetDefault(v)
  BY <1>1, <1>3 DEF Promise!SetDefault
<1> QED BY <1>2, <1>4 DEF Follows, Promise!Next

LEMMA HashTestStep ==
  ASSUME HashInv, NEW k \in Keys, HashTest(k)
  PROVE  HashInv' /\ Follows
<1>1. PICK i : i = Find(elts, row, k)
  OBVIOUS
<1>2. result' = (IF Valid(elts, i) THEN {k} ELSE {}) /\ UNCHANGED <<row, elts, count, def, ref>>
  BY <1>1 DEF HashTest
<1>3. HashInv'
  BY <1>2 DEF HashInv
<1>4. Mapping' = Mapping /\ Mapping = MapOf(elts)
  BY <1>2, MappingIs DEF Mapping
<1>5. Valid(elts, i) <=> k \in DOMAIN Mapping
  BY <1>1, <1>4, FindMap DEF HashInv
<1>6. Promise!Test(k)
  BY <1>2, <1>4, <1>5 DEF Promise!Test
<1> QED BY <1>3, <1>6 DEF Follows, Promise!Next

LEMMA HashKeysStep ==
  ASSUME HashInv, HashKeys
  PROVE  HashInv' /\ Follows
<1>1. result' = KeysOf(elts) /\ UNCHANGED <<row, elts, count, def, ref>>
  BY DEF HashKeys, KeysOf
<1>2. HashInv'
  BY <1>1 DEF HashInv
<1>3. Mapping' = Mapping /\ Mapping = MapOf(elts)
  BY <1>1, MappingIs DEF Mapping
<1>4. DOMAIN Mapping = KeysOf(elts)
  BY <1>3, GoodIs, MapIs DEF HashInv
<1>5. Promise!AllKeys
  BY <1>1, <1>3, <1>4 DEF Promise!AllKeys
<1> QED BY <1>2, <1>5 DEF Follows, Promise!Next

LEMMA HashCopyStep ==
  ASSUME HashInv, HashCopy
  PROVE  HashInv' /\ Follows
<1>1. /\ ref = None /\ ref' = None /\ elts' = Rehash(elts, row) /\ row' = row
      /\ count' = Cardinality(ValidSlots(elts)) /\ def' = def /\ result' = result
  BY DEF HashCopy
<1>2. /\ TableOK(elts, row) /\ row \in DOMAIN HashSets /\ count \in Nat
      /\ count = Cardinality(KeysOf(elts)) /\ count < HashSets[row].size
      /\ count = Cardinality(ValidSlots(elts)) /\ count <= HashSets[row].entries
  BY GoodIs DEF HashInv, Good
<1>3. PICK d : d = Rehash(elts, row)
  OBVIOUS
<1>4. TableOK(d, row) /\ Content(d) = Content(elts) /\ Clean(d, row)
  BY <1>2, <1>3, RehashIs
<1>5. KeysOf(d) = KeysOf(elts)
  BY <1>2, <1>4, SameKeys
<1>6. Good(d, row, count)
  BY <1>2, <1>4, <1>5, CountIs DEF Good
<1>7. HashInv'
  BY <1>1, <1>2, <1>3, <1>4, <1>6 DEF HashInv, RefOK, Held
<1>8. MapOf(d) = MapOf(elts)
  BY <1>2, <1>4, SameMap
<1>9. Mapping' = Mapping
  <2>1. Mapping = MapOf(elts) /\ Mapping' = MapOf(elts')
    BY MappingIs DEF Mapping, MapOf
  <2> QED BY <1>1, <1>3, <1>8, <2>1
<1> QED BY <1>1, <1>7, <1>9 DEF Follows, Promise!vars

LEMMA HashDeleteStep ==
  ASSUME HashInv, NEW k \in Keys, HashDelete(k)
  PROVE  HashInv' /\ Follows
<1>1. PICK i, m : i = Find(elts, row, k) /\ m = MapOf(elts)
  OBVIOUS
<1>2. Good(elts, row, count) /\ TableOK(elts, row) /\ i \in Slots(row) /\ elts \in [Slots(row) -> EltType]
  BY <1>1, GoodIs, FoundIs DEF HashInv, TableOK
<1>3. /\ Idle /\ row' = row /\ def' = def /\ ref' = ref /\ result' = {}
      /\ IF Valid(elts, i) THEN elts' = [elts EXCEPT ![i] = Slot(None, Void)] /\ count' = count - 1
         ELSE UNCHANGED <<elts, count>>
  BY <1>1 DEF HashDelete
<1>4. Mapping = m /\ Mapping' = MapOf(elts')
  BY <1>1, MappingIs DEF Mapping, MapOf
<1>5. (Valid(elts, i) <=> k \in DOMAIN m) /\ m = [l \in DOMAIN m |-> m[l]]
  <2>1. m = [l \in KeysOf(elts) |-> m[l]]
    BY <1>1, <1>2, MapIs
  <2> QED BY <1>1, <1>2, <2>1, FindMap
<1>6. CASE Valid(elts, i)
  <2>1. /\ Good(elts', row', count') /\ (Clean(elts, row) => Clean(elts', row'))
        /\ Cut(elts, elts', row', k)
    BY <1>1, <1>2, <1>3, <1>6, DeleteIs
  <2>2. \A j \in Slots(row) : elts[j] # Empty => elts'[j] # Empty
    <3>1. Slot(None, Void) # Empty
      BY HashConstants DEF Slot, Empty
    <3> QED BY <1>2, <1>3, <1>6, <3>1
  <2>3. RefOK(elts', row', ref')
    BY <1>3, <2>2 DEF HashInv, RefOK
  <2>4. ~ Interleaved => ref = None /\ Held(elts', row', ref')
    BY <1>3, <2>1 DEF HashInv, Held, Idle
  <2>5. HashInv'
    BY <1>3, <2>1, <2>3, <2>4 DEF HashInv
  <2>6. MapOf(elts') = [l \in DOMAIN m \ {k} |-> m[l]]
    BY <1>1, <1>2, <2>1, CutMap
  <2>7. Promise!Delete(k)
    BY <1>3, <1>4, <2>6 DEF Promise!Delete
  <2> QED BY <2>5, <2>7 DEF Follows, Promise!Next
<1>7. CASE ~ Valid(elts, i)
  <2>1. UNCHANGED <<elts, count>>
    BY <1>3, <1>7
  <2>2. HashInv'
    BY <1>3, <2>1 DEF HashInv
  <2>3. Mapping' = [l \in DOMAIN Mapping \ {k} |-> Mapping[l]]
    <3>1. MapOf(elts') = m /\ DOMAIN m \ {k} = DOMAIN m
      BY <1>1, <1>5, <1>7, <2>1
    <3> QED BY <1>4, <1>5, <3>1
  <2>4. Promise!Delete(k)
    BY <1>3, <2>3 DEF Promise!Delete
  <2> QED BY <2>2, <2>4 DEF Follows, Promise!Next
<1> QED BY <1>6, <1>7

LEMMA HashRefStep ==
  ASSUME HashInv, NEW k \in Keys, HashRef(k)
  PROVE  HashInv' /\ Follows
<1>1. PICK full \in BOOLEAN : full = (Full(count) /\ count = HashSets[row].entries)
  BY DEF Full
<1>2. PICK t : t = Grown(full)
  OBVIOUS
<1>3. PICK i : i = Find(t.elts, t.row, k)
  OBVIOUS
<1>4. PICK v : v = IF Valid(t.elts, i) \/ def = None THEN t.elts[i].value ELSE def
  OBVIOUS
<1>5. PICK s : s = Slot(k, v)
  OBVIOUS
<1>6. /\ Becomes([t EXCEPT !.elts[i] = s, !.count = Added(t, i)])
      /\ ref = None /\ ref' = [key |-> k, elt |-> i, live |-> TRUE] /\ result' = {} /\ def' = def
  BY <1>1, <1>2, <1>3, <1>4, <1>5 DEF HashRef
<1>7. Good(elts, row, count) /\ TableOK(elts, row) /\ def \in Values \cup {None}
  BY GoodIs DEF HashInv
<1>8. full <=> Full(count)
  <2>1. count \in Nat /\ count <= HashSets[row].entries /\ HashSets[row].entries \in Nat
    BY <1>7, GoodIs, RowIs
  <2>2. (Full(count) /\ count = HashSets[row].entries) <=> Full(count)
    BY <2>1 DEF Full
  <2> QED BY <1>1, <2>2
<1>9. PICK e, r, n : e = t.elts /\ r = t.row /\ n = t.count
  OBVIOUS
<1>10. /\ Good(e, r, n) /\ TableOK(e, r) /\ Content(e) = Content(elts)
       /\ Clean(elts, row) => Clean(e, r)
  BY <1>2, <1>7, <1>8, <1>9, GrownIs, GoodIs
<1>11. i \in Slots(r) /\ e[i] \in EltType
  BY <1>3, <1>9, <1>10, FoundIs
<1>12. v \in Values \cup {Void, None} /\ s \in EltType /\ s.key = k /\ s.value = v
  <2>1. v \in Values \cup {Void, None}
    BY <1>4, <1>7, <1>9, <1>11 DEF EltType
  <2> QED BY <1>5, <2>1, SlotIs
<1>13. Inserts(full, k, s, i)
  BY <1>2, <1>3, <1>6, <1>8, <1>12, InsertIs
<1>14. /\ Good(elts', row', count') /\ Put(elts, elts', row', s) /\ i \in Slots(row') /\ elts'[i] = s
       /\ Clean(elts, row) => Clean(elts', row')
  BY <1>13 DEF Inserts
<1>15. ref' \in RefType /\ ref'.elt = i /\ ref'.live /\ ref'.key = k /\ ref' # None
  <2>1. row' \in DOMAIN HashSets
    BY <1>14, GoodIs
  <2>2. i \in Nat
    BY <1>14, <2>1, SlotsIs
  <2>3. ref' \in RefType
    BY <1>6, <2>2 DEF RefType
  <2> QED BY <1>6, <2>3, RefTypeIs
<1>16. HashInv'
  <2>1. s # Empty
    BY <1>12, KeyIsNotNone DEF Empty, Slot
  <2>2. RefOK(elts', row', ref')
    BY <1>14, <1>15, <2>1 DEF RefOK
  <2>3. ~ Interleaved => Held(elts', row', ref')
    BY <1>12, <1>14, <1>15 DEF HashInv, Held
  <2> QED BY <1>6, <1>7, <1>14, <2>2, <2>3 DEF HashInv
<1>17. ASSUME ~ Interleaved  PROVE Promise!Refer(k)
  <2>1. PICK m : m = MapOf(elts)
    OBVIOUS
  <2>2. MapOf(e) = m
    BY <1>7, <1>10, <2>1, SameMap
  <2>3. (Valid(e, i) <=> k \in DOMAIN m) /\ (Valid(e, i) => m[k] = e[i].value)
    BY <1>3, <1>9, <1>10, <2>2, FindMap
  <2>4. MapOf(elts') = [l \in DOMAIN m \cup {k} |-> IF l = k THEN v ELSE m[l]]
    BY <1>7, <1>12, <1>14, <2>1, PutMap
  <2>5. Mapping = m /\ Mapping' = MapOf(elts')
    BY <2>1, MappingIs DEF Mapping, MapOf
  <2>6. m = [l \in DOMAIN m |-> m[l]]
    <3>1. m = [l \in KeysOf(elts) |-> m[l]]
      BY <1>7, <2>1, MapIs
    <3> QED BY <3>1
  <2>7. CASE k \in DOMAIN m
    <3>1. v = m[k]
      BY <1>4, <1>9, <2>3, <2>7
    <3>2. MapOf(elts') = m
      BY <2>4, <2>6, <2>7, <3>1
    <3> QED BY <1>6, <1>15, <2>5, <2>7, <3>2 DEF Promise!Refer
  <2>8. CASE k \notin DOMAIN m /\ def # None
    <3>1. v = def
      BY <1>4, <1>9, <2>3, <2>8
    <3> QED BY <1>6, <1>15, <2>4, <2>5, <2>8, <3>1 DEF Promise!Refer, Promise!With
  <2>9. CASE k \notin DOMAIN m /\ def = None
    <3>1. Clean(e, r)
      BY <1>10, <1>17 DEF HashInv, Held
    <3>2. v \in {None, Void}
      BY <1>4, <1>9, <1>11, <2>3, <2>9, <3>1 DEF Clean, Valid
    <3> QED BY <1>6, <1>15, <2>4, <2>5, <2>9, <3>2 DEF Promise!Refer, Promise!With
  <2> QED BY <2>7, <2>8, <2>9
<1> QED BY <1>16, <1>17 DEF Follows, Promise!Next

LEMMA AssignStep ==
  ASSUME HashInv, NEW v \in Values, Assign(v)
  PROVE  HashInv' /\ Follows
<1>1. /\ ref # None /\ elts' = IF ref.live THEN [elts EXCEPT ![ref.elt].value = v] ELSE elts
      /\ ref' = None /\ result' = {} /\ row' = row /\ count' = count /\ def' = def
  BY DEF Assign
<1>2. /\ Good(elts, row, count) /\ TableOK(elts, row) /\ ref \in RefType
      /\ ref.live => ref.elt \in Slots(row) /\ elts[ref.elt] # Empty
      /\ ~ Interleaved => Clean(elts, row) /\ ref.live /\ elts[ref.elt].key = ref.key
  BY <1>1, GoodIs DEF HashInv, RefOK, Held
<1>3. CASE ~ ref.live
  <2>1. elts' = elts /\ Interleaved
    BY <1>1, <1>2, <1>3
  <2>2. HashInv'
    BY <1>1, <2>1 DEF HashInv, RefOK
  <2> QED BY <2>1, <2>2 DEF Follows
<1>4. CASE ref.live
  <2>1. PICK f \in Slots(row), k \in Keys : f = ref.elt /\ k = ref.key
    BY <1>2, <1>4 DEF RefType
  <2>2. elts \in [Slots(row) -> EltType]
    BY <1>2 DEF TableOK
  <2>3. PICK s : s = [elts[f] EXCEPT !.value = v]
    OBVIOUS
  <2>4. elts' = [elts EXCEPT ![f] = s]
    BY <1>1, <1>4, <2>1, <2>2, <2>3
  <2>5. s \in EltType /\ s.key = elts[f].key /\ s.value = v
    BY <2>2, <2>3 DEF EltType
  <2>6. s # Empty
    BY <2>5, HashConstants DEF Empty, Slot
  <2>7. TableOK(elts', row)
    BY <1>2, <2>4, <2>5, <2>6, ChangeOK
  <2>8. ValidSlots(elts') = ValidSlots(elts)
    <3>1. DOMAIN elts' = DOMAIN elts /\ \A j \in DOMAIN elts : elts'[j].key = elts[j].key
      BY <2>2, <2>4, <2>5
    <3> QED BY <3>1 DEF ValidSlots, Valid
  <2>9. Good(elts', row', count')
    BY <1>1, <1>2, <2>7, <2>8 DEF Good
  <2>10. ASSUME ~ Interleaved  PROVE Held(elts', row', ref') /\ Promise!Assign(v)
    <3>1. s.key = k /\ k # None /\ elts[f].key = k
      BY <1>2, <2>1, <2>5, <2>10, KeyIsNotNone
    <3>2. Clean(elts', row')
      <4>1. \A j \in Slots(row) : elts'[j] = s \/ elts'[j] = elts[j]
        BY <2>2, <2>4
      <4> QED BY <1>1, <1>2, <2>10, <3>1, <4>1 DEF Clean
    <3>3. Fits(elts, row, k, f)
      <4>1. row \in DOMAIN HashSets /\ Chained(elts, row)
        BY <1>2 DEF TableOK
      <4>2. PICK j \in Slots(row) : f = Chain[row][k][j]
        BY <4>1, ChainIs
      <4>3. Ahead(elts, row, k, j)
        BY <3>1, <4>1, <4>2 DEF Chained
      <4> QED BY <3>1, <4>2, <4>3 DEF Fits
    <3>4. Put(elts, elts', row, s)
      BY <1>2, <2>4, <2>5, <3>1, <3>3, PutContent
    <3>5. PICK m : m = MapOf(elts)
      OBVIOUS
    <3>6. MapOf(elts') = [l \in DOMAIN m \cup {k} |-> IF l = k THEN v ELSE m[l]]
      BY <1>2, <2>5, <3>1, <3>4, <3>5, PutMap
    <3>7. k \in DOMAIN m
      <4>1. DOMAIN m = KeysOf(elts)
        BY <1>2, <3>5, MapIs
      <4> QED BY <2>2, <3>1, <4>1 DEF KeysOf, ValidSlots, Valid
    <3>8. Mapping = m /\ Mapping' = MapOf(elts')
      BY <3>5, MappingIs DEF Mapping, MapOf
    <3>9. Promise!Assign(v)
      BY <1>1, <2>1, <3>1, <3>6, <3>7, <3>8 DEF Promise!Assign, Promise!With
    <3> QED BY <1>1, <3>2, <3>9 DEF Held
  <2>11. HashInv'
    BY <1>1, <2>9, <2>10 DEF HashInv, RefOK
  <2> QED BY <2>10, <2>11 DEF Follows, Promise!Next
<1> QED BY <1>3, <1>4

-----------------------------------------------------------------------------
(* Theorems *)

LEMMA HashInit ==
  ASSUME Init
  PROVE  HashInv /\ Promise!Init
<1>1. 1 \in DOMAIN HashSets
  <2>1. Len(HashSets) \in DOMAIN HashSets /\ DOMAIN HashSets = 1..Len(HashSets)
    BY LastRow
  <2>2. Len(HashSets) \in Nat
    BY HashConstants, LenProperties
  <2> QED BY <2>1, <2>2
<1>2. row = 1 /\ elts = Blank(1) /\ count = 0 /\ def = None /\ ref = None /\ result = {}
  BY DEF Init, Blank
<1>3. TableOK(elts, row) /\ Content(elts) = {} /\ Clean(elts, row)
  BY <1>1, <1>2, BlankIs
<1>4. KeysOf(elts) = {}
  BY <1>3, ContentIs
<1>5. Cardinality(ValidSlots(elts)) = 0
  BY <1>3, <1>4, CountIs, FS_EmptySet
<1>6. Good(elts, row, count)
  BY <1>1, <1>2, <1>3, <1>5, RowIs DEF Good
<1>7. HashInv
  BY <1>2, <1>3, <1>6 DEF HashInv, RefOK, Held
<1>8. Mapping = <<>>
  <2>1. MapOf(elts) = [k \in {} |-> MapOf(elts)[k]]
    BY <1>3, <1>4, MapIs
  <2> QED BY <2>1, MappingIs
<1> QED BY <1>2, <1>7, <1>8 DEF Promise!Init

LEMMA HashStep ==
  ASSUME HashInv, [Next]_vars, ~ ReadsGrow
  PROVE  HashInv' /\ Follows
<1>1. CASE \E k \in Keys : HashGet(k) \/ HashRef(k) \/ HashTest(k) \/ HashDelete(k)
  BY <1>1, HashGetStep, HashRefStep, HashTestStep, HashDeleteStep
<1>2. CASE \E v \in Values : HashSetDef(v) \/ Assign(v) \/ \E k \in Keys : HashSet(k, v)
  BY <1>2, HashSetDefStep, AssignStep, HashSetStep
<1>3. CASE HashKeys
  BY <1>3, HashKeysStep
<1>4. CASE HashCopy
  BY <1>4, HashCopyStep
<1>5. CASE UNCHANGED vars
  <2>1. HashInv'
    BY <1>5 DEF HashInv, vars
  <2>2. UNCHANGED Promise!vars
    BY <1>5 DEF vars, Promise!vars, Mapping
  <2> QED BY <2>1, <2>2 DEF Follows
<1> QED BY <1>1, <1>2, <1>3, <1>4, <1>5 DEF Next

LEMMA InvIsSound ==
  ASSUME HashInv
  PROVE  HashSound
<1>1. /\ TableOK(elts, row) /\ row \in DOMAIN HashSets /\ Good(elts, row, count)
      /\ elts \in [Slots(row) -> EltType] /\ count \in Nat /\ count = Cardinality(ValidSlots(elts))
      /\ count <= HashSets[row].entries /\ count < HashSets[row].size
  BY GoodIs DEF HashInv, Good, TableOK
<1>2. HashSets[row].entries \in Nat
  BY <1>1, RowIs
<1>3. HashTypeOK
  <2>1. count \in 0..HashSets[row].entries
    BY <1>1, <1>2
  <2>2. ref # None => ref.key \in Keys
    BY DEF HashInv, RefOK, RefType
  <2> QED BY <1>1, <2>1, <2>2 DEF HashTypeOK, HashInv, EltType
<1>4. ASSUME NEW i \in ValidSlots(elts)  PROVE Find(elts, row, elts[i].key) = i
  <2>1. PICK k : k = elts[i].key
    OBVIOUS
  <2>2. i \in Slots(row) /\ k \in Keys /\ k \in KeysOf(elts)
    <3>1. KeysOf(elts) \subseteq Keys /\ ValidSlots(elts) \subseteq Slots(row)
      BY <1>1, ContentIs
    <3> QED BY <2>1, <3>1 DEF KeysOf
  <2>3. PICK f : f = Find(elts, row, k)
    OBVIOUS
  <2>4. f \in Slots(row) /\ elts[f].key = k
    BY <1>1, <2>2, <2>3, FoundIs
  <2> QED BY <1>1, <2>1, <2>2, <2>3, <2>4, UniqueKey
<1> QED BY <1>1, <1>3, <1>4 DEF HashSound, EntriesFound

\* As long as no missing key is read from a full table, every entry is found
\* under its key and counted once, and no table is too full to be searched: for
\* every table of sizes, whatever the keys hash to, and also when the table is used
\* between HashRef and the assignment.
THEOREM HashStaysSound == ~ ReadsGrow => (Spec => []HashSound)
<1> SUFFICES ASSUME ~ ReadsGrow  PROVE Spec => []HashSound
  OBVIOUS
<1>1. Init => HashInv
  BY HashInit
<1>2. HashInv /\ [Next]_vars => HashInv'
  BY HashStep
<1>3. HashInv => HashSound
  BY InvIsSound
<1> QED BY <1>1, <1>2, <1>3, PTL DEF Spec

\* And if every reference is assigned to before the table is used again, each
\* operation does to the table what it does to a mapping.
THEOREM HashIsMap == ~ ReadsGrow /\ ~ Interleaved => (Spec => ImplementsMap)
<1> SUFFICES ASSUME ~ ReadsGrow, ~ Interleaved  PROVE Spec => ImplementsMap
  OBVIOUS
<1>1. Init => HashInv /\ Promise!Init
  BY HashInit
<1>2. HashInv /\ [Next]_vars => HashInv' /\ [Promise!Next]_(Promise!vars)
  BY HashStep DEF Follows
<1> QED BY <1>1, <1>2, PTL DEF Spec, ImplementsMap, Promise!Spec

\* As long as no missing key is read from a full table, an element that has been
\* read is in the table.
THEOREM ReadsInstantiate == ~ ReadsGrow => (Spec => GetInstantiates)
<1> SUFFICES ASSUME ~ ReadsGrow  PROVE Spec => GetInstantiates
  OBVIOUS
<1>1. Init => HashInv
  BY HashInit
<1>2. HashInv /\ [Next]_vars => HashInv'
  BY HashStep
<1>3. HashInv => [\A k \in Keys : HashGet(k) /\ def # None => k \in DOMAIN Mapping']_vars
  BY HashGetStep
<1> QED BY <1>1, <1>2, <1>3, PTL DEF Spec, GetInstantiates

=============================================================================
