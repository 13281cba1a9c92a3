----------------------------- MODULE MemProofs ------------------------------
(***************************************************************************)
(* Proofs about Mem: that a collection frees what cannot be reached and    *)
(* nothing else, wherever an allocation makes it run.                      *)
(***************************************************************************)
EXTENDS Mem, FiniteSetTheorems, FunctionTheorems, SequenceTheorems,
        WellFoundedInduction, TLAPS

-----------------------------------------------------------------------------
(* Recursion over 0..n *)

LEMMA Least ==
  ASSUME NEW S \in SUBSET Nat, S # {}
  PROVE  \E i \in S : \A j \in S : i <= j
<1> DEFINE upto(i) == {j \in S : j <= i}
           U == {upto(i) : i \in S}
<1>1. \A j \in S : j \in Nat
  OBVIOUS
<1>2. ASSUME NEW i \in S  PROVE upto(i) \in FiniteSubsetsOf(S)
  <2>1. i \in Nat /\ \A j \in S : j <= i => j \in 0..i
    BY <1>1
  <2>2. upto(i) \subseteq 0..i
    BY <2>1
  <2>3. IsFiniteSet(0..i)
    BY <2>1, FS_Interval
  <2> HIDE DEF upto
  <2>4. IsFiniteSet(upto(i))
    BY <2>2, <2>3, FS_Subset
  <2> QED BY <2>4 DEF FiniteSubsetsOf, upto
<1>3. PICK m \in U : \A u \in U : ~ (<<u, m>> \in StrictSubsetOrdering(S))
  <2>1. U \subseteq FiniteSubsetsOf(S) /\ U # {}
    BY <1>2
  <2> HIDE DEF U
  <2> QED BY <2>1, FS_StrictSubsetOrderingWellFounded, WFMin, Zenon
<1>4. PICK i \in S : m = upto(i)
  BY <1>3
<1>5. ASSUME NEW j \in S, j < i  PROVE FALSE
  <2>1. (\A x \in S : x <= j => x <= i) /\ i <= i /\ ~ (i <= j)
    BY <1>1, <1>5
  <2>2. upto(j) \subseteq upto(i) /\ i \in upto(i) /\ i \notin upto(j)
    BY <2>1
  <2>3. <<upto(j), upto(i)>> \in StrictSubsetOrdering(S)
    BY <2>2 DEF StrictSubsetOrdering
  <2> QED BY <1>3, <1>4, <2>3
<1> QED BY <1>1, <1>5

LEMMA UpTo ==
  ASSUME NEW n \in Nat, NEW S, 0 \in S, \A i \in 1..n : i - 1 \in S => i \in S
  PROVE  \A i \in 0..n : i \in S
<1> DEFINE left == {i \in 0..n : i \notin S}
<1> SUFFICES ASSUME left # {}  PROVE FALSE
  OBVIOUS
<1>1. PICK i \in left : \A j \in left : i <= j
  <2>1. left \in SUBSET Nat
    OBVIOUS
  <2> QED BY <2>1, Least
<1>2. i \in 1..n /\ i - 1 \in 0..n /\ ~ (i <= i - 1)
  BY <1>1
<1> QED BY <1>1, <1>2

Runs(f, n, first, step) == f[0] = first /\ \A i \in 1..n : f[i] = step[<<i, f[i - 1]>>]

\* A function on 0..n can be defined by its value at 0 and a step.
LEMMA Recursion ==
  ASSUME NEW n \in Nat, NEW T, NEW first \in T, NEW step \in [(1..n) \X T -> T]
  PROVE  \E f \in [0..n -> T] : Runs(f, n, first, step)
<1> DEFINE Defines(m, f) == /\ f \in [0..m -> T] /\ f[0] = first
                            /\ \A i \in 1..m : f[i] = step[<<i, f[i - 1]>>]
           S == {m \in 0..n : \E f : Defines(m, f)}
<1>1. 0 \in S
  <2> DEFINE f == [i \in 0..0 |-> first]
  <2>1. f \in [0..0 -> T] /\ f[0] = first /\ 1..0 = {}
    OBVIOUS
  <2> HIDE DEF f
  <2>2. Defines(0, f)
    BY <2>1
  <2> QED BY <2>2
<1>2. ASSUME NEW m \in 1..n, m - 1 \in S  PROVE m \in S
  <2>1. PICK f : Defines(m - 1, f)
    BY <1>2
  <2> DEFINE g == [i \in 0..m |-> IF i = m THEN step[<<m, f[m - 1]>>] ELSE f[i]]
  <2>2. \A i \in 0..m : i # m => i \in 0..m-1
    OBVIOUS
  <2>3. f[m - 1] \in T
    BY <2>1
  <2>4. g \in [0..m -> T]
    BY <2>1, <2>2, <2>3
  <2>5. g[0] = first
    BY <2>1
  <2>6. ASSUME NEW i \in 1..m  PROVE g[i] = step[<<i, g[i - 1]>>]
    <3>1. i - 1 \in 0..m /\ i - 1 # m /\ g[i - 1] = f[i - 1] /\ (i # m => i \in 1..m-1)
      OBVIOUS
    <3>2. CASE i = m
      BY <3>1, <3>2
    <3>3. CASE i # m
      <4>1. g[i] = f[i] /\ f[i] = step[<<i, f[i - 1]>>]
        BY <2>1, <3>1, <3>3
      <4> QED BY <3>1, <4>1
    <3> QED BY <3>2, <3>3
  <2>7. Defines(m, g)
    <3> HIDE DEF g
    <3> QED BY <2>4, <2>5, <2>6
  <2>8. m \in 0..n
    OBVIOUS
  <2> HIDE DEF g
  <2>9. \E d : Defines(m, d)
    BY <2>7
  <2> HIDE DEF Defines
  <2> QED BY <2>8, <2>9
<1>3. n \in S
  <2>1. \A m \in 1..n : m - 1 \in S => m \in S
    BY <1>2
  <2>2. n \in 0..n
    OBVIOUS
  <2> HIDE DEF S
  <2> QED BY <1>1, <2>1, <2>2, UpTo
<1> QED BY <1>3 DEF Runs

-----------------------------------------------------------------------------
(* The elements of a sequence that are in a set *)

LEMMA AppendRange ==
  ASSUME NEW T, NEW s \in Seq(T), NEW e \in T
  PROVE  /\ Append(s, e) \in Seq(T) /\ Range(Append(s, e)) = Range(s) \cup {e}
         /\ IsInjective(s) /\ e \notin Range(s) => IsInjective(Append(s, e))
<1> DEFINE n == Len(s)
<1>1. n \in Nat /\ DOMAIN s = 1..n
  BY LenProperties
<1>2. PICK a : a = Append(s, e)
  OBVIOUS
<1>3. /\ a \in Seq(T) /\ DOMAIN a = 1..(n + 1)
      /\ \A i \in 1..n : a[i] = s[i]
      /\ a[n + 1] = e
  <2>1. /\ a \in Seq(T) /\ Len(a) = Len(s) + 1
        /\ \A i \in 1..Len(s) : a[i] = s[i]
        /\ a[Len(s) + 1] = e
    BY <1>2, AppendProperties
  <2>2. DOMAIN a = 1..Len(a)
    BY <2>1, LenProperties
  <2> QED BY <2>1, <2>2
<1> HIDE DEF n
<1>4. \A i \in 1..(n + 1) : i \in 1..n \/ i = n + 1
  BY <1>1
<1>5. 1..n \subseteq 1..(n + 1) /\ n + 1 \in 1..(n + 1)
  BY <1>1
<1>6. Range(a) = Range(s) \cup {e}
  BY <1>1, <1>3, <1>4, <1>5 DEF Range
<1>7. ASSUME IsInjective(s), e \notin Range(s)  PROVE IsInjective(a)
  <2>1. \A i \in 1..n : s[i] # e
    BY <1>1, <1>7 DEF Range
  <2>2. \A i, j \in 1..n : s[i] = s[j] => i = j
    BY <1>1, <1>7 DEF IsInjective
  <2>3. ASSUME NEW i \in 1..(n + 1), NEW j \in 1..(n + 1), a[i] = a[j]  PROVE i = j
    BY <1>3, <1>4, <2>1, <2>2, <2>3
  <2> QED BY <1>3, <2>3 DEF IsInjective
<1> QED BY <1>2, <1>3, <1>6, <1>7

KeptBy(f, s, set) ==
  /\ f[0] = <<>>
  /\ \A i \in 1..Len(s) : f[i] = IF s[i] \in set THEN Append(f[i - 1], s[i]) ELSE f[i - 1]
  /\ Kept(s, set) = f[Len(s)]

LEMMA KeptSteps ==
  ASSUME NEW T, NEW s \in Seq(T), NEW set
  PROVE  \E f \in [0..Len(s) -> Seq(T)] : KeptBy(f, s, set)
<1> DEFINE n == Len(s)
           Next1(i, t) == IF s[i] \in set THEN Append(t, s[i]) ELSE t
           step == [p \in (1..n) \X Seq(T) |-> Next1(p[1], p[2])]
           Eq(K) == K = [m \in 0..Len(s) |->
                           IF m = 0 THEN <<>>
                           ELSE IF s[m] \in set THEN Append(K[m - 1], s[m]) ELSE K[m - 1]]
<1>1. n \in Nat /\ <<>> \in Seq(T) /\ \A i \in 1..n : s[i] \in T
  BY LenProperties, ElementOfSeq, EmptySeq
<1>2. \A i \in 1..n, t \in Seq(T) : Next1(i, t) \in Seq(T)
  BY <1>1, AppendProperties
<1>3. step \in [(1..n) \X Seq(T) -> Seq(T)]
  BY <1>2
<1>4. PICK f \in [0..n -> Seq(T)] : f[0] = <<>> /\ \A i \in 1..n : f[i] = step[<<i, f[i - 1]>>]
  <2> HIDE DEF step, n
  <2>1. PICK f \in [0..n -> Seq(T)] : Runs(f, n, <<>>, step)
    BY <1>1, <1>3, Recursion
  <2> QED BY <2>1 DEF Runs
<1>5. \A i \in 1..n : f[i] = Next1(i, f[i - 1])
  <2> TAKE i \in 1..n
  <2>1. f[i - 1] \in Seq(T)
    BY <1>1, <1>4
  <2>2. step[<<i, f[i - 1]>>] = Next1(i, f[i - 1])
    BY <2>1
  <2> HIDE DEF step
  <2> QED BY <1>4, <2>2
<1>6. Eq(f)
  <2>1. \A m \in 0..n : m = 0 \/ m \in 1..n
    BY <1>1
  <2>2. \A m \in 0..n : f[m] = IF m = 0 THEN <<>> ELSE Next1(m, f[m - 1])
    BY <1>4, <1>5, <2>1
  <2> HIDE DEF n
  <2>3. f = [m \in 0..n |-> IF m = 0 THEN <<>> ELSE Next1(m, f[m - 1])]
    BY <1>4, <2>2
  <2> QED BY <2>3 DEF n
<1>7. PICK K : Eq(K) /\ K = CHOOSE g : Eq(g)
  BY <1>6
<1>8. Kept(s, set) = K[n]
  BY <1>7, Zenon DEF Kept
<1>9. \A m \in 0..n : K[m] = f[m]
  <2> DEFINE S == {m \in 0..n : K[m] = f[m]}
  <2>1. K[0] = <<>> /\ \A m \in 1..n : K[m] = Next1(m, K[m - 1])
    <3>1. 0 \in 0..n /\ \A m \in 1..n : m \in 0..n /\ m # 0
      BY <1>1
    <3> QED BY <1>7, <3>1
  <2>2. 0 \in S
    BY <1>1, <1>4, <2>1
  <2>3. \A m \in 1..n : m - 1 \in S => m \in S
    BY <1>5, <2>1
  <2>4. \A m \in 0..n : m \in S
    <3> HIDE DEF S
    <3> QED BY <1>1, <2>2, <2>3, UpTo
  <2> QED BY <2>4
<1>10. Kept(s, set) = f[n]
  BY <1>1, <1>8, <1>9
<1>11. KeptBy(f, s, set)
  BY <1>4, <1>5, <1>10 DEF KeptBy
<1> QED BY <1>4, <1>11

LEMMA KeptIs ==
  ASSUME NEW T, NEW s \in Seq(T), NEW set
  PROVE  /\ Kept(s, set) \in Seq(T) /\ Range(Kept(s, set)) = Range(s) \cap set
         /\ IsInjective(s) => IsInjective(Kept(s, set))
<1> DEFINE n == Len(s)
           upto(m) == {s[j] : j \in 1..m} \cap set
<1>1. n \in Nat /\ DOMAIN s = 1..n /\ \A i \in 1..n : s[i] \in T
  BY LenProperties, ElementOfSeq
<1>2. PICK f \in [0..n -> Seq(T)] :
           /\ f[0] = <<>>
           /\ \A i \in 1..n : f[i] = IF s[i] \in set THEN Append(f[i - 1], s[i]) ELSE f[i - 1]
           /\ Kept(s, set) = f[n]
  <2>1. PICK f \in [0..n -> Seq(T)] : KeptBy(f, s, set)
    BY KeptSteps
  <2> QED BY <2>1 DEF KeptBy
<1> DEFINE S == {m \in 0..n : /\ Range(f[m]) = upto(m)
                              /\ IsInjective(s) => IsInjective(f[m])}
<1>3. 0 \in S
  <2>1. DOMAIN <<>> = {} /\ 1..0 = {}
    BY EmptySeq, LenProperties
  <2>2. Range(<<>>) = {} /\ IsInjective(<<>>)
    BY <2>1 DEF Range, IsInjective
  <2>3. upto(0) = {}
    BY <2>1
  <2> QED BY <1>1, <1>2, <2>2, <2>3
<1>4. ASSUME NEW m \in 1..n, m - 1 \in S  PROVE m \in S
  <2>1. m - 1 \in 0..n /\ m \in 0..n /\ s[m] \in T /\ f[m - 1] \in Seq(T)
    BY <1>1, <1>2
  <2>2. \A j \in 1..m : j \in 1..m-1 \/ j = m
    BY <1>1
  <2>3. \A j \in 1..m-1 : j \in 1..n /\ j # m /\ j \in 1..m
    BY <1>1
  <2>4. upto(m) = upto(m - 1) \cup ({s[m]} \cap set)
    BY <2>2, <2>3
  <2>5. Range(f[m - 1]) = upto(m - 1) /\ (IsInjective(s) => IsInjective(f[m - 1]))
    BY <1>4
  <2>6. CASE s[m] \in set
    <3>1. f[m] = Append(f[m - 1], s[m])
      BY <1>2, <2>6
    <3>2. Range(f[m]) = Range(f[m - 1]) \cup {s[m]}
      BY <2>1, <3>1, AppendRange
    <3>3. IsInjective(s) => s[m] \notin upto(m - 1)
      BY <1>1, <2>3 DEF IsInjective
    <3>4. IsInjective(s) => IsInjective(f[m])
      <4> HIDE DEF upto
      <4> QED BY <2>1, <2>5, <3>1, <3>3, AppendRange
    <3>5. Range(f[m]) = upto(m)
      <4>1. {s[m]} \cap set = {s[m]}
        BY <2>6
      <4> HIDE DEF upto
      <4> QED BY <2>4, <2>5, <3>2, <4>1
    <3> QED BY <2>1, <3>4, <3>5
  <2>7. CASE s[m] \notin set
    <3>1. f[m] = f[m - 1]
      BY <1>2, <2>7
    <3>2. upto(m) = upto(m - 1)
      BY <2>4, <2>7
    <3> HIDE DEF upto
    <3> QED BY <2>1, <2>5, <3>1, <3>2
  <2> QED BY <2>6, <2>7
<1>5. n \in S
  <2>1. n \in 0..n
    BY <1>1
  <2> HIDE DEF S
  <2> QED BY <1>1, <1>3, <1>4, <2>1, UpTo
<1>6. upto(n) = Range(s) \cap set
  BY <1>1 DEF Range
<1>7. f[n] \in Seq(T)
  BY <1>1, <1>2
<1> QED BY <1>2, <1>5, <1>6, <1>7

-----------------------------------------------------------------------------
(* The objects that pointers lead to *)

LEMMA MostIs ==
  MostHunks \in Nat /\ \A c \in DOMAIN NumHunk : NumHunk[c] \in Nat \ {0} /\ NumHunk[c] <= MostHunks
<1> DEFINE M == {NumHunk[c] : c \in DOMAIN NumHunk}
           a == NumHunk["small"]
           b == NumHunk["large"]
           d == NumHunk["huge"]
<1>1. M = {a, b, d} /\ a \in Nat \ {0} /\ b \in Nat \ {0} /\ d \in Nat \ {0}
  BY MemConstants
<1> HIDE DEF a, b, d
<1>2. \E n \in {a, b, d} : a <= n /\ b <= n /\ d <= n
  BY <1>1
<1>3. \E n \in M : \A c \in DOMAIN NumHunk : NumHunk[c] <= n
  BY <1>1, <1>2, MemConstants DEF a, b, d
<1>4. MostHunks \in M /\ \A c \in DOMAIN NumHunk : NumHunk[c] <= MostHunks
  BY <1>3 DEF MostHunks
<1> QED BY <1>1, <1>4, MemConstants

LEMMA HunksFinite == IsFiniteSet(Hunks) /\ Cardinality(Hunks) \in Nat
<1>1. IsFiniteSet(1..MaxBlocks) /\ IsFiniteSet(1..MostHunks)
  BY MostIs, MemConstants, FS_Interval
<1>2. IsFiniteSet(Hunks)
  BY <1>1, FS_Product DEF Hunks
<1> QED BY <1>2, FS_CardinalityType

\* No pointer of an object of the set leads out of it.
Closed(h, S) == \A o \in S : h.typ[o] = "cell" /\ h.fld[o] # Null => h.fld[o] \in S

Follow(h, S) == S \cup ({h.fld[o] : o \in {c \in S : h.typ[c] = "cell"}} \ {Null})

LEMMA FollowIs ==
  ASSUME NEW h, h.fld \in [Hunks -> Hunks \cup {Null}], NEW S \in SUBSET Hunks
  PROVE  /\ Follow(h, S) \in SUBSET Hunks /\ S \subseteq Follow(h, S)
         /\ Closed(h, S) <=> Follow(h, S) = S
         /\ \A T : S \subseteq T /\ Closed(h, T) => Follow(h, S) \subseteq T
<1>1. \A o \in S : h.fld[o] \in Hunks \cup {Null}
  OBVIOUS
<1> QED BY <1>1 DEF Follow, Closed

FollowsBy(f, h, set) ==
  /\ f[0] = set
  /\ \A i \in 1..Cardinality(Hunks) : f[i] = Follow(h, f[i - 1])
  /\ Closure(h, set) = f[Cardinality(Hunks)]

LEMMA ClosureSteps ==
  ASSUME NEW h, h.fld \in [Hunks -> Hunks \cup {Null}], NEW set \in SUBSET Hunks
  PROVE  \E f \in [0..Cardinality(Hunks) -> SUBSET Hunks] : FollowsBy(f, h, set)
<1> DEFINE n == Cardinality(Hunks)
           step == [p \in (1..n) \X SUBSET Hunks |-> Follow(h, p[2])]
           Eq(K) == K = [m \in 0..Cardinality(Hunks) |->
                           IF m = 0 THEN set
                           ELSE LET reached == K[m - 1]
                                IN  reached \cup ({h.fld[o] : o \in {c \in reached : h.typ[c] = "cell"}} \ {Null})]
<1>1. n \in Nat
  BY HunksFinite
<1>2. \A S \in SUBSET Hunks : Follow(h, S) \in SUBSET Hunks
  BY FollowIs
<1>3. step \in [(1..n) \X SUBSET Hunks -> SUBSET Hunks]
  BY <1>2
<1>4. PICK f \in [0..n -> SUBSET Hunks] : f[0] = set /\ \A i \in 1..n : f[i] = step[<<i, f[i - 1]>>]
  <2> HIDE DEF step, n
  <2>1. PICK f \in [0..n -> SUBSET Hunks] : Runs(f, n, set, step)
    BY <1>1, <1>3, Recursion
  <2> QED BY <2>1 DEF Runs
<1>5. \A i \in 1..n : f[i] = Follow(h, f[i - 1])
  <2> TAKE i \in 1..n
  <2>1. f[i - 1] \in SUBSET Hunks
    <3> HIDE DEF n
    <3> QED BY <1>1, <1>4
  <2>2. step[<<i, f[i - 1]>>] = Follow(h, f[i - 1])
    BY <2>1
  <2> HIDE DEF step
  <2> QED BY <1>4, <2>2
<1>6. Eq(f)
  <2>1. \A m \in 0..n : m = 0 \/ m \in 1..n
    BY <1>1
  <2>2. \A m \in 0..n : f[m] = IF m = 0 THEN set ELSE Follow(h, f[m - 1])
    BY <1>4, <1>5, <2>1
  <2> HIDE DEF n
  <2>3. f = [m \in 0..n |-> IF m = 0 THEN set ELSE Follow(h, f[m - 1])]
    BY <1>4, <2>2
  <2> QED BY <2>3 DEF n, Follow
<1>7. PICK K : Eq(K) /\ K = CHOOSE g : Eq(g)
  BY <1>6
<1>8. Closure(h, set) = K[n]
  BY <1>7, Zenon DEF Closure
<1>9. \A m \in 0..n : K[m] = f[m]
  <2> DEFINE S == {m \in 0..n : K[m] = f[m]}
  <2>1. K[0] = set /\ \A m \in 1..n : K[m] = Follow(h, K[m - 1])
    <3>1. 0 \in 0..n /\ \A m \in 1..n : m \in 0..n /\ m # 0
      BY <1>1
    <3> QED BY <1>7, <3>1, Zenon DEF Follow
  <2>2. 0 \in S
    BY <1>1, <1>4, <2>1
  <2>3. \A m \in 1..n : m - 1 \in S => m \in S
    BY <1>5, <2>1
  <2>4. \A m \in 0..n : m \in S
    <3> HIDE DEF S, n
    <3> QED BY <1>1, <2>2, <2>3, UpTo
  <2> QED BY <2>4
<1>10. Closure(h, set) = f[n]
  BY <1>1, <1>8, <1>9
<1>11. FollowsBy(f, h, set)
  BY <1>4, <1>5, <1>10 DEF FollowsBy
<1> QED BY <1>4, <1>11

\* The closure of a set holds it, and is closed: as many steps as there are hunks
\* are enough.
LEMMA ClosureIs ==
  ASSUME NEW h, h.fld \in [Hunks -> Hunks \cup {Null}], NEW set \in SUBSET Hunks
  PROVE  /\ Closure(h, set) \in SUBSET Hunks /\ set \subseteq Closure(h, set)
         /\ Closed(h, Closure(h, set))
<1>1. PICK n : n = Cardinality(Hunks)
  OBVIOUS
<1>2. n \in Nat
  BY <1>1, HunksFinite
<1>3. PICK f \in [0..n -> SUBSET Hunks] :
        f[0] = set /\ (\A i \in 1..n : f[i] = Follow(h, f[i - 1])) /\ Closure(h, set) = f[n]
  <2>1. PICK f \in [0..Cardinality(Hunks) -> SUBSET Hunks] : FollowsBy(f, h, set)
    BY ClosureSteps
  <2> QED BY <1>1, <2>1 DEF FollowsBy
<1> DEFINE S == {i \in 0..n : set \subseteq f[i] /\ (Closed(h, f[i]) \/ Cardinality(f[i]) >= i)}
<1>4. \A i \in 0..n : IsFiniteSet(f[i]) /\ Cardinality(f[i]) \in Nat
  <2>1. \A i \in 0..n : f[i] \in SUBSET Hunks
    BY <1>3
  <2> QED BY <2>1, HunksFinite, FS_Subset, FS_CardinalityType
<1>5. 0 \in S
  BY <1>2, <1>3, <1>4
<1>6. ASSUME NEW i \in 1..n, i - 1 \in S  PROVE i \in S
  <2>1. i - 1 \in 0..n /\ i \in 0..n
    BY <1>2
  <2>2. PICK a : a = f[i - 1]
    OBVIOUS
  <2>3. PICK b : b = f[i]
    OBVIOUS
  <2>4. a \in SUBSET Hunks /\ b = Follow(h, a) /\ set \subseteq a
    BY <1>3, <1>6, <2>1, <2>2, <2>3
  <2>5. a \subseteq b /\ (Closed(h, a) => b = a)
    BY <2>4, FollowIs
  <2>6. ASSUME ~ Closed(h, a)  PROVE Cardinality(b) >= i
    <3>1. PICK x \in b : x \notin a
      <4>1. Closed(h, a) <=> Follow(h, a) = a
        BY <2>4, FollowIs
      <4> QED BY <2>4, <2>5, <2>6, <4>1
    <3>2. IsFiniteSet(a) /\ IsFiniteSet(b) /\ Cardinality(a) \in Nat /\ Cardinality(b) \in Nat
      BY <1>4, <2>1, <2>2, <2>3
    <3>3. Cardinality(a \cup {x}) = Cardinality(a) + 1
      BY <3>1, <3>2, FS_AddElement
    <3>4. a \cup {x} \in SUBSET b
      BY <2>5, <3>1
    <3>5. Cardinality(a \cup {x}) <= Cardinality(b)
      BY <3>2, <3>4, FS_Subset
    <3>6. Cardinality(a) >= i - 1
      BY <1>6, <2>2, <2>6
    <3> QED BY <3>2, <3>3, <3>5, <3>6
  <2> QED BY <2>1, <2>3, <2>4, <2>5, <2>6
<1>7. n \in S
  <2>1. n \in 0..n
    BY <1>2
  <2> HIDE DEF S
  <2> QED BY <1>2, <1>5, <1>6, <2>1, UpTo
<1>8. f[n] \in SUBSET Hunks
  BY <1>2, <1>3
<1>9. ASSUME Cardinality(f[n]) >= n  PROVE Closed(h, f[n])
  <2>1. Cardinality(f[n]) = n
    <3>1. Cardinality(f[n]) <= n /\ Cardinality(f[n]) \in Nat
      BY <1>1, <1>2, <1>4, <1>8, HunksFinite, FS_Subset
    <3> QED BY <1>2, <1>9, <3>1
  <2>2. f[n] = Hunks
    BY <1>1, <1>8, <2>1, HunksFinite, FS_Subset
  <2> QED BY <2>2 DEF Closed
<1> QED BY <1>3, <1>7, <1>8, <1>9

\* And it is in every closed set that holds it.
LEMMA ClosureLeast ==
  ASSUME NEW h, h.fld \in [Hunks -> Hunks \cup {Null}], NEW set \in SUBSET Hunks,
         NEW T, set \subseteq T, Closed(h, T)
  PROVE  Closure(h, set) \subseteq T
<1>1. PICK n : n = Cardinality(Hunks)
  OBVIOUS
<1>2. n \in Nat
  BY <1>1, HunksFinite
<1>3. PICK f \in [0..n -> SUBSET Hunks] :
        f[0] = set /\ (\A i \in 1..n : f[i] = Follow(h, f[i - 1])) /\ Closure(h, set) = f[n]
  <2>1. PICK f \in [0..Cardinality(Hunks) -> SUBSET Hunks] : FollowsBy(f, h, set)
    BY ClosureSteps
  <2> QED BY <1>1, <2>1 DEF FollowsBy
<1> DEFINE S == {i \in 0..n : f[i] \subseteq T}
<1>4. 0 \in S
  BY <1>2, <1>3
<1>5. ASSUME NEW i \in 1..n, i - 1 \in S  PROVE i \in S
  <2>1. i - 1 \in 0..n /\ i \in 0..n
    BY <1>2
  <2>2. f[i - 1] \in SUBSET Hunks /\ f[i - 1] \subseteq T /\ f[i] = Follow(h, f[i - 1])
    BY <1>3, <1>5, <2>1
  <2>3. Follow(h, f[i - 1]) \subseteq T
    BY <2>2, FollowIs
  <2> QED BY <2>1, <2>2, <2>3
<1>6. n \in S
  <2>1. n \in 0..n
    BY <1>2
  <2> HIDE DEF S
  <2> QED BY <1>2, <1>4, <1>5, <2>1, UpTo
<1> QED BY <1>3, <1>6

-----------------------------------------------------------------------------
(* The free lists of the sweep *)

LEMMA ConcatRange ==
  ASSUME NEW T, NEW s \in Seq(T), NEW t \in Seq(T)
  PROVE  /\ s \o t \in Seq(T) /\ Range(s \o t) = Range(s) \cup Range(t)
         /\ IsInjective(s) /\ IsInjective(t) /\ Range(s) \cap Range(t) = {} => IsInjective(s \o t)
<1>1. PICK n, m, a : n = Len(s) /\ m = Len(t) /\ a = s \o t
  OBVIOUS
<1>2. n \in Nat /\ m \in Nat /\ DOMAIN s = 1..n /\ DOMAIN t = 1..m
  BY <1>1, LenProperties
<1>3. /\ a \in Seq(T) /\ DOMAIN a = 1..(n + m)
      /\ \A i \in 1..(n + m) : a[i] = IF i <= n THEN s[i] ELSE t[i - n]
  <2>1. /\ a \in Seq(T) /\ Len(a) = n + m
        /\ \A i \in 1..(n + m) : a[i] = IF i <= n THEN s[i] ELSE t[i - n]
    BY <1>1, ConcatProperties
  <2> QED BY <2>1, LenProperties
<1>4. \A i \in 1..(n + m) : \/ i \in 1..n /\ a[i] = s[i]
                            \/ i - n \in 1..m /\ a[i] = t[i - n]
  <2> TAKE i \in 1..(n + m)
  <2>1. CASE i <= n
    BY <1>2, <1>3, <2>1
  <2>2. CASE ~ (i <= n)
    <3>1. i - n \in 1..m
      BY <1>2, <2>2
    <3> QED BY <1>3, <2>2, <3>1
  <2> QED BY <2>1, <2>2
<1>5. /\ \A i \in 1..n : i \in 1..(n + m) /\ a[i] = s[i]
      /\ \A i \in 1..m : i + n \in 1..(n + m) /\ a[i + n] = t[i]
  <2>1. \A i \in 1..m : i + n \in 1..(n + m) /\ ~ (i + n <= n) /\ (i + n) - n = i
    BY <1>2
  <2>2. \A i \in 1..n : i \in 1..(n + m) /\ i <= n
    BY <1>2
  <2> QED BY <1>3, <2>1, <2>2
<1>6. Range(a) = Range(s) \cup Range(t)
  <2>1. Range(a) \subseteq Range(s) \cup Range(t)
    BY <1>2, <1>3, <1>4 DEF Range
  <2>2. Range(s) \subseteq Range(a)
    BY <1>2, <1>3, <1>5 DEF Range
  <2>3. Range(t) \subseteq Range(a)
    BY <1>2, <1>3, <1>5 DEF Range
  <2> QED BY <2>1, <2>2, <2>3
<1>7. ASSUME IsInjective(s), IsInjective(t), Range(s) \cap Range(t) = {}  PROVE IsInjective(a)
  <2>1. /\ \A i, j \in 1..n : s[i] = s[j] => i = j
        /\ \A i, j \in 1..m : t[i] = t[j] => i = j
    BY <1>2, <1>7 DEF IsInjective
  <2>2. \A i \in 1..n, j \in 1..m : s[i] # t[j]
    BY <1>2, <1>7 DEF Range
  <2>3. ASSUME NEW i \in 1..(n + m), NEW j \in 1..(n + m), a[i] = a[j]  PROVE i = j
    <3>1. CASE i \in 1..n /\ a[i] = s[i] /\ j \in 1..n /\ a[j] = s[j]
      BY <2>1, <2>3, <3>1
    <3>2. CASE i - n \in 1..m /\ a[i] = t[i - n] /\ j - n \in 1..m /\ a[j] = t[j - n]
      <4>1. i - n = j - n
        BY <2>1, <2>3, <3>2
      <4> QED BY <1>2, <4>1
    <3>3. CASE i \in 1..n /\ a[i] = s[i] /\ j - n \in 1..m /\ a[j] = t[j - n]
      BY <2>2, <2>3, <3>3
    <3>4. CASE i - n \in 1..m /\ a[i] = t[i - n] /\ j \in 1..n /\ a[j] = s[j]
      BY <2>2, <2>3, <3>4
    <3> QED BY <1>4, <3>1, <3>2, <3>3, <3>4
  <2> QED BY <1>3, <2>3 DEF IsInjective
<1> QED BY <1>1, <1>3, <1>6, <1>7

LEMMA HunksOfIs ==
  ASSUME NEW h, h.class \in [1..MaxBlocks -> DOMAIN NumHunk], NEW b \in 1..MaxBlocks
  PROVE  /\ HunksOf(h, b) \in Seq(Hunks) /\ IsInjective(HunksOf(h, b))
         /\ Range(HunksOf(h, b)) \subseteq Hunks
         /\ \A o \in Hunks : o \in Range(HunksOf(h, b)) <=> o[1] = b /\ o[2] <= NumHunk[h.class[b]]
         /\ <<b, 1>> \in Range(HunksOf(h, b))
<1>1. PICK n : n = NumHunk[h.class[b]]
  OBVIOUS
<1>2. PICK s : s = [i \in 1..n |-> <<b, i>>]
  OBVIOUS
<1>3. HunksOf(h, b) = s
  BY <1>1, <1>2 DEF HunksOf
<1>4. n \in Nat \ {0} /\ n <= MostHunks /\ MostHunks \in Nat
  BY <1>1, MostIs
<1>5. \A i \in 1..n : <<b, i>> \in Hunks
  BY <1>4 DEF Hunks
<1>6. s \in Seq(Hunks)
  BY <1>2, <1>4, <1>5
<1>7. DOMAIN s = 1..n /\ \A i \in 1..n : s[i] = <<b, i>>
  BY <1>2
<1>8. IsInjective(s)
  BY <1>7 DEF IsInjective
<1>9. Range(s) = {o \in Hunks : o[1] = b /\ o[2] <= n}
  <2>1. \A o \in Hunks : o = <<o[1], o[2]>> /\ o[2] \in Nat \ {0}
    BY <1>4 DEF Hunks
  <2>2. \A o \in Hunks : o[1] = b /\ o[2] <= n => o[2] \in 1..n /\ o = <<b, o[2]>>
    BY <1>4, <2>1
  <2>3. ASSUME NEW o \in Hunks, o[1] = b, o[2] <= n  PROVE o \in Range(s)
    BY <1>7, <2>2, <2>3 DEF Range
  <2>4. ASSUME NEW o \in Range(s)  PROVE o \in Hunks /\ o[1] = b /\ o[2] <= n
    <3>1. PICK i \in 1..n : o = <<b, i>>
      BY <1>7 DEF Range
    <3> QED BY <1>4, <1>5, <3>1
  <2> QED BY <2>3, <2>4
<1>10. <<b, 1>> \in Range(s)
  <2>1. 1 \in 1..n
    BY <1>4
  <2> QED BY <1>7, <2>1 DEF Range
<1> QED BY <1>1, <1>3, <1>6, <1>8, <1>9, <1>10

LEMMA SweptIs ==
  ASSUME NEW h, h.class \in [1..MaxBlocks -> DOMAIN NumHunk], NEW b \in 1..MaxBlocks, NEW busy
  PROVE  /\ Swept(h, busy, b) \in Seq(Hunks) /\ IsInjective(Swept(h, busy, b))
         /\ Range(Swept(h, busy, b)) = Range(HunksOf(h, b)) \ busy
<1>1. PICK s : s = HunksOf(h, b)
  OBVIOUS
<1>2. s \in Seq(Hunks) /\ IsInjective(s) /\ Range(s) \subseteq Hunks
  BY <1>1, HunksOfIs
<1>3. /\ Kept(s, Hunks \ busy) \in Seq(Hunks) /\ IsInjective(Kept(s, Hunks \ busy))
      /\ Range(Kept(s, Hunks \ busy)) = Range(s) \cap (Hunks \ busy)
  BY <1>2, KeptIs
<1> QED BY <1>1, <1>2, <1>3 DEF Swept

ListBy(f, h, busy, c) ==
  /\ f[0] = <<>>
  /\ \A i \in 1..Len(h.blocks) :
       f[i] = IF h.class[h.blocks[i]] = c /\ InUse(h, busy, h.blocks[i])
              THEN Swept(h, busy, h.blocks[i]) \o f[i - 1] ELSE f[i - 1]
  /\ Lists(h, busy)[c] = f[Len(h.blocks)]

LEMMA ListSteps ==
  ASSUME NEW h, h.class \in [1..MaxBlocks -> DOMAIN NumHunk], h.blocks \in Seq(1..MaxBlocks),
         NEW busy, NEW c \in {"small", "large"}
  PROVE  \E f \in [0..Len(h.blocks) -> Seq(Hunks)] : ListBy(f, h, busy, c)
<1> DEFINE n == Len(h.blocks)
           Next1(i, t) == IF h.class[h.blocks[i]] = c /\ InUse(h, busy, h.blocks[i])
                          THEN Swept(h, busy, h.blocks[i]) \o t ELSE t
           step == [p \in (1..n) \X Seq(Hunks) |-> Next1(p[1], p[2])]
           Eq(K) == K = [m \in 0..Len(h.blocks) |->
                           IF m = 0 THEN <<>>
                           ELSE IF h.class[h.blocks[m]] = c /\ InUse(h, busy, h.blocks[m])
                           THEN Swept(h, busy, h.blocks[m]) \o K[m - 1]
                           ELSE K[m - 1]]
<1>1. n \in Nat /\ <<>> \in Seq(Hunks) /\ \A i \in 1..n : h.blocks[i] \in 1..MaxBlocks
  BY LenProperties, ElementOfSeq, EmptySeq
<1>2. \A i \in 1..n, t \in Seq(Hunks) : Next1(i, t) \in Seq(Hunks)
  <2> TAKE i \in 1..n, t \in Seq(Hunks)
  <2>1. Swept(h, busy, h.blocks[i]) \in Seq(Hunks)
    BY <1>1, SweptIs
  <2>2. Swept(h, busy, h.blocks[i]) \o t \in Seq(Hunks)
    BY <2>1, ConcatProperties
  <2> QED BY <2>2
<1>3. step \in [(1..n) \X Seq(Hunks) -> Seq(Hunks)]
  BY <1>2
<1>4. PICK f \in [0..n -> Seq(Hunks)] : f[0] = <<>> /\ \A i \in 1..n : f[i] = step[<<i, f[i - 1]>>]
  <2> HIDE DEF step, n
  <2>1. PICK f \in [0..n -> Seq(Hunks)] : Runs(f, n, <<>>, step)
    BY <1>1, <1>3, Recursion
  <2> QED BY <2>1 DEF Runs
<1>5. \A i \in 1..n : f[i] = Next1(i, f[i - 1])
  <2> TAKE i \in 1..n
  <2>1. f[i - 1] \in Seq(Hunks)
    <3> HIDE DEF n
    <3> QED BY <1>1, <1>4
  <2>2. step[<<i, f[i - 1]>>] = Next1(i, f[i - 1])
    BY <2>1
  <2> HIDE DEF step
  <2> QED BY <1>4, <2>2
<1>6. Eq(f)
  <2>1. \A m \in 0..n : m = 0 \/ m \in 1..n
    BY <1>1
  <2>2. \A m \in 0..n : f[m] = IF m = 0 THEN <<>> ELSE Next1(m, f[m - 1])
    BY <1>4, <1>5, <2>1
  <2> HIDE DEF n
  <2>3. f = [m \in 0..n |-> IF m = 0 THEN <<>> ELSE Next1(m, f[m - 1])]
    BY <1>4, <2>2
  <2> QED BY <2>3 DEF n
<1>7. PICK K : Eq(K) /\ K = CHOOSE g : Eq(g)
  BY <1>6
<1>8. Lists(h, busy)[c] = K[n]
  BY <1>7, Zenon DEF Lists
<1>9. \A m \in 0..n : K[m] = f[m]
  <2> DEFINE S == {m \in 0..n : K[m] = f[m]}
  <2>1. K[0] = <<>> /\ \A m \in 1..n : K[m] = Next1(m, K[m - 1])
    <3>1. 0 \in 0..n /\ \A m \in 1..n : m \in 0..n /\ m # 0
      BY <1>1
    <3> QED BY <1>7, <3>1, Zenon
  <2>2. 0 \in S
    BY <1>1, <1>4, <2>1
  <2>3. \A m \in 1..n : m - 1 \in S => m \in S
    BY <1>5, <2>1
  <2>4. \A m \in 0..n : m \in S
    <3> HIDE DEF S, n
    <3> QED BY <1>1, <2>2, <2>3, UpTo
  <2> QED BY <2>4
<1>10. Lists(h, busy)[c] = f[n]
  BY <1>1, <1>8, <1>9
<1>11. ListBy(f, h, busy, c)
  BY <1>4, <1>5, <1>10 DEF ListBy
<1> QED BY <1>4, <1>11

SweptAre(list, h, busy, c) ==
  \A o : o \in Range(list) <=> \E b \in Range(h.blocks) : /\ h.class[b] = c /\ InUse(h, busy, b)
                                                        /\ o \in Range(HunksOf(h, b)) /\ o \notin busy

\* The free list of a class: the hunks that are not busy of the blocks that are in use.
LEMMA ListsIs ==
  ASSUME NEW h, h.class \in [1..MaxBlocks -> DOMAIN NumHunk], h.blocks \in Seq(1..MaxBlocks),
         IsInjective(h.blocks), NEW busy, NEW c \in {"small", "large"}
  PROVE  /\ Lists(h, busy)[c] \in Seq(Hunks) /\ IsInjective(Lists(h, busy)[c])
         /\ SweptAre(Lists(h, busy)[c], h, busy, c)
<1> DEFINE Adds(i) == h.class[h.blocks[i]] = c /\ InUse(h, busy, h.blocks[i])
           Rest(i) == Range(HunksOf(h, h.blocks[i])) \ busy
           upto(m) == UNION {Rest(i) : i \in {j \in 1..m : Adds(j)}}
<1>1. PICK n : n = Len(h.blocks)
  OBVIOUS
<1>2. n \in Nat /\ DOMAIN h.blocks = 1..n /\ \A i \in 1..n : h.blocks[i] \in 1..MaxBlocks
  BY <1>1, LenProperties, ElementOfSeq
<1>3. PICK f \in [0..n -> Seq(Hunks)] :
        /\ f[0] = <<>>
        /\ \A i \in 1..n : f[i] = IF Adds(i) THEN Swept(h, busy, h.blocks[i]) \o f[i - 1] ELSE f[i - 1]
        /\ Lists(h, busy)[c] = f[n]
  <2>1. PICK f \in [0..Len(h.blocks) -> Seq(Hunks)] : ListBy(f, h, busy, c)
    BY ListSteps
  <2> QED BY <1>1, <2>1 DEF ListBy
<1>4. \A i \in 1..n : /\ Swept(h, busy, h.blocks[i]) \in Seq(Hunks)
                      /\ IsInjective(Swept(h, busy, h.blocks[i]))
                      /\ Range(Swept(h, busy, h.blocks[i])) = Rest(i)
  BY <1>2, SweptIs
<1>5. \A i, j \in 1..n : i # j => Rest(i) \cap Rest(j) = {}
  <2> TAKE i, j \in 1..n
  <2>1. i # j => h.blocks[i] # h.blocks[j]
    BY <1>2 DEF IsInjective
  <2>2. \A b \in 1..MaxBlocks : \A o \in Range(HunksOf(h, b)) : o[1] = b
    BY HunksOfIs
  <2> QED BY <1>2, <2>1, <2>2
<1> HIDE DEF Adds, Rest
<1> DEFINE S == {m \in 0..n : Range(f[m]) = upto(m) /\ IsInjective(f[m])}
<1>6. 0 \in S
  <2>1. DOMAIN <<>> = {} /\ 1..0 = {}
    BY EmptySeq, LenProperties
  <2>2. Range(<<>>) = {} /\ IsInjective(<<>>)
    BY <2>1 DEF Range, IsInjective
  <2>3. upto(0) = {}
    BY <2>1
  <2> QED BY <1>2, <1>3, <2>2, <2>3
<1>7. ASSUME NEW m \in 1..n, m - 1 \in S  PROVE m \in S
  <2>1. m - 1 \in 0..n /\ m \in 0..n /\ f[m - 1] \in Seq(Hunks)
    BY <1>2, <1>3
  <2>2. \A j \in 1..m : j \in 1..m-1 \/ j = m
    BY <1>2
  <2>3. \A j \in 1..m-1 : j \in 1..n /\ j # m /\ j \in 1..m
    BY <1>2
  <2>4. m \in 1..m
    BY <1>2
  <2>5. Range(f[m - 1]) = upto(m - 1) /\ IsInjective(f[m - 1])
    BY <1>7
  <2>6. CASE Adds(m)
    <3>1. PICK t : t = Swept(h, busy, h.blocks[m])
      OBVIOUS
    <3>2. f[m] = t \o f[m - 1] /\ t \in Seq(Hunks) /\ IsInjective(t) /\ Range(t) = Rest(m)
      BY <1>3, <1>4, <2>6, <3>1
    <3>3. upto(m) = Rest(m) \cup upto(m - 1)
      BY <2>2, <2>3, <2>4, <2>6
    <3>4. Rest(m) \cap upto(m - 1) = {}
      BY <1>5, <2>3
    <3> HIDE DEF upto
    <3>5. Range(f[m]) = upto(m)
      BY <2>1, <2>5, <3>2, <3>3, ConcatRange
    <3>6. IsInjective(f[m])
      BY <2>1, <2>5, <3>2, <3>4, ConcatRange
    <3> QED BY <2>1, <3>5, <3>6
  <2>7. CASE ~ Adds(m)
    <3>1. f[m] = f[m - 1]
      BY <1>3, <2>7
    <3>2. upto(m) = upto(m - 1)
      BY <2>2, <2>3, <2>7
    <3> HIDE DEF upto
    <3> QED BY <2>1, <2>5, <3>1, <3>2
  <2> QED BY <2>6, <2>7
<1>8. n \in S
  <2>1. n \in 0..n
    BY <1>2
  <2> HIDE DEF S
  <2> QED BY <1>2, <1>6, <1>7, <2>1, UpTo
<1>9. \A o : o \in upto(n) <=>
        \E b \in Range(h.blocks) : /\ h.class[b] = c /\ InUse(h, busy, b)
                                 /\ o \in Range(HunksOf(h, b)) /\ o \notin busy
  <2>1. Range(h.blocks) = {h.blocks[i] : i \in 1..n}
    BY <1>2 DEF Range
  <2>2. \A o : o \in upto(n) <=> \E i \in 1..n : Adds(i) /\ o \in Rest(i)
    OBVIOUS
  <2> HIDE DEF upto
  <2> QED BY <2>1, <2>2 DEF Adds, Rest
<1>10. f[n] \in Seq(Hunks)
  BY <1>2, <1>3
<1>11. SweptAre(f[n], h, busy, c)
  BY <1>8, <1>9 DEF SweptAre
<1> QED BY <1>3, <1>8, <1>10, <1>11

-----------------------------------------------------------------------------
(* The invariant *)

\* The heap within a call: with a reference in temp, and an object in got.
Heaps ==
  [blocks : Seq(1..MaxBlocks), class : [1..MaxBlocks -> DOMAIN NumHunk],
   typ : [Hunks -> Kinds \cup {Free}], fld : [Hunks -> Hunks \cup {Null}],
   free : [{"small", "large"} -> Seq(Hunks)], sinceGarbage : Nat,
   chunks : Seq([at : Hunks, refs : Seq(Hunks)]), save : Hunks \cup {Null},
   temp : Hunks \cup {Null}, cache : Hunks \cup {Null},
   unwritten : SUBSET Hunks, blocked : SUBSET Hunks, got : Hunks \cup {Null}, panic : BOOLEAN]

\* It is a hunk of a block.
Placed(h, o) == o[1] \in Range(h.blocks) /\ o[2] <= NumHunk[h.class[o[1]]]

\* P holds the object that has been taken but has no type yet.
Lives(h, P, o) == h.typ[o] # Free \/ o \in P

PendingOK(h, P) == P \in SUBSET Hunks /\ \A o \in P : Placed(h, o) /\ h.typ[o] = Free

PlacesOK(h) == IsInjective(h.blocks) /\ \A o \in Hunks : h.typ[o] # Free => Placed(h, o)

\* Garbage too points to nothing that is free: both go in one collection.
PointersOK(h) == \A o \in Hunks : h.typ[o] = "cell" /\ h.fld[o] # Null => h.typ[h.fld[o]] # Free

ListsOK(h, P) ==
  \A c \in {"small", "large"} :
    /\ IsInjective(h.free[c])
    /\ \A o \in Hunks : o \in Range(h.free[c]) <=>
         Placed(h, o) /\ h.class[o[1]] = c /\ h.typ[o] = Free /\ o \notin P

StackOK(h, P) ==
  /\ h.chunks # <<>>
  /\ \A k \in 1..Len(h.chunks) :
       /\ h.typ[h.chunks[k].at] = "chunk"
       /\ \A i \in 1..Len(h.chunks[k].refs) : Lives(h, P, h.chunks[k].refs[i])

RootsOK(h, P) ==
  /\ h.save # Null => h.typ[h.save] = "chunk"
  /\ h.temp # Null => Lives(h, P, h.temp)
  /\ h.cache # Null => h.typ[h.cache] = "cell"
  /\ h.blocked \subseteq h.unwritten /\ \A f \in h.unwritten : h.typ[f] = "file"

Sound(h, P) ==
  /\ h \in Heaps /\ PendingOK(h, P) /\ PlacesOK(h) /\ PointersOK(h)
  /\ ListsOK(h, P) /\ StackOK(h, P) /\ RootsOK(h, P)

\* Between the operations.
Quiet(h) == h.temp = Null /\ h.got = Null /\ h.panic = FALSE /\ h.sinceGarbage <= GarbageTime

InStack(c, m) == m[1] \in 1..Len(c) /\ m[2] \in 0..Len(c[m[1]].refs)

Below(m, n) == m[1] <= n[1] /\ (m[1] = n[1] => m[2] <= n[2])

\* The pointers that ENTER saved go up.
EntersOK(c, e) ==
  /\ e \in Seq(Nat \X Nat)
  /\ \A m \in 1..Len(e) : InStack(c, e[m])
  /\ \A m, n \in 1..Len(e) : m <= n => Below(e[m], e[n])

MemInv == Sound(heap, {}) /\ Quiet(heap) /\ EntersOK(heap.chunks, enters)

LEMMA HeapFields ==
  ASSUME NEW h \in Heaps
  PROVE  /\ h.blocks \in Seq(1..MaxBlocks) /\ h.class \in [1..MaxBlocks -> DOMAIN NumHunk]
         /\ h.typ \in [Hunks -> Kinds \cup {Free}] /\ h.fld \in [Hunks -> Hunks \cup {Null}]
         /\ h.free \in [{"small", "large"} -> Seq(Hunks)] /\ h.sinceGarbage \in Nat
         /\ h.chunks \in Seq([at : Hunks, refs : Seq(Hunks)]) /\ h.save \in Hunks \cup {Null}
         /\ h.temp \in Hunks \cup {Null} /\ h.cache \in Hunks \cup {Null}
         /\ h.unwritten \in SUBSET Hunks /\ h.blocked \in SUBSET Hunks
         /\ h.got \in Hunks \cup {Null} /\ h.panic \in BOOLEAN
BY DEF Heaps

LEMMA ChunkTypes ==
  ASSUME NEW c \in Seq([at : Hunks, refs : Seq(Hunks)])
  PROVE  /\ Len(c) \in Nat
         /\ \A k \in 1..Len(c) : c[k].at \in Hunks /\ c[k].refs \in Seq(Hunks) /\ Len(c[k].refs) \in Nat
         /\ \A k \in 1..Len(c) : \A i \in 1..Len(c[k].refs) : c[k].refs[i] \in Hunks
<1>1. Len(c) \in Nat /\ \A k \in 1..Len(c) : c[k] \in [at : Hunks, refs : Seq(Hunks)]
  BY LenProperties, ElementOfSeq
<1>2. \A k \in 1..Len(c) : c[k].at \in Hunks /\ c[k].refs \in Seq(Hunks)
  BY <1>1
<1>3. \A s \in Seq(Hunks) : Len(s) \in Nat /\ \A i \in 1..Len(s) : s[i] \in Hunks
  BY LenProperties, ElementOfSeq
<1> QED BY <1>1, <1>2, <1>3

LEMMA NullIsNoHunk == Null \notin Hunks
<1>1. \A o \in Hunks : DOMAIN o = 1..2
  BY DEF Hunks
<1>2. DOMAIN Null = {} /\ 1 \in 1..2
  BY EmptySeq, LenProperties DEF Null
<1> QED BY <1>1, <1>2

\* References on the stack, by their place.
LEMMA StackRefsIs ==
  ASSUME NEW h, h.chunks \in Seq([at : Hunks, refs : Seq(Hunks)])
  PROVE  /\ StackRefs(h) \in SUBSET Hunks
         /\ \A k \in 1..Len(h.chunks) : \A i \in 1..Len(h.chunks[k].refs) : h.chunks[k].refs[i] \in StackRefs(h)
         /\ \A o \in StackRefs(h) : \E k \in 1..Len(h.chunks) : \E i \in 1..Len(h.chunks[k].refs) :
              o = h.chunks[k].refs[i]
<1>1. \A k \in 1..Len(h.chunks) : h.chunks[k].refs \in Seq(Hunks)
  BY ChunkTypes
<1>2. \A s \in Seq(Hunks) : DOMAIN s = 1..Len(s)
  BY LenProperties
<1>3. \A k \in 1..Len(h.chunks) : Range(h.chunks[k].refs) = {h.chunks[k].refs[i] : i \in 1..Len(h.chunks[k].refs)}
  BY <1>1, <1>2 DEF Range
<1>4. \A k \in 1..Len(h.chunks) : \A i \in 1..Len(h.chunks[k].refs) : h.chunks[k].refs[i] \in StackRefs(h)
  BY <1>3 DEF StackRefs
<1>5. \A o \in StackRefs(h) : \E k \in 1..Len(h.chunks) : \E i \in 1..Len(h.chunks[k].refs) :
        o = h.chunks[k].refs[i]
  <2> TAKE o \in StackRefs(h)
  <2>1. PICK k \in 1..Len(h.chunks) : o \in Range(h.chunks[k].refs)
    BY DEF StackRefs
  <2>2. \E i \in 1..Len(h.chunks[k].refs) : o = h.chunks[k].refs[i]
    BY <1>3, <2>1
  <2> QED BY <2>2
<1> QED BY <1>4, <1>5, ChunkTypes

-----------------------------------------------------------------------------
(* MemCollect *)

LEMMA RootsIs ==
  ASSUME NEW h \in Heaps
  PROVE  /\ Roots(h) \in SUBSET Hunks
         /\ StackRefs(h) \subseteq Roots(h) /\ h.blocked \subseteq Roots(h)
         /\ \A k \in 1..Len(h.chunks) : h.chunks[k].at \in Roots(h)
         /\ h.save # Null => h.save \in Roots(h)
         /\ h.temp # Null => h.temp \in Roots(h)
         /\ \A o \in Roots(h) : o \in StackRefs(h) \/ o \in h.blocked \/ o = h.save \/ o = h.temp
                                \/ \E k \in 1..Len(h.chunks) : o = h.chunks[k].at
<1>1. /\ h.chunks \in Seq([at : Hunks, refs : Seq(Hunks)]) /\ h.save \in Hunks \cup {Null}
      /\ h.temp \in Hunks \cup {Null} /\ h.blocked \in SUBSET Hunks
  BY HeapFields
<1>2. StackRefs(h) \in SUBSET Hunks /\ \A k \in 1..Len(h.chunks) : h.chunks[k].at \in Hunks
  BY <1>1, StackRefsIs, ChunkTypes
<1> QED BY <1>1, <1>2, NullIsNoHunk DEF Roots

LEMMA BusyIs ==
  ASSUME NEW h, NEW P, Sound(h, P), P \subseteq {h.temp}
  PROVE  /\ Busy(h) \in SUBSET Hunks /\ P \subseteq Busy(h) /\ Roots(h) \subseteq Busy(h)
         /\ h.unwritten \subseteq Busy(h)
         /\ \A o \in Busy(h) : Lives(h, P, o) /\ Placed(h, o)
         /\ \A o \in Busy(h) : h.typ[o] = "cell" /\ h.fld[o] # Null => h.fld[o] \in Busy(h)
<1> DEFINE T == {o \in Hunks : Lives(h, P, o)}
<1>1. h \in Heaps /\ PendingOK(h, P) /\ PlacesOK(h) /\ PointersOK(h) /\ StackOK(h, P) /\ RootsOK(h, P)
  BY DEF Sound
<1>2. /\ h.fld \in [Hunks -> Hunks \cup {Null}] /\ h.unwritten \in SUBSET Hunks
      /\ h.chunks \in Seq([at : Hunks, refs : Seq(Hunks)])
  BY <1>1, HeapFields
<1>3. Roots(h) \in SUBSET Hunks
  BY <1>1, RootsIs
<1>4. Roots(h) \subseteq T
  <2>1. \A o \in StackRefs(h) : Lives(h, P, o)
    <3>1. \A o \in StackRefs(h) : \E k \in 1..Len(h.chunks) : \E i \in 1..Len(h.chunks[k].refs) :
            o = h.chunks[k].refs[i]
      BY <1>2, StackRefsIs, Zenon
    <3> QED BY <1>1, <3>1 DEF StackOK
  <2>2. \A o \in h.blocked : Lives(h, P, o)
    BY <1>1 DEF RootsOK, Lives, Free
  <2>3. \A k \in 1..Len(h.chunks) : Lives(h, P, h.chunks[k].at)
    BY <1>1 DEF StackOK, Lives, Free
  <2>4. /\ h.save # Null => Lives(h, P, h.save)
        /\ h.temp # Null => Lives(h, P, h.temp)
    BY <1>1 DEF RootsOK, Lives, Free
  <2>5. Null \notin Roots(h)
    BY <1>3, NullIsNoHunk
  <2> QED BY <1>1, <1>3, <2>1, <2>2, <2>3, <2>4, <2>5, RootsIs
<1>5. Closed(h, T)
  <2>1. \A o \in Hunks : h.fld[o] # Null => h.fld[o] \in Hunks
    BY <1>2
  <2> QED BY <1>1, <2>1 DEF Closed, PointersOK, Lives
<1>6. /\ Marked(h) \in SUBSET Hunks /\ Roots(h) \subseteq Marked(h) /\ Closed(h, Marked(h))
      /\ Marked(h) \subseteq T
  <2> HIDE DEF T
  <2> QED BY <1>2, <1>3, <1>4, <1>5, ClosureIs, ClosureLeast DEF Marked
<1>7. \A f \in h.unwritten : h.typ[f] = "file"
  BY <1>1 DEF RootsOK
<1>8. Busy(h) = Marked(h) \cup h.unwritten
  BY <1>7 DEF Busy
<1>9. P \subseteq Roots(h)
  <2>1. \A o \in P : o \in Hunks /\ o = h.temp
    BY <1>1 DEF PendingOK
  <2> QED BY <1>1, <2>1, RootsIs, NullIsNoHunk
<1>10. \A o \in Busy(h) : Lives(h, P, o)
  BY <1>6, <1>7, <1>8 DEF Lives, Free
<1>11. \A o \in Busy(h) : Placed(h, o)
  BY <1>1, <1>2, <1>6, <1>8, <1>10 DEF Lives, PlacesOK, PendingOK
<1>12. ASSUME NEW o \in Busy(h), h.typ[o] = "cell", h.fld[o] # Null  PROVE h.fld[o] \in Busy(h)
  <2>1. o \in Marked(h)
    BY <1>7, <1>8, <1>12
  <2> QED BY <1>6, <1>8, <1>12, <2>1 DEF Closed
<1> QED BY <1>2, <1>6, <1>8, <1>9, <1>10, <1>11, <1>12

\* What a collection does to the fields.
Collected(h, t) ==
  /\ t.blocks = Kept(h.blocks, {b \in 1..MaxBlocks : InUse(h, Busy(h), b)})
  /\ t.free = Lists(h, Busy(h))
  /\ t.typ = [o \in Hunks |-> IF o \in Busy(h) THEN h.typ[o] ELSE Free]
  /\ t.fld = [o \in Hunks |-> IF o \in Busy(h) THEN h.fld[o] ELSE Null]
  /\ t.blocked = h.blocked \cup (h.unwritten \cap Busy(h))
  /\ t.sinceGarbage = 0 /\ t.cache = Null
  /\ t.class = h.class /\ t.chunks = h.chunks /\ t.save = h.save /\ t.temp = h.temp
  /\ t.unwritten = h.unwritten /\ t.got = h.got /\ t.panic = h.panic

LEMMA CollectFields ==
  ASSUME NEW h \in Heaps
  PROVE  Collected(h, MemCollect(h))
BY DEF Heaps, MemCollect, Collected, EmptiedCache

LEMMA CollectType ==
  ASSUME NEW h \in Heaps, IsInjective(h.blocks), NEW t, t = MemCollect(h), h.unwritten \subseteq Busy(h)
  PROVE  t \in Heaps
<1>1. PICK a, b, c, d, e :
        /\ a = Lists(h, Busy(h)) /\ b = Kept(h.blocks, {x \in 1..MaxBlocks : InUse(h, Busy(h), x)})
        /\ c = [o \in Hunks |-> IF o \in Busy(h) THEN h.typ[o] ELSE Free]
        /\ d = [o \in Hunks |-> IF o \in Busy(h) THEN h.fld[o] ELSE Null]
        /\ e = h.blocked \cup (h.unwritten \cap Busy(h))
  OBVIOUS
<1>2. t = [h EXCEPT !.sinceGarbage = 0, !.cache = Null, !.free = a, !.blocks = b,
                    !.typ = c, !.fld = d, !.blocked = e]
  BY <1>1 DEF MemCollect, EmptiedCache
<1>3. a \in [{"small", "large"} -> Seq(Hunks)]
  <2>1. a = [x \in {"small", "large"} |-> Lists(h, Busy(h))[x]]
    BY <1>1 DEF Lists
  <2>2. \A x \in {"small", "large"} : Lists(h, Busy(h))[x] \in Seq(Hunks)
    BY HeapFields, ListsIs
  <2> QED BY <2>1, <2>2
<1>4. b \in Seq(1..MaxBlocks)
  BY <1>1, HeapFields, KeptIs
<1>5. c \in [Hunks -> Kinds \cup {Free}] /\ d \in [Hunks -> Hunks \cup {Null}] /\ e \in SUBSET Hunks
  BY <1>1, HeapFields
<1> QED BY ONLY <1>2, <1>3, <1>4, <1>5, h \in Heaps DEF Heaps

\* A collection keeps all that is sound, with the object being pushed.
LEMMA CollectSound ==
  ASSUME NEW h, NEW P, Sound(h, P), P \subseteq {h.temp}, NEW t, t = MemCollect(h)
  PROVE  Sound(t, P) /\ Collected(h, t)
<1>1. /\ h \in Heaps /\ PendingOK(h, P) /\ PlacesOK(h) /\ PointersOK(h)
      /\ ListsOK(h, P) /\ StackOK(h, P) /\ RootsOK(h, P)
  BY DEF Sound
<1>2. Collected(h, t)
  BY <1>1, CollectFields
<1>3. PICK busy : busy = Busy(h)
  OBVIOUS
<1>4. /\ busy \in SUBSET Hunks /\ P \subseteq busy /\ Roots(h) \subseteq busy /\ h.unwritten \subseteq busy
      /\ \A o \in busy : Lives(h, P, o) /\ Placed(h, o)
      /\ \A o \in busy : h.typ[o] = "cell" /\ h.fld[o] # Null => h.fld[o] \in busy
  BY <1>3, BusyIs
<1>5. /\ h.blocks \in Seq(1..MaxBlocks) /\ h.class \in [1..MaxBlocks -> DOMAIN NumHunk]
      /\ h.chunks \in Seq([at : Hunks, refs : Seq(Hunks)])
      /\ h.unwritten \in SUBSET Hunks /\ IsInjective(h.blocks)
  BY <1>1, HeapFields DEF PlacesOK
<1>6. t \in Heaps
  BY <1>1, <1>3, <1>4, <1>5, CollectType
<1>7. /\ \A o \in busy : t.typ[o] = h.typ[o] /\ t.fld[o] = h.fld[o]
      /\ \A o \in Hunks : o \notin busy => t.typ[o] = Free /\ t.fld[o] = Null
  BY <1>2, <1>3, <1>4 DEF Collected
<1>8. /\ t.class = h.class /\ t.chunks = h.chunks /\ t.save = h.save /\ t.temp = h.temp
      /\ t.unwritten = h.unwritten /\ t.cache = Null
      /\ t.blocked = h.blocked \cup (h.unwritten \cap busy)
  BY <1>2, <1>3 DEF Collected
<1>9. /\ IsInjective(t.blocks)
      /\ \A b : b \in Range(t.blocks) <=> b \in Range(h.blocks) /\ InUse(h, busy, b)
  <2>1. /\ IsInjective(t.blocks)
        /\ Range(t.blocks) = Range(h.blocks) \cap {b \in 1..MaxBlocks : InUse(h, busy, b)}
    BY <1>2, <1>3, <1>5, KeptIs DEF Collected
  <2>2. Range(h.blocks) \subseteq 1..MaxBlocks
    BY <1>5, LenProperties, ElementOfSeq DEF Range
  <2> QED BY <2>1, <2>2
<1>10. \A o : Placed(t, o) <=> Placed(h, o) /\ InUse(h, busy, o[1])
  BY <1>8, <1>9 DEF Placed
<1>11. \A o \in Hunks : Placed(h, o) <=> o[1] \in Range(h.blocks) /\ o \in Range(HunksOf(h, o[1]))
  <2>1. \A o \in Hunks : o[1] \in 1..MaxBlocks
    BY DEF Hunks
  <2>2. \A b \in 1..MaxBlocks : \A o \in Hunks :
          o \in Range(HunksOf(h, b)) <=> o[1] = b /\ o[2] <= NumHunk[h.class[b]]
    BY <1>5, HunksOfIs
  <2> QED BY <2>1, <2>2 DEF Placed
<1>12. \A o \in busy : Placed(t, o)
  BY <1>4, <1>10, <1>11 DEF InUse
<1>13. PendingOK(t, P)
  BY <1>1, <1>4, <1>7, <1>12 DEF PendingOK
<1>14. PlacesOK(t)
  BY <1>7, <1>9, <1>12 DEF PlacesOK
<1>15. PointersOK(t)
  <2> SUFFICES ASSUME NEW o \in Hunks, t.typ[o] = "cell", t.fld[o] # Null  PROVE t.typ[t.fld[o]] # Free
    BY DEF PointersOK
  <2>1. o \in busy
    BY <1>7 DEF Free
  <2>2. h.typ[o] = "cell" /\ h.fld[o] # Null /\ t.fld[o] = h.fld[o]
    BY <1>7, <2>1
  <2>3. h.fld[o] \in busy /\ h.typ[h.fld[o]] # Free
    BY <1>1, <1>4, <2>1, <2>2 DEF PointersOK
  <2> QED BY <1>7, <2>2, <2>3
<1>16. ListsOK(t, P)
  <2> SUFFICES ASSUME NEW c \in {"small", "large"}
               PROVE  /\ IsInjective(t.free[c])
                      /\ \A o \in Hunks : o \in Range(t.free[c]) <=>
                           Placed(t, o) /\ t.class[o[1]] = c /\ t.typ[o] = Free /\ o \notin P
    BY DEF ListsOK
  <2> DEFINE given == {a \in Range(h.blocks) : h.class[a] = c /\ InUse(h, busy, a)}
  <2>1. /\ IsInjective(t.free[c])
        /\ \A o : o \in Range(t.free[c]) <=>
             \E b \in given : o \in Range(HunksOf(h, b)) /\ o \notin busy
    <3>1. PICK l : l = Lists(h, busy)[c]
      OBVIOUS
    <3>2. t.free[c] = l
      BY <1>2, <1>3, <3>1 DEF Collected
    <3>3. IsInjective(l) /\ SweptAre(l, h, busy, c)
      BY <1>5, <3>1, ListsIs
    <3> QED BY <3>2, <3>3 DEF SweptAre
  <2>2. \A o \in Hunks : t.typ[o] = Free /\ o \notin P <=> o \notin busy
    BY <1>4, <1>7 DEF Lives
  <2>3. \A b \in given : \A o \in Range(HunksOf(h, b)) : o[1] = b
    <3>1. given \subseteq 1..MaxBlocks
      BY <1>5, LenProperties, ElementOfSeq DEF Range
    <3>2. \A b \in 1..MaxBlocks : \A o \in Range(HunksOf(h, b)) : o[1] = b
      BY <1>5, HunksOfIs
    <3> QED BY <3>1, <3>2
  <2>4. \A o \in Hunks : o \in Range(t.free[c]) <=>
          o[1] \in given /\ o \in Range(HunksOf(h, o[1])) /\ o \notin busy
    <3> HIDE DEF given
    <3> QED BY <2>1, <2>3
  <2>5. \A o \in Hunks : o[1] \in given /\ o \in Range(HunksOf(h, o[1])) <=> Placed(t, o) /\ t.class[o[1]] = c
    BY <1>8, <1>10, <1>11
  <2> HIDE DEF given
  <2> QED BY <2>1, <2>2, <2>4, <2>5
<1>17. StackOK(t, P)
  <2>1. \A k \in 1..Len(h.chunks) : \A i \in 1..Len(h.chunks[k].refs) : h.chunks[k].refs[i] \in busy
    BY <1>1, <1>4, <1>5, StackRefsIs, RootsIs
  <2>2. \A k \in 1..Len(h.chunks) : h.chunks[k].at \in busy
    BY <1>1, <1>4, RootsIs
  <2>3. \A o \in busy : Lives(t, P, o)
    BY <1>4, <1>7 DEF Lives
  <2> QED BY <1>1, <1>7, <1>8, <2>1, <2>2, <2>3 DEF StackOK
<1>18. RootsOK(t, P)
  <2>1. h.save # Null => h.save \in busy
    BY <1>1, <1>4, RootsIs
  <2>2. h.temp # Null => h.temp \in busy
    BY <1>1, <1>4, RootsIs
  <2>3. \A o \in busy : Lives(t, P, o)
    BY <1>4, <1>7 DEF Lives
  <2> QED BY <1>1, <1>4, <1>7, <1>8, <2>1, <2>2, <2>3 DEF RootsOK
<1> QED BY <1>2, <1>6, <1>13, <1>14, <1>15, <1>16, <1>17, <1>18 DEF Sound

-----------------------------------------------------------------------------
(* MemAllocate *)

LEMMA TailRange ==
  ASSUME NEW T, NEW s \in Seq(T), s # <<>>, IsInjective(s)
  PROVE  /\ Head(s) \in Range(s) /\ IsInjective(Tail(s))
         /\ \A o : o \in Range(Tail(s)) <=> o \in Range(s) /\ o # Head(s)
<1>1. PICK n, a, x : n = Len(s) /\ a = Tail(s) /\ x = Head(s)
  OBVIOUS
<1>2. /\ n \in Nat \ {0} /\ DOMAIN s = 1..n /\ x = s[1] /\ a \in Seq(T) /\ Len(a) = n - 1
      /\ \A i \in 1..(n - 1) : a[i] = s[i + 1]
  BY <1>1, LenProperties, EmptySeq, HeadTailProperties
<1>3. DOMAIN a = 1..(n - 1)
  BY <1>2, LenProperties
<1>4. \A i \in 1..n : i = 1 \/ i - 1 \in 1..(n - 1)
  BY <1>2
<1>5. \A i \in 1..(n - 1) : i + 1 \in 1..n /\ i + 1 # 1
  BY <1>2
<1>6. \A i, j \in 1..n : s[i] = s[j] => i = j
  BY <1>2 DEF IsInjective
<1>7. 1 \in 1..n
  BY <1>2
<1>8. IsInjective(a)
  <2>1. ASSUME NEW i \in 1..(n - 1), NEW j \in 1..(n - 1), a[i] = a[j]  PROVE i = j
    <3>1. i + 1 = j + 1
      BY <1>2, <1>5, <1>6, <2>1
    <3> QED BY <3>1
  <2> QED BY <1>3, <2>1 DEF IsInjective
<1>9. x \in Range(s)
  BY <1>2, <1>7 DEF Range
<1>10. ASSUME NEW o \in Range(a)  PROVE o \in Range(s) /\ o # x
  <2>1. PICK i \in 1..(n - 1) : o = s[i + 1]
    BY <1>2, <1>3 DEF Range
  <2> QED BY <1>2, <1>5, <1>6, <1>7, <2>1 DEF Range
<1>11. ASSUME NEW o \in Range(s), o # x  PROVE o \in Range(a)
  <2>1. PICK i \in 1..n : o = s[i]
    BY <1>2 DEF Range
  <2>2. i - 1 \in 1..(n - 1) /\ (i - 1) + 1 = i
    BY <1>2, <1>4, <1>11, <2>1
  <2>3. o = a[i - 1]
    BY <1>2, <2>1, <2>2
  <2> QED BY <1>3, <2>2, <2>3 DEF Range
<1> QED BY <1>1, <1>8, <1>9, <1>10, <1>11

LEMMA KindClass ==
  /\ \A kind \in {"cell", "file"} : Class(kind) = "small"
  /\ Class("chunk") = "large" /\ Class("huge") = "huge"
  /\ \A kind \in {"cell", "file", "chunk"} : Class(kind) \in {"small", "large"} /\ kind # "huge"
  /\ \A kind \in Kinds : Class(kind) \in DOMAIN NumHunk /\ kind # Free
BY MemConstants DEF Class, Kinds, Free

Untyped(t) == [t EXCEPT !.typ = [@ EXCEPT ![t.got] = Free]]

\* t is h with an object taken for a kind, all sound if it had no type yet.
Given(h, t, kind, P) ==
  /\ t \in Heaps /\ t.got \in Hunks /\ t.got \notin P /\ t.typ[t.got] = kind
  /\ Sound(Untyped(t), P \cup {t.got})
  /\ t.chunks = h.chunks /\ t.save = h.save /\ t.temp = h.temp /\ t.panic = h.panic
  /\ t.sinceGarbage = h.sinceGarbage

LEMMA UntypedFields ==
  ASSUME NEW t \in Heaps
  PROVE  /\ Untyped(t) \in Heaps
         /\ Untyped(t).typ = [t.typ EXCEPT ![t.got] = Free]
         /\ Untyped(t).blocks = t.blocks /\ Untyped(t).class = t.class /\ Untyped(t).fld = t.fld
         /\ Untyped(t).free = t.free /\ Untyped(t).chunks = t.chunks /\ Untyped(t).save = t.save
         /\ Untyped(t).temp = t.temp /\ Untyped(t).cache = t.cache
         /\ Untyped(t).unwritten = t.unwritten /\ Untyped(t).blocked = t.blocked
         /\ Untyped(t).panic = t.panic /\ Untyped(t).got = t.got
<1>1. PICK f : f = [t.typ EXCEPT ![t.got] = Free]
  OBVIOUS
<1>2. f \in [Hunks -> Kinds \cup {Free}]
  BY <1>1, HeapFields
<1>3. Untyped(t) = [t EXCEPT !.typ = f]
  BY <1>1 DEF Untyped
<1>4. Untyped(t) \in Heaps
  BY ONLY <1>2, <1>3, t \in Heaps DEF Heaps
<1> QED BY <1>1, <1>3, <1>4 DEF Heaps

\* The fields that taking an object leaves alone.
SameBut(h, u) ==
  /\ u.blocks = h.blocks /\ u.class = h.class /\ u.chunks = h.chunks /\ u.save = h.save
  /\ u.temp = h.temp /\ u.cache = h.cache /\ u.unwritten = h.unwritten /\ u.blocked = h.blocked

LEMMA PendSound ==
  ASSUME NEW h, NEW P, Sound(h, P), NEW g \in Hunks, Placed(h, g), h.typ[g] = Free, g \notin P,
         NEW u \in Heaps, SameBut(h, u),
         \A o \in Hunks : u.typ[o] = h.typ[o] /\ (o # g => u.fld[o] = h.fld[o]),
         \A d \in {"small", "large"} :
           /\ IsInjective(u.free[d])
           /\ \A o \in Hunks : o \in Range(u.free[d]) <=> o \in Range(h.free[d]) /\ o # g
  PROVE  Sound(u, P \cup {g})
<1>1. /\ h \in Heaps /\ PendingOK(h, P) /\ PlacesOK(h) /\ PointersOK(h)
      /\ ListsOK(h, P) /\ StackOK(h, P) /\ RootsOK(h, P)
  BY DEF Sound
<1>2. /\ u.blocks = h.blocks /\ u.class = h.class /\ u.chunks = h.chunks /\ u.save = h.save
      /\ u.temp = h.temp /\ u.cache = h.cache /\ u.unwritten = h.unwritten
      /\ u.blocked = h.blocked
  BY DEF SameBut
<1>3. PICK Q : Q = P \cup {g}
  OBVIOUS
<1>4. \A o : Placed(u, o) <=> Placed(h, o)
  BY <1>2 DEF Placed
<1>5. \A o \in Hunks : Lives(h, P, o) => Lives(u, Q, o)
  BY <1>3 DEF Lives
<1>6. PendingOK(u, Q)
  BY <1>1, <1>3, <1>4 DEF PendingOK
<1>7. PlacesOK(u)
  BY <1>1, <1>2, <1>4 DEF PlacesOK
<1>8. PointersOK(u)
  <2>1. h.typ[g] # "cell"
    BY DEF Free
  <2>2. \A o \in Hunks : h.fld[o] # Null => h.fld[o] \in Hunks
    BY <1>1, HeapFields
  <2> QED BY <1>1, <2>1, <2>2 DEF PointersOK
<1>9. ListsOK(u, Q)
  <2>1. ASSUME NEW d \in {"small", "large"}
        PROVE  /\ IsInjective(u.free[d])
               /\ \A o \in Hunks : o \in Range(u.free[d]) <=>
                    Placed(u, o) /\ u.class[o[1]] = d /\ u.typ[o] = Free /\ o \notin Q
    <3>1. \A o \in Hunks : o \in Range(h.free[d]) <=>
            Placed(h, o) /\ h.class[o[1]] = d /\ h.typ[o] = Free /\ o \notin P
      BY <1>1 DEF ListsOK
    <3> QED BY <1>2, <1>3, <1>4, <3>1
  <2> QED BY <2>1 DEF ListsOK
<1>10. StackOK(u, Q)
  <2>1. \A k \in 1..Len(h.chunks) : /\ h.chunks[k].at \in Hunks
                                    /\ \A i \in 1..Len(h.chunks[k].refs) : h.chunks[k].refs[i] \in Hunks
    BY <1>1, HeapFields, ChunkTypes
  <2> QED BY <1>1, <1>2, <1>5, <2>1 DEF StackOK
<1>11. RootsOK(u, Q)
  <2>1. /\ h.save # Null => h.save \in Hunks
        /\ h.temp # Null => h.temp \in Hunks
        /\ h.cache # Null => h.cache \in Hunks
        /\ h.unwritten \in SUBSET Hunks
    BY <1>1, HeapFields
  <2> QED BY <1>1, <1>2, <1>5, <2>1 DEF RootsOK
<1> QED BY <1>3, <1>6, <1>7, <1>8, <1>9, <1>10, <1>11 DEF Sound

LEMMA TakenSound ==
  ASSUME NEW h, NEW P, Sound(h, P), NEW kind \in {"cell", "file", "chunk"}, CanTake(h, kind),
         NEW t, t = Taken(h, kind)
  PROVE  Given(h, t, kind, P)
<1>1. /\ h \in Heaps /\ PendingOK(h, P) /\ PlacesOK(h) /\ PointersOK(h)
      /\ ListsOK(h, P) /\ StackOK(h, P) /\ RootsOK(h, P)
  BY DEF Sound
<1>2. PICK c : c = Class(kind) /\ c \in {"small", "large"}
  BY KindClass
<1>3. PICK list : list = h.free[c]
  OBVIOUS
<1>4. /\ h.typ \in [Hunks -> Kinds \cup {Free}] /\ h.fld \in [Hunks -> Hunks \cup {Null}]
      /\ h.free \in [{"small", "large"} -> Seq(Hunks)]
      /\ h.got \in Hunks \cup {Null}
  BY <1>1, HeapFields
<1>5. list \in Seq(Hunks) /\ list # <<>> /\ IsInjective(list)
  BY <1>1, <1>2, <1>3, <1>4 DEF CanTake, ListsOK
<1>6. PICK g, rest : g = Head(list) /\ rest = Tail(list)
  OBVIOUS
<1>7. /\ g \in Hunks /\ rest \in Seq(Hunks) /\ IsInjective(rest) /\ g \in Range(list)
      /\ \A o : o \in Range(rest) <=> o \in Range(list) /\ o # g
  BY <1>5, <1>6, HeadTailProperties, TailRange
<1>8. Placed(h, g) /\ h.class[g[1]] = c /\ h.typ[g] = Free /\ g \notin P
  BY <1>1, <1>2, <1>3, <1>7 DEF ListsOK
<1>9. PICK x : x = IF rest = <<>> THEN Null ELSE Head(rest)
  OBVIOUS
<1>10. x \in Hunks \cup {Null}
  BY <1>7, <1>9, HeadTailProperties
<1>11. PICK free, typ, fld :
         /\ free = [h.free EXCEPT ![c] = rest] /\ typ = [h.typ EXCEPT ![g] = kind]
         /\ fld = [h.fld EXCEPT ![g] = x]
  OBVIOUS
<1>12. /\ free \in [{"small", "large"} -> Seq(Hunks)] /\ typ \in [Hunks -> Kinds \cup {Free}]
       /\ fld \in [Hunks -> Hunks \cup {Null}]
  <2>1. kind \in Kinds
    BY DEF Kinds
  <2> QED BY <1>2, <1>4, <1>7, <1>10, <1>11, <2>1
<1>13. t = [h EXCEPT !.got = g, !.free = free, !.typ = typ, !.fld = fld]
  <2>1. t = [h EXCEPT !.got = Head(list), !.free[c] = rest, !.typ[Head(list)] = kind,
                      !.fld[Head(list)] = IF rest = <<>> THEN Null ELSE Head(rest)]
    BY <1>2, <1>3, <1>6 DEF Taken
  <2>2. t = [h EXCEPT !.got = g, !.free[c] = rest, !.typ[g] = kind, !.fld[g] = x]
    BY <1>6, <1>9, <2>1
  <2> QED BY <1>1, <1>11, <2>2 DEF Heaps
<1>14. t \in Heaps
  BY ONLY <1>1, <1>7, <1>12, <1>13 DEF Heaps
<1>15. /\ t.got = g /\ t.free = free /\ t.typ = typ /\ t.fld = fld
       /\ t.blocks = h.blocks /\ t.class = h.class /\ t.chunks = h.chunks /\ t.save = h.save
       /\ t.temp = h.temp /\ t.cache = h.cache /\ t.unwritten = h.unwritten
       /\ t.blocked = h.blocked /\ t.panic = h.panic /\ t.sinceGarbage = h.sinceGarbage
  BY ONLY <1>1, <1>13 DEF Heaps
<1>16. PICK u : u = Untyped(t)
  OBVIOUS
<1>17. u \in Heaps /\ u.free = free /\ u.fld = fld /\ SameBut(h, u)
  BY <1>14, <1>15, <1>16, UntypedFields DEF SameBut
<1>18. \A o \in Hunks : u.typ[o] = h.typ[o]
  <2>1. u.typ = [typ EXCEPT ![g] = Free]
    BY <1>14, <1>15, <1>16, UntypedFields
  <2> QED BY <1>4, <1>7, <1>8, <1>11, <2>1
<1>19. \A o \in Hunks : o # g => u.fld[o] = h.fld[o]
  BY <1>4, <1>11, <1>17
<1>20. ASSUME NEW d \in {"small", "large"}
       PROVE  /\ IsInjective(u.free[d])
              /\ \A o \in Hunks : o \in Range(u.free[d]) <=> o \in Range(h.free[d]) /\ o # g
  <2>1. /\ IsInjective(h.free[d])
        /\ d # c => g \notin Range(h.free[d])
    BY <1>1, <1>7, <1>8 DEF ListsOK
  <2>2. u.free[c] = rest /\ (d # c => u.free[d] = h.free[d])
    BY <1>2, <1>4, <1>11, <1>17
  <2> QED BY <1>3, <1>7, <2>1, <2>2
<1>21. Sound(u, P \cup {g})
  BY <1>7, <1>8, <1>17, <1>18, <1>19, <1>20, PendSound
<1>22. t.typ[g] = kind
  BY <1>4, <1>7, <1>11, <1>15
<1> QED BY <1>7, <1>8, <1>14, <1>15, <1>16, <1>21, <1>22 DEF Given

LEMMA ConsRange ==
  ASSUME NEW T, NEW x \in T, NEW s \in Seq(T)
  PROVE  /\ <<x>> \o s \in Seq(T) /\ \A o : o \in Range(<<x>> \o s) <=> o = x \/ o \in Range(s)
         /\ IsInjective(s) /\ x \notin Range(s) => IsInjective(<<x>> \o s)
<1>1. PICK a : a = <<x>>
  OBVIOUS
<1>2. a \in Seq(T) /\ Len(a) = 1 /\ a[1] = x
  BY <1>1
<1>3. DOMAIN a = {1}
  BY <1>2, LenProperties
<1>4. Range(a) = {x} /\ IsInjective(a)
  BY <1>2, <1>3 DEF Range, IsInjective
<1>5. /\ a \o s \in Seq(T) /\ Range(a \o s) = {x} \cup Range(s)
      /\ IsInjective(s) /\ x \notin Range(s) => IsInjective(a \o s)
  BY <1>2, <1>4, ConcatRange
<1> QED BY <1>1, <1>5

\* m is h with a block b of the class c.
HasNew(h, m, b, c) ==
  /\ m.blocks = <<b>> \o h.blocks /\ m.class = [h.class EXCEPT ![b] = c]
  /\ m.free = IF c = "huge" THEN h.free ELSE [h.free EXCEPT ![c] = HunksOf(m, b) \o h.free[c]]
  /\ m.typ = h.typ /\ m.fld = h.fld /\ m.chunks = h.chunks /\ m.save = h.save /\ m.temp = h.temp
  /\ m.cache = h.cache /\ m.unwritten = h.unwritten /\ m.blocked = h.blocked

NewIs(m, P, b, c) ==
  /\ Placed(m, <<b, 1>>) /\ <<b, 1>> \in Hunks
  /\ m.typ[<<b, 1>>] = Free /\ <<b, 1>> \notin P /\ m.class[b] = c
  /\ c # "huge" => m.free[c] # <<>>

LEMMA NewBlockSound ==
  ASSUME NEW h, NEW P, Sound(h, P), NEW b \in Addresses(h), NEW c \in DOMAIN NumHunk, NEW m \in Heaps,
         HasNew(h, m, b, c)
  PROVE  Sound(m, P) /\ NewIs(m, P, b, c)
<1>1. /\ h \in Heaps /\ PendingOK(h, P) /\ PlacesOK(h) /\ PointersOK(h)
      /\ ListsOK(h, P) /\ StackOK(h, P) /\ RootsOK(h, P)
  BY DEF Sound
<1>2. b \in 1..MaxBlocks /\ b \notin Range(h.blocks)
  BY DEF Addresses
<1>3. /\ h.blocks \in Seq(1..MaxBlocks) /\ h.class \in [1..MaxBlocks -> DOMAIN NumHunk]
      /\ h.free \in [{"small", "large"} -> Seq(Hunks)]
      /\ m.class \in [1..MaxBlocks -> DOMAIN NumHunk]
  BY <1>1, HeapFields
<1>4. /\ \A o : o \in Range(m.blocks) <=> o = b \/ o \in Range(h.blocks)
      /\ IsInjective(m.blocks)
  <2>1. PICK old : old = h.blocks
    OBVIOUS
  <2>2. m.blocks = <<b>> \o old /\ old \in Seq(1..MaxBlocks) /\ IsInjective(old)
    BY <1>1, <1>3, <2>1 DEF HasNew, PlacesOK
  <2>3. b \in 1..MaxBlocks /\ b \notin Range(old)
    BY <1>2, <2>1
  <2>4. /\ \A o : o \in Range(<<b>> \o old) <=> o = b \/ o \in Range(old)
        /\ IsInjective(<<b>> \o old)
    BY ONLY <2>2, <2>3, ConsRange, Zenon
  <2> QED BY <2>1, <2>2, <2>4, Zenon
<1>5. m.class[b] = c /\ \A x \in 1..MaxBlocks : x # b => m.class[x] = h.class[x]
  <2>1. m.class = [h.class EXCEPT ![b] = c]
    BY DEF HasNew
  <2> QED BY <1>2, <1>3, <2>1
<1>6. Range(h.blocks) \subseteq 1..MaxBlocks
  BY <1>3, LenProperties, ElementOfSeq DEF Range
<1>7. \A o : Placed(m, o) <=> Placed(h, o) \/ (o[1] = b /\ o[2] <= NumHunk[c])
  BY <1>2, <1>4, <1>5, <1>6 DEF Placed
<1>8. \A o : Placed(h, o) => o[1] # b /\ m.class[o[1]] = h.class[o[1]]
  BY <1>2, <1>5, <1>6 DEF Placed
<1>9. \A o \in Hunks : o[1] = b => h.typ[o] = Free /\ o \notin P
  BY <1>1, <1>8 DEF PlacesOK, PendingOK
<1>10. PICK new : new = HunksOf(m, b)
  OBVIOUS
<1>11. /\ new \in Seq(Hunks) /\ IsInjective(new) /\ Range(new) \subseteq Hunks
       /\ \A o \in Hunks : o \in Range(new) <=> o[1] = b /\ o[2] <= NumHunk[c]
       /\ <<b, 1>> \in Range(new)
  <2>1. /\ \A o \in Hunks : o \in Range(new) <=> o[1] = b /\ o[2] <= NumHunk[m.class[b]]
        /\ new \in Seq(Hunks) /\ IsInjective(new) /\ Range(new) \subseteq Hunks
        /\ <<b, 1>> \in Range(new)
    BY <1>2, <1>3, <1>10, HunksOfIs
  <2> QED BY <1>5, <2>1
<1>12. <<b, 1>> \in Hunks /\ Placed(m, <<b, 1>>) /\ m.typ[<<b, 1>>] = Free /\ <<b, 1>> \notin P
  <2>1. PICK g : g = <<b, 1>>
    OBVIOUS
  <2>2. g[1] = b
    BY <2>1
  <2>3. g \in Hunks /\ g \in Range(new)
    BY <1>11, <2>1
  <2>4. Placed(m, g) /\ m.typ[g] = Free /\ g \notin P
    BY <1>7, <1>9, <1>11, <2>2, <2>3 DEF HasNew
  <2> QED BY <2>1, <2>3, <2>4
<1>13. PendingOK(m, P)
  BY <1>1, <1>7 DEF PendingOK, HasNew
<1>14. PlacesOK(m)
  BY <1>1, <1>4, <1>7 DEF PlacesOK, HasNew
<1>15. PointersOK(m)
  BY <1>1 DEF PointersOK, HasNew
<1>16. ASSUME NEW d \in {"small", "large"}
       PROVE  /\ IsInjective(m.free[d])
              /\ \A o \in Hunks : o \in Range(m.free[d]) <=>
                   Placed(m, o) /\ m.class[o[1]] = d /\ m.typ[o] = Free /\ o \notin P
  <2>1. /\ h.free[d] \in Seq(Hunks) /\ IsInjective(h.free[d])
        /\ \A o \in Hunks : o \in Range(h.free[d]) <=>
             Placed(h, o) /\ h.class[o[1]] = d /\ h.typ[o] = Free /\ o \notin P
    BY <1>1, <1>3 DEF ListsOK
  <2>2. CASE d # c
    <3>1. m.free[d] = h.free[d]
      BY <1>3, <2>2 DEF HasNew
    <3>2. \A o \in Hunks : Placed(m, o) /\ m.class[o[1]] = d <=> Placed(h, o) /\ h.class[o[1]] = d
      BY <1>5, <1>7, <1>8, <2>2
    <3> QED BY <2>1, <3>1, <3>2 DEF HasNew
  <2>3. CASE d = c
    <3>1. PICK old : old = h.free[d]
      OBVIOUS
    <3>2. m.free[d] = new \o old
      BY <1>3, <1>10, <2>3, <3>1 DEF HasNew
    <3>3. Range(new) \cap Range(old) = {}
      <4>1. \A o \in Range(new) : o \in Hunks /\ o[1] = b
        BY <1>11
      <4>2. \A o \in Hunks : o \in Range(old) => o[1] # b
        BY <1>8, <2>1, <3>1
      <4> QED BY <4>1, <4>2
    <3>4. IsInjective(m.free[d]) /\ Range(m.free[d]) = Range(new) \cup Range(old)
      BY <1>11, <2>1, <3>1, <3>2, <3>3, ConcatRange
    <3>5. \A o \in Hunks : Placed(m, o) /\ m.class[o[1]] = d <=>
            (Placed(h, o) /\ h.class[o[1]] = d) \/ o \in Range(new)
      BY <1>5, <1>7, <1>8, <1>11, <2>3
    <3>6. \A o \in Hunks : o \in Range(new) => m.typ[o] = Free /\ o \notin P
      BY <1>9, <1>11 DEF HasNew
    <3> QED BY <2>1, <3>1, <3>4, <3>5, <3>6 DEF HasNew
  <2> QED BY <2>2, <2>3
<1>17. ListsOK(m, P)
  BY <1>16 DEF ListsOK
<1>18. StackOK(m, P) /\ RootsOK(m, P)
  BY <1>1 DEF StackOK, RootsOK, Lives, HasNew
<1>19. ASSUME c # "huge"  PROVE m.free[c] # <<>>
  <2>1. c \in {"small", "large"}
    BY <1>19, MemConstants
  <2>2. PICK old : old = h.free[c] /\ old \in Seq(Hunks)
    BY <1>3, <2>1
  <2>3. m.free[c] = new \o old
    BY <1>3, <1>10, <1>19, <2>1, <2>2 DEF HasNew
  <2>4. Range(new \o old) = Range(new) \cup Range(old)
    BY <1>11, <2>2, ConcatRange
  <2>5. Range(<<>>) = {}
    BY EmptySeq, LenProperties DEF Range
  <2> QED BY <1>11, <2>3, <2>4, <2>5
<1> QED BY <1>5, <1>12, <1>13, <1>14, <1>15, <1>17, <1>18, <1>19 DEF Sound, NewIs

LEMMA BlockSound ==
  ASSUME NEW h, NEW P, Sound(h, P), NEW kind \in Kinds, Addresses(h) # {}, NEW t, t = Block(h, kind)
  PROVE  Given(h, t, kind, P)
<1>1. PICK b : /\ b = CHOOSE a \in Addresses(h) : \A x \in Addresses(h) : a <= x
               /\ b \in Addresses(h)
  <2>1. Addresses(h) \in SUBSET Nat
    BY DEF Addresses
  <2> QED BY <2>1, Least
<1>2. PICK c : c = Class(kind) /\ c \in DOMAIN NumHunk
  BY KindClass
<1>3. h \in Heaps
  BY DEF Sound
<1>4. PICK more : more = [h EXCEPT !.blocks = <<b>> \o @, !.class[b] = c]
  OBVIOUS
<1>5. t = IF kind = "huge" THEN [more EXCEPT !.got = <<b, 1>>, !.typ[<<b, 1>>] = "huge"]
          ELSE Taken([more EXCEPT !.free[c] = HunksOf(more, b) \o @], kind)
  BY <1>1, <1>2, <1>4 DEF Block
<1>6. PICK blocks, class : blocks = <<b>> \o h.blocks /\ class = [h.class EXCEPT ![b] = c]
  OBVIOUS
<1>7. b \in 1..MaxBlocks
  BY <1>1 DEF Addresses
<1>8. blocks \in Seq(1..MaxBlocks) /\ class \in [1..MaxBlocks -> DOMAIN NumHunk]
  BY <1>2, <1>3, <1>6, <1>7, HeapFields, ConsRange
<1>9. more = [h EXCEPT !.blocks = blocks, !.class = class]
  BY ONLY <1>3, <1>4, <1>6 DEF Heaps
<1>10. more \in Heaps
  BY ONLY <1>3, <1>8, <1>9 DEF Heaps
<1>11. /\ more.blocks = blocks /\ more.class = class /\ more.free = h.free /\ more.typ = h.typ
       /\ more.fld = h.fld /\ more.chunks = h.chunks /\ more.save = h.save /\ more.temp = h.temp
       /\ more.cache = h.cache /\ more.unwritten = h.unwritten /\ more.blocked = h.blocked
       /\ more.panic = h.panic /\ more.sinceGarbage = h.sinceGarbage
  BY ONLY <1>3, <1>9 DEF Heaps
<1>12. CASE kind = "huge"
  <2>1. c = "huge"
    BY <1>2, <1>12, KindClass
  <2>2. PICK g : g = <<b, 1>>
    OBVIOUS
  <2>3. /\ Sound(more, P) /\ Placed(more, g) /\ g \in Hunks /\ more.typ[g] = Free /\ g \notin P
        /\ more.class[b] = c
    <3>1. HasNew(h, more, b, c)
      BY <1>6, <1>11, <2>1 DEF HasNew
    <3>2. Sound(more, P) /\ NewIs(more, P, b, c)
      BY <1>1, <1>2, <1>10, <3>1, NewBlockSound
    <3> QED BY <2>2, <3>2 DEF NewIs
  <2>4. more.typ \in [Hunks -> Kinds \cup {Free}]
    BY <1>10, HeapFields
  <2>5. PICK typ : typ = [more.typ EXCEPT ![g] = "huge"]
    OBVIOUS
  <2>6. typ \in [Hunks -> Kinds \cup {Free}] /\ typ[g] = "huge"
    BY <2>3, <2>4, <2>5 DEF Kinds
  <2>7. t = [more EXCEPT !.got = g, !.typ = typ]
    BY <1>5, <1>10, <1>12, <2>2, <2>5 DEF Heaps
  <2>8. t \in Heaps
    BY ONLY <1>10, <2>3, <2>6, <2>7 DEF Heaps
  <2>9. /\ t.got = g /\ t.typ = typ /\ t.blocks = more.blocks /\ t.class = more.class
        /\ t.free = more.free /\ t.fld = more.fld /\ t.chunks = more.chunks /\ t.save = more.save
        /\ t.temp = more.temp /\ t.cache = more.cache /\ t.unwritten = more.unwritten
        /\ t.blocked = more.blocked /\ t.panic = more.panic
        /\ t.sinceGarbage = more.sinceGarbage
    BY ONLY <1>10, <2>7 DEF Heaps
  <2>10. PICK u : u = Untyped(t)
    OBVIOUS
  <2>11. u \in Heaps /\ SameBut(more, u) /\ u.free = more.free /\ u.fld = more.fld
    BY <2>8, <2>9, <2>10, UntypedFields DEF SameBut
  <2>12. \A o \in Hunks : u.typ[o] = more.typ[o]
    <3>1. u.typ = [typ EXCEPT ![g] = Free]
      BY <2>8, <2>9, <2>10, UntypedFields
    <3> QED BY <2>3, <2>4, <2>5, <3>1
  <2>13. ASSUME NEW d \in {"small", "large"}
         PROVE  /\ IsInjective(u.free[d])
                /\ \A o \in Hunks : o \in Range(u.free[d]) <=> o \in Range(more.free[d]) /\ o # g
    <3>1. g[1] = b
      BY <2>2
    <3>2. ListsOK(more, P)
      BY <2>3 DEF Sound
    <3>3. g \notin Range(more.free[d]) /\ IsInjective(more.free[d])
      BY <2>1, <2>3, <3>1, <3>2 DEF ListsOK
    <3> QED BY <2>11, <3>3
  <2>14. Sound(u, P \cup {g})
    BY <2>3, <2>11, <2>12, <2>13, PendSound
  <2> QED BY <1>11, <1>12, <2>3, <2>6, <2>8, <2>9, <2>10, <2>14 DEF Given
<1>13. CASE kind # "huge"
  <2>1. kind \in {"cell", "file", "chunk"} /\ c \in {"small", "large"} /\ c # "huge"
    BY <1>2, <1>13, KindClass DEF Kinds
  <2>2. PICK m, free : /\ m = [more EXCEPT !.free[c] = HunksOf(more, b) \o @]
                       /\ free = [h.free EXCEPT ![c] = HunksOf(more, b) \o h.free[c]]
    OBVIOUS
  <2>3. t = Taken(m, kind)
    BY <1>5, <1>13, <2>2
  <2>4. free \in [{"small", "large"} -> Seq(Hunks)]
    <3>1. HunksOf(more, b) \in Seq(Hunks) /\ h.free[c] \in Seq(Hunks)
      BY <1>3, <1>7, <1>8, <1>11, <2>1, HunksOfIs, HeapFields
    <3>2. HunksOf(more, b) \o h.free[c] \in Seq(Hunks)
      BY <3>1, ConcatProperties
    <3> QED BY <1>3, <2>1, <2>2, <3>2, HeapFields
  <2>5. m = [more EXCEPT !.free = free]
    BY <1>10, <1>11, <2>2 DEF Heaps
  <2>6. m \in Heaps
    BY ONLY <1>10, <2>4, <2>5 DEF Heaps
  <2>7. /\ m.free = free /\ m.blocks = more.blocks /\ m.class = more.class /\ m.typ = more.typ
        /\ m.fld = more.fld /\ m.chunks = more.chunks /\ m.save = more.save /\ m.temp = more.temp
        /\ m.cache = more.cache /\ m.unwritten = more.unwritten /\ m.blocked = more.blocked
        /\ m.panic = more.panic /\ m.sinceGarbage = more.sinceGarbage
    BY ONLY <1>10, <2>5 DEF Heaps
  <2>8. HunksOf(m, b) = HunksOf(more, b)
    BY <2>7 DEF HunksOf
  <2>9. Sound(m, P) /\ m.free[c] # <<>>
    <3>1. m.free = IF c = "huge" THEN h.free ELSE [h.free EXCEPT ![c] = HunksOf(m, b) \o h.free[c]]
      BY <2>1, <2>2, <2>7, <2>8
    <3>2. m.blocks = <<b>> \o h.blocks /\ m.class = [h.class EXCEPT ![b] = c]
      BY <1>6, <1>11, <2>7
    <3>3. HasNew(h, m, b, c)
      BY <1>11, <2>7, <3>1, <3>2 DEF HasNew
    <3>4. Sound(m, P) /\ NewIs(m, P, b, c)
      BY <1>1, <1>2, <2>6, <3>3, NewBlockSound
    <3> QED BY <2>1, <3>4 DEF NewIs
  <2>10. CanTake(m, kind)
    BY <1>2, <1>13, <2>9 DEF CanTake
  <2>11. Given(m, t, kind, P)
    BY <2>1, <2>3, <2>9, <2>10, TakenSound
  <2> QED BY <1>11, <2>7, <2>11 DEF Given
<1> QED BY <1>12, <1>13

\* t is h with an object taken for a kind, whether a collection ran or not.
Allocated(h, t, kind, P) ==
  /\ t \in Heaps /\ t.got \in Hunks /\ t.got \notin P /\ t.typ[t.got] = kind
  /\ Sound(Untyped(t), P \cup {t.got})
  /\ t.chunks = h.chunks /\ t.save = h.save /\ t.temp = h.temp /\ t.panic = FALSE
  /\ t.sinceGarbage <= GarbageTime

LEMMA CountSound ==
  ASSUME NEW h, NEW P, Sound(h, P), NEW s, s = [h EXCEPT !.sinceGarbage = @ + 1]
  PROVE  /\ Sound(s, P) /\ s.sinceGarbage = h.sinceGarbage + 1
         /\ s.chunks = h.chunks /\ s.save = h.save /\ s.temp = h.temp /\ s.panic = h.panic
<1>1. h \in Heaps
  BY DEF Sound
<1>2. PICK n : n = h.sinceGarbage + 1 /\ n \in Nat
  BY <1>1, HeapFields
<1>3. s = [h EXCEPT !.sinceGarbage = n]
  BY <1>1, <1>2 DEF Heaps
<1>4. s \in Heaps
  BY ONLY <1>1, <1>2, <1>3 DEF Heaps
<1>5. /\ s.blocks = h.blocks /\ s.class = h.class /\ s.free = h.free /\ s.typ = h.typ
      /\ s.fld = h.fld /\ s.chunks = h.chunks /\ s.save = h.save /\ s.temp = h.temp
      /\ s.cache = h.cache /\ s.unwritten = h.unwritten /\ s.blocked = h.blocked
      /\ s.panic = h.panic /\ s.sinceGarbage = n
  BY ONLY <1>1, <1>3 DEF Heaps
<1>6. Sound(s, P)
  BY <1>4, <1>5 DEF Sound, PendingOK, PlacesOK, PointersOK, ListsOK, StackOK, RootsOK, Placed, Lives
<1> QED BY <1>2, <1>5, <1>6

LEMMA AllocateSound ==
  ASSUME NEW h, NEW P, Sound(h, P), P \subseteq {h.temp}, h.panic = FALSE,
         h.sinceGarbage <= GarbageTime, NEW kind \in Kinds,
         NEW t, t = MemAllocate(h, kind), ~ t.panic
  PROVE  Allocated(h, t, kind, P)
<1>1. \A s : CanTake(s, kind) => kind \in {"cell", "file", "chunk"}
  BY DEF CanTake, Kinds
<1>2. CASE CanTake(h, kind)
  <2>1. Given(h, t, kind, P)
    BY <1>1, <1>2, TakenSound DEF MemAllocate
  <2> QED BY <2>1 DEF Given, Allocated
<1>3. CASE ~ CanTake(h, kind)
  <2>1. PICK s : s = [h EXCEPT !.sinceGarbage = @ + 1]
    OBVIOUS
  <2>2. t = IF s.sinceGarbage >= GarbageTime \/ Addresses(s) = {}
            THEN AfterCollect(MemCollect(s), kind) ELSE Block(s, kind)
    BY <1>3, <2>1 DEF MemAllocate
  <2>3. /\ Sound(s, P) /\ s.sinceGarbage \in Nat
        /\ s.chunks = h.chunks /\ s.save = h.save /\ s.temp = h.temp /\ s.panic = FALSE
    BY <2>1, CountSound, HeapFields DEF Sound
  <2>4. CASE s.sinceGarbage >= GarbageTime \/ Addresses(s) = {}
    <3>1. PICK g : g = MemCollect(s)
      OBVIOUS
    <3>2. Sound(g, P) /\ Collected(s, g)
      BY <2>3, <3>1, CollectSound
    <3>3. t = AfterCollect(g, kind)
      BY <2>2, <2>4, <3>1
    <3>4. CASE CanTake(g, kind)
      <4>1. t = Taken(g, kind)
        BY <3>3, <3>4 DEF AfterCollect
      <4>2. Given(g, t, kind, P)
        BY <1>1, <3>2, <3>4, <4>1, TakenSound
      <4> QED BY <2>3, <3>2, <4>2, MemConstants DEF Given, Allocated, Collected
    <3>5. CASE ~ CanTake(g, kind) /\ Addresses(g) # {}
      <4>1. t = Block(g, kind)
        BY <3>3, <3>5 DEF AfterCollect
      <4>2. Given(g, t, kind, P)
        BY <3>2, <3>5, <4>1, BlockSound
      <4> QED BY <2>3, <3>2, <4>2, MemConstants DEF Given, Allocated, Collected
    <3>6. CASE ~ CanTake(g, kind) /\ Addresses(g) = {}
      <4>1. t = [g EXCEPT !.panic = TRUE]
        BY <3>3, <3>6 DEF AfterCollect
      <4>2. t.panic = TRUE
        BY <3>2, <4>1 DEF Sound, Heaps
      <4> QED BY <4>2
    <3> QED BY <3>4, <3>5, <3>6
  <2>5. CASE ~ (s.sinceGarbage >= GarbageTime \/ Addresses(s) = {})
    <3>1. t = Block(s, kind)
      BY <2>2, <2>5
    <3>2. Given(s, t, kind, P)
      BY <2>3, <2>5, <3>1, BlockSound
    <3> QED BY <2>3, <2>5, <3>2, MemConstants DEF Given, Allocated
  <2> QED BY <2>4, <2>5
<1> QED BY <1>2, <1>3

-----------------------------------------------------------------------------
(* REFERENCE and ALLOCATE *)

Chunk == [at : Hunks, refs : Seq(Hunks)]

\* The stack d is c with o on top; what is below stays.
Pushed(c, d, o) ==
  /\ d \in Seq(Chunk) /\ Len(c) <= Len(d) /\ 1 <= Len(d)
  /\ \A k \in 1..Len(c) : Len(c[k].refs) <= Len(d[k].refs)
  /\ d[Len(d)].refs # <<>> /\ d[Len(d)].refs[Len(d[Len(d)].refs)] = o

\* All chunks are of objects in A, and all references in them to objects in R.
Holds(c, A, R) ==
  \A k \in 1..Len(c) : /\ c[k].at \in A
                       /\ \A i \in 1..Len(c[k].refs) : c[k].refs[i] \in R

WithLast(c, n, refs) == [c EXCEPT ![n] = [c[n] EXCEPT !.refs = refs]]

LEMMA PushLast ==
  ASSUME NEW c \in Seq(Chunk), c # <<>>, NEW o \in Hunks, NEW A, NEW R, Holds(c, A, R), o \in R,
         NEW n, n = Len(c), NEW refs, refs = Append(c[n].refs, o),
         NEW d, d = WithLast(c, n, refs)
  PROVE  d \in Seq(Chunk) /\ d # <<>> /\ Holds(d, A, R) /\ Pushed(c, d, o)
<1>1. n \in Nat \ {0} /\ n \in 1..n
  BY EmptySeq
<1>2. \A k \in 1..n : c[k] \in Chunk /\ c[k].at \in Hunks /\ c[k].refs \in Seq(Hunks) /\ Len(c[k].refs) \in Nat
  BY ChunkTypes, ElementOfSeq DEF Chunk
<1>3. PICK m : m = Len(c[n].refs) /\ m \in Nat
  BY <1>1, <1>2
<1>4. refs \in Seq(Hunks) /\ Len(refs) = m + 1 /\ refs[m + 1] = o /\ \A i \in 1..m : refs[i] = c[n].refs[i]
  <2>1. PICK old : old = c[n].refs /\ old \in Seq(Hunks)
    BY <1>1, <1>2
  <2> QED BY <1>3, <2>1, AppendProperties
<1>5. PICK new : new = [c[n] EXCEPT !.refs = refs]
  OBVIOUS
<1>6. new \in Chunk /\ new.at = c[n].at /\ new.refs = refs
  BY <1>1, <1>2, <1>4, <1>5 DEF Chunk
<1>7. d \in Seq(Chunk) /\ Len(d) = n /\ \A k \in 1..n : d[k] = IF k = n THEN new ELSE c[k]
  <2>1. d = [c EXCEPT ![n] = new]
    BY <1>5 DEF WithLast
  <2>2. n \in 1..Len(c)
    BY <1>1
  <2>3. /\ d \in Seq(Chunk) /\ Len(d) = Len(c)
        /\ \A k \in 1..Len(c) : d[k] = IF k = n THEN new ELSE c[k]
    BY ONLY <1>6, <2>1, <2>2, c \in Seq(Chunk), ExceptSeq
  <2> QED BY <2>3
<1>8. d # <<>>
  BY <1>1, <1>7, EmptySeq
<1>9. Holds(d, A, R)
  <2>1. \A i \in 1..(m + 1) : i \in 1..m \/ i = m + 1
    BY <1>3
  <2>2. \A k \in 1..n : c[k].at \in A /\ \A i \in 1..Len(c[k].refs) : c[k].refs[i] \in R
    BY DEF Holds
  <2>3. \A i \in 1..(m + 1) : refs[i] \in R
    BY <1>1, <1>3, <1>4, <2>1, <2>2
  <2>4. \A k \in 1..n : d[k].at \in A /\ \A i \in 1..Len(d[k].refs) : d[k].refs[i] \in R
    <3> TAKE k \in 1..n
    <3>1. CASE k = n
      <4>1. d[k].at = c[k].at /\ d[k].refs = refs
        BY <1>6, <1>7, <3>1
      <4>2. c[k].at \in A /\ Len(refs) = m + 1
        BY <1>4, <2>2
      <4> QED BY <2>3, <4>1, <4>2
    <3>2. CASE k # n
      BY <1>7, <2>2, <3>2
    <3> QED BY <3>1, <3>2
  <2> QED BY <1>7, <2>4 DEF Holds
<1>10. Pushed(c, d, o)
  <2>1. d[n] = new /\ d[n].refs = refs
    BY <1>1, <1>6, <1>7
  <2>2. refs # <<>> /\ refs[Len(refs)] = o
    BY <1>3, <1>4, EmptySeq
  <2>3. \A k \in 1..n : Len(c[k].refs) <= Len(d[k].refs)
    BY <1>1, <1>2, <1>3, <1>4, <1>7, <2>1
  <2> QED BY <1>1, <1>7, <2>1, <2>2, <2>3 DEF Pushed
<1> QED BY <1>7, <1>8, <1>9, <1>10

LEMMA PushChunk ==
  ASSUME NEW c \in Seq(Chunk), c # <<>>, NEW o \in Hunks, NEW A, NEW R, Holds(c, A, R), o \in R,
         NEW a \in Hunks, a \in A, NEW d, d = Append(c, [at |-> a, refs |-> <<o>>])
  PROVE  d \in Seq(Chunk) /\ d # <<>> /\ Holds(d, A, R) /\ Pushed(c, d, o)
<1>1. PICK n, new : n = Len(c) /\ new = [at |-> a, refs |-> <<o>>]
  OBVIOUS
<1>2. n \in Nat /\ \A k \in 1..n : c[k].refs \in Seq(Hunks) /\ Len(c[k].refs) \in Nat
  BY <1>1, ChunkTypes DEF Chunk
<1>3. new \in Chunk /\ new.at = a /\ new.refs = <<o>>
  BY <1>1 DEF Chunk
<1>4. PICK refs : refs = <<o>> /\ Len(refs) = 1 /\ refs[1] = o /\ refs # <<>>
  BY EmptySeq
<1>5. d \in Seq(Chunk) /\ Len(d) = n + 1 /\ d[n + 1] = new /\ \A k \in 1..n : d[k] = c[k]
  <2>1. d = Append(c, new)
    BY <1>1
  <2> QED BY ONLY <1>1, <1>3, <2>1, c \in Seq(Chunk), AppendProperties
<1>6. \A k \in 1..(n + 1) : k \in 1..n \/ k = n + 1
  BY <1>2
<1>7. d # <<>>
  BY <1>2, <1>5, EmptySeq
<1>8. Holds(d, A, R)
  <2>1. \A k \in 1..n : c[k].at \in A /\ \A i \in 1..Len(c[k].refs) : c[k].refs[i] \in R
    BY <1>1 DEF Holds
  <2>2. new.refs = refs /\ \A i \in 1..1 : i = 1
    BY <1>3, <1>4
  <2>3. \A i \in 1..Len(new.refs) : new.refs[i] \in R
    BY <1>4, <2>2
  <2>4. \A k \in 1..(n + 1) : d[k].at \in A /\ \A i \in 1..Len(d[k].refs) : d[k].refs[i] \in R
    BY <1>3, <1>5, <1>6, <2>1, <2>3
  <2> QED BY <1>5, <2>4 DEF Holds
<1>9. Pushed(c, d, o)
  <2>1. d[n + 1].refs = refs /\ refs[Len(refs)] = o
    BY <1>3, <1>4, <1>5
  <2>2. \A k \in 1..n : Len(c[k].refs) <= Len(d[k].refs)
    BY <1>2, <1>5
  <2> QED BY <1>1, <1>2, <1>4, <1>5, <2>1, <2>2 DEF Pushed
<1> QED BY <1>5, <1>7, <1>8, <1>9

\* What the stack does not hold.
SameHeap(h, u) ==
  /\ u.blocks = h.blocks /\ u.class = h.class /\ u.typ = h.typ /\ u.fld = h.fld /\ u.free = h.free
  /\ u.cache = h.cache /\ u.unwritten = h.unwritten /\ u.blocked = h.blocked

OfChunks(h) == {o \in Hunks : h.typ[o] = "chunk"}

Living(h, P) == {o \in Hunks : Lives(h, P, o)}

LEMMA StackHolds ==
  ASSUME NEW h \in Heaps, NEW P
  PROVE  StackOK(h, P) <=> h.chunks # <<>> /\ Holds(h.chunks, OfChunks(h), Living(h, P))
<1>1. \A k \in 1..Len(h.chunks) : /\ h.chunks[k].at \in Hunks
                                  /\ \A i \in 1..Len(h.chunks[k].refs) : h.chunks[k].refs[i] \in Hunks
  BY HeapFields, ChunkTypes
<1> QED BY <1>1 DEF StackOK, Holds, OfChunks, Living

LEMMA StackChange ==
  ASSUME NEW h, NEW P, Sound(h, P), NEW u \in Heaps, SameHeap(h, u),
         u.chunks # <<>>, Holds(u.chunks, OfChunks(h), Living(h, P)),
         u.save # Null => h.typ[u.save] = "chunk", u.temp # Null => Lives(h, P, u.temp)
  PROVE  Sound(u, P)
<1>1. OfChunks(u) = OfChunks(h) /\ Living(u, P) = Living(h, P)
  BY DEF SameHeap, OfChunks, Living, Lives
<1>2. StackOK(u, P)
  BY <1>1, StackHolds
<1>3. RootsOK(u, P)
  BY DEF Sound, SameHeap, RootsOK, Lives
<1> QED BY <1>2, <1>3 DEF Sound, SameHeap, PendingOK, PlacesOK, PointersOK, ListsOK, Placed

\* An object that was taken gets its type; a cell points to nothing yet.
LEMMA TypedSound ==
  ASSUME NEW h, NEW P, Sound(h, P), NEW g \in P, NEW kind \in Kinds, NEW u \in Heaps, SameBut(h, u),
         u.free = h.free, u.typ = [h.typ EXCEPT ![g] = kind],
         \A o \in Hunks : o # g => u.fld[o] = h.fld[o], kind = "cell" => u.fld[g] = Null
  PROVE  Sound(u, P \ {g})
<1>1. /\ h \in Heaps /\ PendingOK(h, P) /\ PlacesOK(h) /\ PointersOK(h)
      /\ ListsOK(h, P) /\ StackOK(h, P) /\ RootsOK(h, P)
  BY DEF Sound
<1>2. /\ u.blocks = h.blocks /\ u.class = h.class /\ u.chunks = h.chunks /\ u.save = h.save
      /\ u.temp = h.temp /\ u.cache = h.cache /\ u.unwritten = h.unwritten
      /\ u.blocked = h.blocked
  BY DEF SameBut
<1>3. PICK Q : Q = P \ {g}
  OBVIOUS
<1>4. g \in Hunks /\ h.typ[g] = Free /\ Placed(h, g) /\ kind # Free
  BY <1>1, KindClass DEF PendingOK
<1>5. \A o \in Hunks : u.typ[o] = IF o = g THEN kind ELSE h.typ[o]
  BY <1>1, HeapFields
<1>6. \A o : Placed(u, o) <=> Placed(h, o)
  BY <1>2 DEF Placed
<1>7. \A o \in Hunks : Lives(h, P, o) => Lives(u, Q, o)
  BY <1>3, <1>4, <1>5 DEF Lives
<1>8. \A o \in Hunks : h.typ[o] # Free => o # g /\ u.typ[o] = h.typ[o]
  BY <1>4, <1>5
<1>9. PendingOK(u, Q)
  BY <1>1, <1>3, <1>5, <1>6 DEF PendingOK
<1>10. PlacesOK(u)
  BY <1>1, <1>2, <1>4, <1>5, <1>6 DEF PlacesOK
<1>11. PointersOK(u)
  <2>1. \A o \in Hunks : h.fld[o] # Null => h.fld[o] \in Hunks
    BY <1>1, HeapFields
  <2> QED BY <1>1, <1>5, <1>8, <2>1 DEF PointersOK
<1>12. ListsOK(u, Q)
  <2>1. ASSUME NEW d \in {"small", "large"}
        PROVE  /\ IsInjective(u.free[d])
               /\ \A o \in Hunks : o \in Range(u.free[d]) <=>
                    Placed(u, o) /\ u.class[o[1]] = d /\ u.typ[o] = Free /\ o \notin Q
    <3>1. /\ IsInjective(h.free[d])
          /\ \A o \in Hunks : o \in Range(h.free[d]) <=>
               Placed(h, o) /\ h.class[o[1]] = d /\ h.typ[o] = Free /\ o \notin P
      BY <1>1 DEF ListsOK
    <3> QED BY <1>2, <1>3, <1>4, <1>5, <1>6, <3>1
  <2> QED BY <2>1 DEF ListsOK
<1>13. StackOK(u, Q)
  <2>1. \A k \in 1..Len(h.chunks) : /\ h.chunks[k].at \in Hunks
                                    /\ \A i \in 1..Len(h.chunks[k].refs) : h.chunks[k].refs[i] \in Hunks
    BY <1>1, HeapFields, ChunkTypes
  <2>2. \A o \in Hunks : h.typ[o] = "chunk" => u.typ[o] = "chunk"
    BY <1>8 DEF Free
  <2> QED BY <1>1, <1>2, <1>7, <2>1, <2>2 DEF StackOK
<1>14. RootsOK(u, Q)
  <2>1. /\ h.save # Null => h.save \in Hunks
        /\ h.temp # Null => h.temp \in Hunks
        /\ h.cache # Null => h.cache \in Hunks
        /\ h.unwritten \in SUBSET Hunks
    BY <1>1, HeapFields
  <2>2. \A o \in Hunks : h.typ[o] \in {"chunk", "cell", "file"} => u.typ[o] = h.typ[o]
    BY <1>8 DEF Free
  <2> QED BY <1>1, <1>2, <1>7, <2>1, <2>2 DEF RootsOK
<1> QED BY <1>3, <1>9, <1>10, <1>11, <1>12, <1>13, <1>14 DEF Sound

\* A step of the heap's owner that leaves it sound, with o on top of the stack.
Referenced(h, r, P, o) ==
  /\ Sound(r, P) /\ r.temp = Null /\ r.panic = FALSE /\ r.sinceGarbage <= GarbageTime
  /\ Pushed(h.chunks, r.chunks, o)

LEMMA RefsExcept ==
  ASSUME NEW h, NEW n, NEW e, NEW d, d = [h.chunks EXCEPT ![n] = [h.chunks[n] EXCEPT !.refs = e]]
  PROVE  [h EXCEPT !.chunks[n].refs = e] = [h EXCEPT !.chunks = d]
BY SMT

LEMMA ReferenceSound ==
  ASSUME NEW h, NEW P, Sound(h, P), h.temp = Null, h.panic = FALSE, h.sinceGarbage <= GarbageTime,
         NEW o \in Hunks, Lives(h, P, o), P \subseteq {o}, NEW r, r = Reference(h, o), ~ r.panic
  PROVE  Referenced(h, r, P, o)
<1>1. h \in Heaps /\ StackOK(h, P) /\ RootsOK(h, P)
  BY DEF Sound
<1>2. PICK c, n, last : c = h.chunks /\ n = Len(c) /\ last = c[n]
  OBVIOUS
<1>3. c \in Seq(Chunk) /\ c # <<>> /\ Holds(c, OfChunks(h), Living(h, P)) /\ o \in Living(h, P)
  BY <1>1, <1>2, HeapFields, StackHolds DEF Chunk, Living
<1>4. PICK more : more = MemAllocate([h EXCEPT !.temp = o], "chunk")
  OBVIOUS
<1>5. r = CASE Len(last.refs) < ChunkEntries ->
                 [h EXCEPT !.chunks[Len(h.chunks)].refs = Append(@, o)]
            [] Len(last.refs) = ChunkEntries /\ h.save # Null ->
                 [h EXCEPT !.chunks = Append(@, [at |-> h.save, refs |-> <<o>>]), !.save = Null]
            [] OTHER -> [more EXCEPT !.chunks = Append(@, [at |-> more.got, refs |-> <<o>>]),
                                     !.temp = Null]
  BY <1>2, <1>4 DEF Reference
<1>6. last.refs \in Seq(Hunks) /\ Len(last.refs) \in Nat /\ ChunkEntries \in Nat \ {0} /\ n \in 1..Len(c)
  <2>1. Len(c) \in Nat \ {0}
    BY <1>3, EmptySeq
  <2>2. n \in 1..Len(c)
    BY <1>2, <2>1
  <2>3. c[n].refs \in Seq(Hunks) /\ Len(c[n].refs) \in Nat
    BY <1>3, <2>2, ChunkTypes DEF Chunk
  <2> QED BY <1>2, <2>2, <2>3, MemConstants
<1>7. CASE Len(last.refs) < ChunkEntries
  <2>1. PICK refs, d : refs = Append(last.refs, o) /\ d = [c EXCEPT ![n] = [@ EXCEPT !.refs = refs]]
    OBVIOUS
  <2>2. r = [h EXCEPT !.chunks[n].refs = Append(@, o)]
    BY <1>2, <1>5, <1>6, <1>7
  <2>3. r = [h EXCEPT !.chunks = d]
    <3>1. d = [h.chunks EXCEPT ![n] = [h.chunks[n] EXCEPT !.refs = Append(h.chunks[n].refs, o)]]
      BY <1>2, <2>1
    <3>2. PICK e : e = Append(h.chunks[n].refs, o)
      OBVIOUS
    <3>3. r = [h EXCEPT !.chunks[n].refs = e]
      BY ONLY <2>2, <3>2
    <3>4. d = [h.chunks EXCEPT ![n] = [h.chunks[n] EXCEPT !.refs = e]]
      BY ONLY <3>1, <3>2
    <3> QED BY ONLY <3>3, <3>4, RefsExcept, Zenon
  <2>4. d \in Seq(Chunk) /\ d # <<>> /\ Holds(d, OfChunks(h), Living(h, P)) /\ Pushed(c, d, o)
    <3>1. PICK A, R : A = OfChunks(h) /\ R = Living(h, P)
      OBVIOUS
    <3>2. Holds(c, A, R) /\ o \in R /\ c \in Seq(Chunk) /\ c # <<>> /\ n = Len(c)
      BY <1>2, <1>3, <3>1
    <3>3. refs = Append(c[n].refs, o) /\ d = WithLast(c, n, refs)
      BY <1>2, <2>1 DEF WithLast
    <3>4. d \in Seq(Chunk) /\ d # <<>> /\ Holds(d, A, R) /\ Pushed(c, d, o)
      BY ONLY <3>2, <3>3, o \in Hunks, PushLast
    <3> QED BY <3>1, <3>4
  <2>5. r \in Heaps
    BY ONLY <1>1, <2>3, <2>4 DEF Heaps, Chunk
  <2>6. /\ r.chunks = d /\ SameHeap(h, r) /\ r.save = h.save /\ r.temp = h.temp /\ r.panic = h.panic
        /\ r.sinceGarbage = h.sinceGarbage
    BY ONLY <1>1, <2>3 DEF Heaps, SameHeap
  <2>7. Sound(r, P)
    BY <1>1, <2>4, <2>5, <2>6, StackChange DEF RootsOK
  <2> QED BY <1>2, <2>4, <2>6, <2>7 DEF Referenced
<1>8. CASE Len(last.refs) = ChunkEntries /\ h.save # Null
  <2>1. PICK d : d = Append(c, [at |-> h.save, refs |-> <<o>>])
    OBVIOUS
  <2>2. ~ (Len(last.refs) < ChunkEntries)
    BY <1>6, <1>8
  <2>3. r = [h EXCEPT !.chunks = d, !.save = Null]
    BY <1>2, <1>5, <1>8, <2>1, <2>2
  <2>4. h.save \in Hunks /\ h.save \in OfChunks(h)
    BY <1>1, <1>8, HeapFields DEF RootsOK, OfChunks
  <2>5. d \in Seq(Chunk) /\ d # <<>> /\ Holds(d, OfChunks(h), Living(h, P)) /\ Pushed(c, d, o)
    BY <1>3, <2>1, <2>4, PushChunk
  <2>6. r \in Heaps
    BY ONLY <1>1, <2>3, <2>5 DEF Heaps, Chunk
  <2>7. /\ r.chunks = d /\ SameHeap(h, r) /\ r.save = Null /\ r.temp = h.temp /\ r.panic = h.panic
        /\ r.sinceGarbage = h.sinceGarbage
    BY ONLY <1>1, <2>3 DEF Heaps, SameHeap
  <2>8. Sound(r, P)
    BY <2>5, <2>6, <2>7, StackChange
  <2> QED BY <1>2, <2>5, <2>7, <2>8 DEF Referenced
<1>9. CASE ~ (Len(last.refs) < ChunkEntries) /\ ~ (Len(last.refs) = ChunkEntries /\ h.save # Null)
  <2>1. PICK g, d : g = more.got /\ d = Append(more.chunks, [at |-> more.got, refs |-> <<o>>])
    OBVIOUS
  <2>2. r = [more EXCEPT !.chunks = d, !.temp = Null]
    BY <1>5, <1>9, <2>1
  <2>3. PICK s : s = [h EXCEPT !.temp = o]
    OBVIOUS
  <2>4. s \in Heaps
    BY ONLY <1>1, <2>3, o \in Hunks DEF Heaps
  <2>5. /\ s.chunks = c /\ SameHeap(h, s) /\ s.save = h.save /\ s.temp = o /\ s.panic = FALSE
        /\ s.sinceGarbage = h.sinceGarbage
    BY <1>1, <1>2, <2>3 DEF Heaps, SameHeap
  <2>6. Sound(s, P)
    BY <1>1, <1>3, <2>4, <2>5, StackChange DEF RootsOK
  <2>7. ~ more.panic
    <3>1. more.panic => r.panic
      BY <1>4, <2>2, <2>3
    <3> QED BY <3>1
  <2>8. Allocated(s, more, "chunk", P)
    <3>1. "chunk" \in Kinds /\ more = MemAllocate(s, "chunk")
      BY <1>4, <2>3 DEF Kinds
    <3> QED BY <2>5, <2>6, <2>7, <3>1, AllocateSound
  <2>9. /\ more \in Heaps /\ g \in Hunks /\ g \notin P /\ more.typ[g] = "chunk"
        /\ Sound(Untyped(more), P \cup {g}) /\ more.chunks = c /\ more.save = h.save
        /\ more.panic = FALSE /\ more.sinceGarbage <= GarbageTime /\ more.temp = o
    BY <2>1, <2>5, <2>8 DEF Allocated
  <2>10. PICK u : u = Untyped(more)
    OBVIOUS
  <2>11. /\ u \in Heaps /\ SameBut(u, more) /\ more.free = u.free /\ more.fld = u.fld
         /\ u.typ = [more.typ EXCEPT ![g] = Free] /\ u.chunks = c /\ u.save = h.save /\ u.temp = o
    BY <2>1, <2>9, <2>10, UntypedFields DEF SameBut
  <2>12. more.typ = [u.typ EXCEPT ![g] = "chunk"]
    <3>1. more.typ \in [Hunks -> Kinds \cup {Free}]
      BY <2>9, HeapFields
    <3> QED BY <2>9, <2>11, <3>1
  <2>13. Sound(more, P)
    <3>1. g \in P \cup {g} /\ (P \cup {g}) \ {g} = P /\ "chunk" \in Kinds /\ "chunk" # "cell"
      BY <2>9 DEF Kinds
    <3>2. PICK Q : Q = P \cup {g}
      OBVIOUS
    <3>3. Sound(more, Q \ {g})
      BY <2>9, <2>10, <2>11, <2>12, <3>1, <3>2, TypedSound
    <3> QED BY <3>1, <3>2, <3>3
  <2>14. Holds(c, OfChunks(more), Living(more, P)) /\ g \in OfChunks(more) /\ o \in Living(more, P)
    <3>1. StackOK(more, P) /\ RootsOK(more, P)
      BY <2>13 DEF Sound
    <3> QED BY <2>9, <3>1, StackHolds, NullIsNoHunk DEF RootsOK, OfChunks, Living
  <2>15. d \in Seq(Chunk) /\ d # <<>> /\ Holds(d, OfChunks(more), Living(more, P)) /\ Pushed(c, d, o)
    <3>1. d = Append(c, [at |-> g, refs |-> <<o>>])
      BY <2>1, <2>9
    <3>2. PICK A, R : A = OfChunks(more) /\ R = Living(more, P)
      OBVIOUS
    <3>3. Holds(c, A, R) /\ g \in A /\ o \in R
      BY <2>14, <3>2
    <3>4. c \in Seq(Chunk) /\ c # <<>> /\ g \in Hunks /\ o \in Hunks
      BY <1>3, <2>9
    <3>5. d \in Seq(Chunk) /\ d # <<>> /\ Holds(d, A, R) /\ Pushed(c, d, o)
      BY ONLY <3>1, <3>3, <3>4, PushChunk
    <3> QED BY <3>2, <3>5
  <2>16. r \in Heaps
    BY ONLY <2>2, <2>9, <2>15 DEF Heaps, Chunk
  <2>17. /\ r.chunks = d /\ SameHeap(more, r) /\ r.save = more.save /\ r.temp = Null
         /\ r.panic = more.panic /\ r.sinceGarbage = more.sinceGarbage
    BY ONLY <2>2, <2>9 DEF Heaps, SameHeap
  <2>18. Sound(r, P)
    BY <2>13, <2>15, <2>16, <2>17, StackChange DEF Sound, RootsOK
  <2> QED BY <1>2, <2>9, <2>15, <2>17, <2>18 DEF Referenced
<1> QED BY <1>7, <1>8, <1>9

LEMMA NewestIs ==
  ASSUME NEW h, NEW c, NEW o, Pushed(c, h.chunks, o)
  PROVE  Newest(h) = o
BY DEF Pushed, Newest

LEMMA ConstructSound ==
  ASSUME Sound(heap, {}), Quiet(heap),
         NEW kind \in Kinds, NEW r, r = Construct(kind), ~ r.panic
  PROVE  \E g \in Hunks : Referenced(heap, r, {}, g) /\ r.typ[g] = kind
<1>1. PICK new : new = MemAllocate(heap, kind)
  OBVIOUS
<1>2. PICK m : m = MemAllocateRef(heap, kind)
  OBVIOUS
<1>3. r = IF m.panic THEN m ELSE [m EXCEPT !.fld[Newest(m)] = Null]
  BY <1>2 DEF Construct
<1>4. ~ m.panic
  BY <1>3
<1>5. PICK u : u = [new EXCEPT !.typ[new.got] = Free]
  OBVIOUS
<1>6. PICK v : v = Reference(u, new.got)
  OBVIOUS
<1>7. m = IF new.panic THEN new ELSE [v EXCEPT !.typ[new.got] = kind]
  BY <1>1, <1>2, <1>5, <1>6 DEF MemAllocateRef
<1>8. ~ new.panic
  BY <1>4, <1>7
<1>9. Allocated(heap, new, kind, {})
  BY <1>1, <1>8, AllocateSound DEF Quiet
<1>10. PICK g : g = new.got
  OBVIOUS
<1>11. /\ new \in Heaps /\ g \in Hunks /\ Sound(Untyped(new), {g}) /\ new.chunks = heap.chunks
       /\ new.temp = Null /\ new.panic = FALSE /\ new.sinceGarbage <= GarbageTime
  <2>1. {} \cup {g} = {g}
    OBVIOUS
  <2> QED BY <1>9, <1>10, <2>1 DEF Allocated, Quiet
<1>12. u = Untyped(new)
  BY ONLY <1>5, <1>11 DEF Untyped, Heaps
<1>13. /\ Sound(u, {g}) /\ u.temp = Null /\ u.panic = FALSE /\ u.sinceGarbage <= GarbageTime
       /\ u.chunks = heap.chunks
  <2>1. u.sinceGarbage = new.sinceGarbage
    BY ONLY <1>5, <1>11 DEF Heaps
  <2> QED BY <1>11, <1>12, <2>1, UntypedFields
<1>14. m = [v EXCEPT !.typ[g] = kind]
  BY <1>7, <1>8, <1>10
<1>15. ~ v.panic
  <2>1. v.panic => m.panic
    BY <1>14
  <2> QED BY <1>4, <2>1
<1>16. Referenced(u, v, {g}, g)
  <2>1. Lives(u, {g}, g)
    BY DEF Lives
  <2> QED BY <1>6, <1>10, <1>11, <1>13, <1>15, <2>1, ReferenceSound
<1>17. /\ v \in Heaps /\ Sound(v, {g}) /\ v.temp = Null /\ v.panic = FALSE /\ v.sinceGarbage <= GarbageTime
       /\ Pushed(heap.chunks, v.chunks, g)
  BY <1>13, <1>16 DEF Referenced, Sound
<1>18. v.typ \in [Hunks -> Kinds \cup {Free}] /\ v.fld \in [Hunks -> Hunks \cup {Null}]
  BY <1>17, HeapFields
<1>19. PICK typ, fld : typ = [v.typ EXCEPT ![g] = kind] /\ fld = [v.fld EXCEPT ![g] = Null]
  OBVIOUS
<1>20. /\ typ \in [Hunks -> Kinds \cup {Free}] /\ fld \in [Hunks -> Hunks \cup {Null}]
       /\ typ[g] = kind /\ fld[g] = Null /\ \A o \in Hunks : o # g => fld[o] = v.fld[o]
  BY <1>11, <1>18, <1>19
<1>21. m = [v EXCEPT !.typ = typ]
  BY ONLY <1>14, <1>17, <1>19 DEF Heaps
<1>22. m.chunks = v.chunks /\ m.fld = v.fld
  BY ONLY <1>17, <1>21 DEF Heaps
<1>23. Newest(m) = g
  BY <1>17, <1>22, NewestIs
<1>24. r = [m EXCEPT !.fld[g] = Null]
  BY <1>3, <1>4, <1>23
<1>25. r = [v EXCEPT !.typ = typ, !.fld = fld]
  BY ONLY <1>17, <1>19, <1>21, <1>22, <1>24 DEF Heaps
<1>26. r \in Heaps
  BY ONLY <1>17, <1>20, <1>25 DEF Heaps
<1>27. /\ SameBut(v, r) /\ r.free = v.free /\ r.typ = typ /\ r.fld = fld /\ r.chunks = v.chunks
       /\ r.temp = v.temp /\ r.panic = v.panic /\ r.sinceGarbage = v.sinceGarbage
  BY ONLY <1>17, <1>25 DEF Heaps, SameBut
<1>28. Sound(r, {})
  <2>1. PICK P : P = {g}
    OBVIOUS
  <2>2. Sound(r, P \ {g})
    BY <1>17, <1>19, <1>20, <1>26, <1>27, <2>1, TypedSound
  <2>3. P \ {g} = {}
    BY <2>1
  <2> QED BY <2>2, <2>3
<1>29. Referenced(heap, r, {}, g)
  BY <1>17, <1>27, <1>28 DEF Referenced
<1> QED BY <1>11, <1>20, <1>27, <1>29

-----------------------------------------------------------------------------
(* ENTER, EXIT *)

\* The stack ends at the mark.
CutBack(h, r, mark) ==
  /\ Sound(r, {}) /\ r.temp = Null /\ r.panic = FALSE /\ r.sinceGarbage <= GarbageTime
  /\ r.typ = h.typ /\ Len(r.chunks) = mark[1]
  /\ Len(r.chunks[mark[1]].refs) = mark[2]
  /\ \A k \in 1..mark[1] : k # mark[1] => r.chunks[k] = h.chunks[k]

LEMMA ResetSound ==
  ASSUME NEW h, Sound(h, {}), h.temp = Null, h.panic = FALSE, h.sinceGarbage <= GarbageTime,
         NEW mark, InStack(h.chunks, mark), NEW r, r = Reset(h, mark)
  PROVE  CutBack(h, r, mark)
<1>1. h \in Heaps /\ StackOK(h, {}) /\ RootsOK(h, {})
  BY DEF Sound
<1>2. PICK c, n, m, l : c = h.chunks /\ n = Len(c) /\ m = mark[1] /\ l = mark[2]
  OBVIOUS
<1>3. c \in Seq(Chunk) /\ c # <<>> /\ Holds(c, OfChunks(h), Living(h, {}))
  BY <1>1, <1>2, HeapFields, StackHolds DEF Chunk
<1>4. /\ n \in Nat /\ m \in 1..n /\ l \in 0..Len(c[m].refs)
      /\ \A k \in 1..n : /\ c[k] \in Chunk /\ c[k].at \in Hunks /\ c[k].refs \in Seq(Hunks)
                         /\ Len(c[k].refs) \in Nat
  BY <1>2, <1>3, ChunkTypes, ElementOfSeq DEF InStack, Chunk
<1>5. PICK refs, cut : refs = SubSeq(c[m].refs, 1, l) /\ cut = [c[m] EXCEPT !.refs = refs]
  OBVIOUS
<1>6. refs \in Seq(Hunks) /\ Len(refs) = l /\ \A i \in 1..l : i \in 1..Len(c[m].refs) /\ refs[i] = c[m].refs[i]
  <2>1. PICK old : old = c[m].refs /\ old \in Seq(Hunks) /\ Len(old) \in Nat /\ l \in 0..Len(old)
    BY <1>4
  <2>2. \A i \in 1..l : i \in 1..Len(old) /\ old[i] \in Hunks
    BY <2>1, ElementOfSeq
  <2>3. /\ refs \in Seq(Hunks) /\ Len(refs) = (IF 1 <= l THEN l - 1 + 1 ELSE 0)
        /\ \A i \in 1..(l - 1 + 1) : refs[i] = old[1 + i - 1]
    <3>1. refs = SubSeq(old, 1, l) /\ 1 \in Int /\ l \in Int
      BY <1>5, <2>1
    <3> QED BY <2>2, <3>1, SubSeqProperties
  <2>4. Len(refs) = l
    BY <2>1, <2>3
  <2>5. \A i \in 1..l : refs[i] = old[i]
    BY <2>1, <2>3
  <2> QED BY <2>1, <2>2, <2>3, <2>4, <2>5
<1>7. cut \in Chunk /\ cut.at = c[m].at /\ cut.refs = refs
  BY <1>4, <1>5, <1>6 DEF Chunk
<1>8. PICK low : low = SubSeq(c, 1, m - 1)
  OBVIOUS
<1>9. low \in Seq(Chunk) /\ Len(low) = m - 1 /\ \A k \in 1..(m - 1) : k \in 1..n /\ low[k] = c[k]
  <2>1. \A k \in 1..(m - 1) : k \in 1..n
    BY <1>4
  <2>2. /\ low \in Seq(Chunk) /\ Len(low) = (IF 1 <= m - 1 THEN (m - 1) - 1 + 1 ELSE 0)
        /\ \A k \in 1..((m - 1) - 1 + 1) : low[k] = c[1 + k - 1]
    <3>1. 1 \in Int /\ m - 1 \in Int /\ \A k \in 1..(m - 1) : c[k] \in Chunk
      BY <1>4, <2>1
    <3> QED BY <1>8, <3>1, SubSeqProperties
  <2>3. Len(low) = m - 1
    BY <1>4, <2>2
  <2>4. \A k \in 1..(m - 1) : low[k] = c[k]
    BY <1>4, <2>2
  <2> QED BY <2>1, <2>2, <2>3, <2>4
<1>10. PICK d : d = Append(low, cut)
  OBVIOUS
<1>11. /\ d \in Seq(Chunk) /\ Len(d) = m /\ d[m] = cut /\ \A k \in 1..(m - 1) : d[k] = c[k]
  <2>1. /\ d \in Seq(Chunk) /\ Len(d) = Len(low) + 1 /\ d[Len(low) + 1] = cut
        /\ \A k \in 1..Len(low) : d[k] = low[k]
    BY ONLY <1>7, <1>9, <1>10, AppendProperties
  <2> QED BY <1>4, <1>9, <2>1
<1>12. d # <<>>
  BY <1>4, <1>11, EmptySeq
<1>13. PICK A, R : A = OfChunks(h) /\ R = Living(h, {})
  OBVIOUS
<1>14. Holds(d, A, R)
  <2>1. \A k \in 1..n : c[k].at \in A /\ \A i \in 1..Len(c[k].refs) : c[k].refs[i] \in R
    BY <1>2, <1>3, <1>13 DEF Holds
  <2>2. cut.at \in A /\ \A i \in 1..Len(cut.refs) : cut.refs[i] \in R
    <3>1. \A i \in 1..l : refs[i] \in R
      BY <1>4, <1>6, <2>1
    <3> QED BY <1>4, <1>6, <1>7, <2>1, <3>1
  <2>3. \A k \in 1..m : k = m \/ k \in 1..(m - 1)
    BY <1>4
  <2>4. \A k \in 1..m : d[k].at \in A /\ \A i \in 1..Len(d[k].refs) : d[k].refs[i] \in R
    BY <1>9, <1>11, <2>1, <2>2, <2>3
  <2> QED BY <1>11, <2>4 DEF Holds
<1>15. PICK save : save = IF m < n /\ h.save = Null THEN c[n].at ELSE h.save
  OBVIOUS
<1>16. r = [h EXCEPT !.chunks = d, !.save = save]
  BY <1>2, <1>5, <1>8, <1>10, <1>15 DEF Reset
<1>17. save \in Hunks \cup {Null} /\ (save # Null => h.typ[save] = "chunk")
  <2>1. n \in 1..n
    BY <1>4
  <2>2. c[n].at \in Hunks /\ h.typ[c[n].at] = "chunk"
    BY <1>2, <1>3, <1>4, <2>1 DEF Holds, OfChunks
  <2> QED BY <1>1, <1>15, <2>2, HeapFields DEF RootsOK
<1>18. r \in Heaps
  BY ONLY <1>1, <1>11, <1>16, <1>17 DEF Heaps, Chunk
<1>19. /\ r.chunks = d /\ r.save = save /\ SameHeap(h, r) /\ r.temp = h.temp /\ r.panic = h.panic
       /\ r.sinceGarbage = h.sinceGarbage /\ r.typ = h.typ
  BY ONLY <1>1, <1>16 DEF Heaps, SameHeap
<1>20. Sound(r, {})
  BY <1>12, <1>13, <1>14, <1>17, <1>18, <1>19, StackChange
<1>21. \A k \in 1..m : k # m => k \in 1..(m - 1)
  BY <1>4
<1> QED BY <1>2, <1>6, <1>7, <1>11, <1>19, <1>20, <1>21 DEF CutBack

LEMMA EntersPushed ==
  ASSUME NEW c \in Seq(Chunk), NEW d \in Seq(Chunk), Len(c) <= Len(d),
         \A k \in 1..Len(c) : Len(c[k].refs) <= Len(d[k].refs), NEW e, EntersOK(c, e)
  PROVE  EntersOK(d, e)
<1>1. /\ Len(c) \in Nat /\ Len(d) \in Nat
      /\ \A k \in 1..Len(c) : k \in 1..Len(d) /\ Len(c[k].refs) \in Nat
      /\ \A k \in 1..Len(d) : Len(d[k].refs) \in Nat
  BY ChunkTypes DEF Chunk
<1>2. \A m : InStack(c, m) => InStack(d, m)
  BY <1>1 DEF InStack
<1> QED BY <1>2 DEF EntersOK

LEMMA EntersUp ==
  ASSUME NEW c \in Seq(Chunk), c # <<>>, NEW e, EntersOK(c, e), NEW n, n = Len(c)
  PROVE  EntersOK(c, Append(e, <<n, Len(c[n].refs)>>))
<1>1. PICK l, top, l2 : l = Len(c[n].refs) /\ top = <<n, l>> /\ l2 = Len(e)
  OBVIOUS
<1>2. PICK d : d = Append(e, top)
  OBVIOUS
<1>3. n \in Nat /\ n \in 1..n /\ l \in Nat /\ \A k \in 1..n : Len(c[k].refs) \in Nat
  <2>1. n # 0 /\ n \in Nat
    BY EmptySeq, LenProperties
  <2> QED BY <1>1, <2>1, ChunkTypes DEF Chunk
<1>4. top \in Nat \X Nat /\ top[1] = n /\ top[2] = l
  BY <1>1, <1>3
<1>5. /\ e \in Seq(Nat \X Nat) /\ (\A m \in 1..l2 : InStack(c, e[m]))
      /\ \A a, b \in 1..l2 : a <= b => Below(e[a], e[b])
  BY <1>1 DEF EntersOK
<1>6. l2 \in Nat
  BY <1>1, <1>5, LenProperties
<1>7. d \in Seq(Nat \X Nat) /\ Len(d) = l2 + 1 /\ d[l2 + 1] = top /\ \A m \in 1..l2 : d[m] = e[m]
  BY ONLY <1>1, <1>2, <1>4, <1>5, AppendProperties
<1>8. InStack(c, top) /\ \A m : InStack(c, m) => Below(m, top)
  BY <1>1, <1>3, <1>4 DEF InStack, Below
<1>9. \A m \in 1..(l2 + 1) : m = l2 + 1 \/ m \in 1..l2
  BY <1>6
<1>10. \A m \in 1..(l2 + 1) : InStack(c, d[m])
  BY <1>5, <1>7, <1>8, <1>9
<1>11. \A a, b \in 1..(l2 + 1) : a <= b => Below(d[a], d[b])
  <2>1. \A a \in 1..(l2 + 1) : Below(d[a], d[l2 + 1])
    BY <1>7, <1>8, <1>10
  <2>2. \A a \in 1..(l2 + 1) : \A b \in 1..l2 : a <= b => a \in 1..l2
    BY <1>6
  <2>3. \A a \in 1..(l2 + 1) : \A b \in 1..l2 : a <= b => Below(d[a], d[b])
    BY <1>5, <1>7, <2>2
  <2> QED BY <1>9, <2>1, <2>3
<1>12. EntersOK(c, d)
  BY <1>7, <1>10, <1>11 DEF EntersOK
<1> QED BY <1>1, <1>2, <1>12

LEMMA EntersDown ==
  ASSUME NEW c \in Seq(Chunk), NEW e, EntersOK(c, e), e # <<>>,
         NEW mark, mark = e[Len(e)], NEW d \in Seq(Chunk), Len(d) = mark[1],
         Len(d[mark[1]].refs) = mark[2],
         \A k \in 1..mark[1] : k # mark[1] => d[k] = c[k]
  PROVE  InStack(c, mark) /\ EntersOK(d, SubSeq(e, 1, Len(e) - 1))
<1>1. PICK n, f : n = Len(e) /\ f = SubSeq(e, 1, n - 1)
  OBVIOUS
<1>2. /\ e \in Seq(Nat \X Nat) /\ (\A m \in 1..n : InStack(c, e[m]))
      /\ \A a, b \in 1..n : a <= b => Below(e[a], e[b])
  BY <1>1 DEF EntersOK
<1>3. n \in Nat /\ n \in 1..n
  <2>1. n # 0 /\ n \in Nat
    BY <1>1, <1>2, EmptySeq, LenProperties
  <2> QED BY <2>1
<1>4. \A m \in 1..n : e[m] \in Nat \X Nat
  BY <1>1, <1>2, ElementOfSeq
<1>5. f \in Seq(Nat \X Nat) /\ Len(f) = n - 1 /\ \A m \in 1..(n - 1) : m \in 1..n /\ f[m] = e[m]
  <2>1. \A m \in 1..(n - 1) : m \in 1..n
    BY <1>3
  <2>2. /\ f \in Seq(Nat \X Nat) /\ Len(f) = (IF 1 <= n - 1 THEN (n - 1) - 1 + 1 ELSE 0)
        /\ \A k \in 1..((n - 1) - 1 + 1) : f[k] = e[1 + k - 1]
    <3>1. PICK S, last : S = Nat \X Nat /\ last = n - 1
      OBVIOUS
    <3>2. 1 \in Int /\ last \in Int /\ e \in Seq(S) /\ \A k \in 1..last : e[k] \in S
      BY <1>2, <1>3, <1>4, <2>1, <3>1
    <3>3. f = SubSeq(e, 1, last)
      BY <1>1, <3>1
    <3>4. /\ f \in Seq(S) /\ Len(f) = (IF 1 <= last THEN last - 1 + 1 ELSE 0)
          /\ \A k \in 1..(last - 1 + 1) : f[k] = e[1 + k - 1]
      BY ONLY <3>2, <3>3, SubSeqProperties
    <3> QED BY <3>1, <3>4
  <2>3. Len(f) = n - 1
    BY <1>3, <2>2
  <2>4. \A k \in 1..(n - 1) : k \in 1..((n - 1) - 1 + 1) /\ 1 + k - 1 = k
    BY ONLY <1>3
  <2>5. \A k \in 1..(n - 1) : f[k] = e[k]
    BY <2>2, <2>4
  <2> QED BY <2>1, <2>2, <2>3, <2>5
<1>6. InStack(c, mark) /\ mark \in Nat \X Nat
  BY <1>1, <1>2, <1>3, <1>4
<1>7. Len(d) \in Nat /\ Len(c) \in Nat /\ \A k \in 1..Len(c) : Len(c[k].refs) \in Nat
  BY ChunkTypes DEF Chunk
<1>8. ASSUME NEW m \in 1..(n - 1)  PROVE InStack(d, f[m])
  <2>1. PICK p : p = f[m] /\ p = e[m] /\ p \in Nat \X Nat /\ InStack(c, p) /\ Below(p, mark)
    <3>1. m \in 1..n /\ m <= n
      BY <1>3, <1>8
    <3> QED BY <1>1, <1>2, <1>3, <1>4, <1>5, <1>8, <3>1
  <2>2. CASE p[1] = mark[1]
    BY <1>6, <1>7, <2>1, <2>2 DEF InStack, Below
  <2>3. CASE p[1] # mark[1]
    <3>1. p[1] \in 1..mark[1] /\ d[p[1]] = c[p[1]]
      BY <1>6, <2>1, <2>3 DEF InStack, Below
    <3> QED BY <2>1, <3>1 DEF InStack
  <2> QED BY <2>2, <2>3
<1>9. \A a, b \in 1..(n - 1) : a <= b => Below(f[a], f[b])
  BY <1>2, <1>5
<1>10. EntersOK(d, f)
  BY <1>5, <1>8, <1>9 DEF EntersOK
<1> QED BY <1>1, <1>6, <1>10

-----------------------------------------------------------------------------
(* The steps of the program *)

\* A heap that differs in its pointers and roots alone.
SameObjects(h, u) ==
  /\ u.blocks = h.blocks /\ u.class = h.class /\ u.typ = h.typ /\ u.free = h.free
  /\ u.chunks = h.chunks

LEMMA FieldsSound ==
  ASSUME NEW h, Sound(h, {}), NEW u \in Heaps, SameObjects(h, u), PointersOK(u), RootsOK(u, {})
  PROVE  Sound(u, {})
<1>1. /\ h \in Heaps /\ PendingOK(h, {}) /\ PlacesOK(h) /\ ListsOK(h, {}) /\ StackOK(h, {})
  BY DEF Sound
<1>2. PendingOK(u, {}) /\ PlacesOK(u) /\ ListsOK(u, {}) /\ StackOK(u, {})
  BY <1>1 DEF SameObjects, PendingOK, PlacesOK, ListsOK, StackOK, Placed, Lives
<1> QED BY <1>2 DEF Sound

\* The same, with nothing under way.
Settled(h) == Sound(h, {}) /\ h.temp = Null /\ h.panic = FALSE /\ h.sinceGarbage <= GarbageTime

LEMMA SettledSound ==
  ASSUME NEW h, Settled(h), NEW u, u = [h EXCEPT !.got = Null]
  PROVE  Sound(u, {}) /\ Quiet(u) /\ u.chunks = h.chunks /\ u.typ = h.typ
<1>1. h \in Heaps /\ PointersOK(h) /\ RootsOK(h, {}) /\ h.temp = Null /\ h.panic = FALSE
      /\ h.sinceGarbage <= GarbageTime
  BY DEF Settled, Sound
<1>2. u \in Heaps
  BY ONLY <1>1, u = [h EXCEPT !.got = Null] DEF Heaps
<1>3. /\ SameObjects(h, u) /\ u.fld = h.fld /\ u.save = h.save /\ u.temp = h.temp /\ u.cache = h.cache
      /\ u.unwritten = h.unwritten /\ u.blocked = h.blocked /\ u.got = Null /\ u.panic = h.panic
      /\ u.sinceGarbage = h.sinceGarbage
  BY ONLY <1>1, u = [h EXCEPT !.got = Null] DEF Heaps, SameObjects
<1>4. PointersOK(u)
  BY <1>1, <1>3 DEF PointersOK, SameObjects
<1>5. RootsOK(u, {})
  BY <1>1, <1>3 DEF RootsOK, SameObjects, Lives
<1> QED BY <1>1, <1>2, <1>3, <1>4, <1>5, FieldsSound DEF Settled, Quiet, SameObjects

\* What the program can get at is allocated.
LEMMA UsableLives ==
  ASSUME NEW h, Sound(h, {})
  PROVE  \A o \in Usable(h) : o \in Hunks /\ h.typ[o] # Free
<1>1. h \in Heaps /\ PointersOK(h) /\ StackOK(h, {})
  BY DEF Sound
<1>2. PICK T : T = {o \in Hunks : h.typ[o] # Free}
  OBVIOUS
<1>3. h.fld \in [Hunks -> Hunks \cup {Null}] /\ h.chunks \in Seq([at : Hunks, refs : Seq(Hunks)])
  BY <1>1, HeapFields
<1>4. StackRefs(h) \in SUBSET Hunks
  BY <1>3, StackRefsIs
<1>5. StackRefs(h) \subseteq T
  <2>1. \A o \in StackRefs(h) : \E k \in 1..Len(h.chunks) : \E i \in 1..Len(h.chunks[k].refs) :
          o = h.chunks[k].refs[i]
    BY <1>3, StackRefsIs, Zenon
  <2> QED BY <1>1, <1>2, <1>4, <2>1 DEF StackOK, Lives
<1>6. Closed(h, T)
  <2>1. \A o \in Hunks : h.fld[o] # Null => h.fld[o] \in Hunks
    BY <1>3
  <2> QED BY <1>1, <1>2, <2>1 DEF Closed, PointersOK
<1>7. Usable(h) \subseteq T
  BY <1>3, <1>4, <1>5, <1>6, ClosureLeast DEF Usable
<1> QED BY <1>2, <1>7

\* A push on the stack leaves the pointers of ENTER below it.
LEMMA ReferencedEnters ==
  ASSUME NEW h, Sound(h, {}), NEW r, NEW o, Referenced(h, r, {}, o), NEW e, EntersOK(h.chunks, e)
  PROVE  EntersOK(r.chunks, e) /\ Settled(r)
<1>1. h.chunks \in Seq(Chunk)
  BY HeapFields DEF Sound, Chunk
<1>2. Pushed(h.chunks, r.chunks, o)
  BY DEF Referenced
<1>3. PICK c, d : c = h.chunks /\ d = r.chunks
  OBVIOUS
<1>4. /\ c \in Seq(Chunk) /\ d \in Seq(Chunk) /\ Len(c) <= Len(d)
      /\ \A k \in 1..Len(c) : Len(c[k].refs) <= Len(d[k].refs)
  BY <1>1, <1>2, <1>3 DEF Pushed
<1>5. EntersOK(d, e)
  BY ONLY <1>3, <1>4, EntersOK(h.chunks, e), EntersPushed
<1> QED BY <1>3, <1>5 DEF Referenced, Settled

LEMMA ReturnSound ==
  ASSUME MemInv, enters # <<>>, NEW r, r = Reset(heap, enters[Len(enters)])
  PROVE  /\ Settled(r) /\ r.typ = heap.typ
         /\ EntersOK(r.chunks, SubSeq(enters, 1, Len(enters) - 1))
<1>1. Sound(heap, {}) /\ Quiet(heap) /\ EntersOK(heap.chunks, enters)
  BY DEF MemInv
<1>2. heap.chunks \in Seq(Chunk)
  BY <1>1, HeapFields DEF Sound, Chunk
<1>3. PICK mark : mark = enters[Len(enters)]
  OBVIOUS
<1>4. InStack(heap.chunks, mark)
  <2>1. Len(enters) \in 1..Len(enters)
    BY <1>1, EmptySeq, LenProperties DEF EntersOK
  <2> QED BY <1>1, <1>3, <2>1 DEF EntersOK
<1>5. CutBack(heap, r, mark)
  <2>1. heap.temp = Null /\ heap.panic = FALSE /\ heap.sinceGarbage <= GarbageTime
    BY <1>1 DEF Quiet
  <2> QED BY <1>1, <1>3, <1>4, <2>1, ResetSound
<1>6. r.chunks \in Seq(Chunk)
  BY <1>5, HeapFields DEF CutBack, Sound, Chunk
<1>7. EntersOK(r.chunks, SubSeq(enters, 1, Len(enters) - 1))
  <2>1. PICK c, d : c = heap.chunks /\ d = r.chunks
    OBVIOUS
  <2>2. /\ Len(d) = mark[1] /\ Len(d[mark[1]].refs) = mark[2]
        /\ \A k \in 1..mark[1] : k # mark[1] => d[k] = c[k]
    BY <1>5, <2>1 DEF CutBack
  <2> QED BY <1>1, <1>2, <1>3, <1>6, <2>1, <2>2, EntersDown
<1> QED BY <1>5, <1>7 DEF Settled, CutBack

LEMMA BecomesInv ==
  ASSUME NEW h, Settled(h), EntersOK(h.chunks, enters'), HeapBecomes(h)
  PROVE  MemInv'
<1>1. heap' = [h EXCEPT !.got = Null]
  BY DEF HeapBecomes
<1>2. Sound(heap', {}) /\ Quiet(heap') /\ heap'.chunks = h.chunks
  BY <1>1, SettledSound
<1> QED BY <1>2 DEF MemInv

LEMMA AllocateInv ==
  ASSUME MemInv, NEW kind \in Kinds, Allocate(kind)
  PROVE  MemInv'
<1>1. Sound(heap, {}) /\ Quiet(heap) /\ EntersOK(heap.chunks, enters)
  BY DEF MemInv
<1>2. PICK r : r = Construct(kind)
  OBVIOUS
<1>3. HeapBecomes(r) /\ ~ r.panic /\ enters' = enters
  BY <1>2 DEF Allocate, HeapBecomes
<1>4. PICK g \in Hunks : Referenced(heap, r, {}, g)
  BY <1>1, <1>2, <1>3, ConstructSound
<1>5. EntersOK(r.chunks, enters) /\ Settled(r)
  BY <1>1, <1>4, ReferencedEnters
<1> QED BY <1>3, <1>5, BecomesInv

LEMMA CachedInv ==
  ASSUME MemInv, Cached
  PROVE  MemInv'
<1>1. /\ Sound(heap, {}) /\ Quiet(heap) /\ EntersOK(heap.chunks, enters)
      /\ heap \in Heaps /\ RootsOK(heap, {}) /\ enters' = enters
  BY DEF MemInv, Sound, Cached
<1>2. CASE heap.cache # Null
  <2>1. PICK r, o : r = Reference(heap, o) /\ o = heap.cache
    OBVIOUS
  <2>2. HeapBecomes(r) /\ ~ r.panic
    BY <1>2, <2>1 DEF Cached, HeapBecomes
  <2>3. o \in Hunks /\ Lives(heap, {}, o)
    BY <1>1, <1>2, <2>1, HeapFields DEF RootsOK, Lives, Free
  <2>4. heap.temp = Null /\ heap.panic = FALSE /\ heap.sinceGarbage <= GarbageTime
    BY <1>1 DEF Quiet
  <2>5. Referenced(heap, r, {}, o)
    <3>1. {} \subseteq {o}
      OBVIOUS
    <3> QED BY <1>1, <2>1, <2>2, <2>3, <2>4, <3>1, ReferenceSound
  <2>6. EntersOK(r.chunks, enters) /\ Settled(r)
    BY <1>1, <2>5, ReferencedEnters
  <2> QED BY <1>1, <2>2, <2>6, BecomesInv
<1>3. CASE heap.cache = Null
  <2>1. PICK r, kind : r = Construct(kind) /\ kind = "cell"
    OBVIOUS
  <2>2. PICK u : u = IF r.panic THEN r ELSE [r EXCEPT !.cache = Newest(r)]
    OBVIOUS
  <2>3. HeapBecomes(u) /\ ~ u.panic
    BY <1>3, <2>1, <2>2 DEF Cached, HeapBecomes
  <2>4. ~ r.panic /\ kind \in Kinds
    BY <2>1, <2>2, <2>3 DEF Kinds
  <2>5. PICK g \in Hunks : Referenced(heap, r, {}, g) /\ r.typ[g] = kind
    BY <1>1, <2>1, <2>4, ConstructSound
  <2>6. EntersOK(r.chunks, enters) /\ Settled(r)
    BY <1>1, <2>5, ReferencedEnters
  <2>7. Newest(r) = g
    BY <2>5, NewestIs DEF Referenced
  <2>8. u = [r EXCEPT !.cache = g]
    BY <2>2, <2>4, <2>7
  <2>9. r \in Heaps /\ PointersOK(r) /\ RootsOK(r, {}) /\ Sound(r, {})
    BY <2>6 DEF Settled, Sound
  <2>10. u \in Heaps
    BY ONLY <2>5, <2>8, <2>9 DEF Heaps
  <2>11. /\ SameObjects(r, u) /\ u.fld = r.fld /\ u.save = r.save /\ u.temp = r.temp /\ u.cache = g
         /\ u.unwritten = r.unwritten /\ u.blocked = r.blocked /\ u.panic = r.panic
         /\ u.sinceGarbage = r.sinceGarbage
    BY ONLY <2>8, <2>9 DEF Heaps, SameObjects
  <2>12. PointersOK(u)
    BY <2>9, <2>11 DEF PointersOK, SameObjects
  <2>13. RootsOK(u, {})
    BY <2>1, <2>5, <2>9, <2>11 DEF RootsOK, SameObjects, Lives
  <2>14. Sound(u, {})
    BY <2>9, <2>10, <2>11, <2>12, <2>13, FieldsSound
  <2>15. Settled(u) /\ u.chunks = r.chunks
    BY <2>6, <2>11, <2>14 DEF Settled, SameObjects
  <2> QED BY <1>1, <2>3, <2>6, <2>15, BecomesInv
<1> QED BY <1>2, <1>3

LEMMA EnterInv ==
  ASSUME MemInv, ENTER
  PROVE  MemInv'
<1>1. /\ Sound(heap, {}) /\ Quiet(heap) /\ EntersOK(heap.chunks, enters) /\ heap' = heap
      /\ enters' = Append(enters, Top)
  BY DEF MemInv, ENTER
<1>2. PICK c, n : c = heap.chunks /\ n = Len(c)
  OBVIOUS
<1>3. c \in Seq(Chunk) /\ c # <<>>
  BY <1>1, <1>2, HeapFields DEF Sound, StackOK, Chunk
<1>4. enters' = Append(enters, <<n, Len(c[n].refs)>>)
  BY <1>1, <1>2 DEF Top
<1>5. EntersOK(c, enters')
  BY <1>1, <1>2, <1>3, <1>4, EntersUp
<1> QED BY <1>1, <1>2, <1>5 DEF MemInv

LEMMA ExitInv ==
  ASSUME MemInv, EXIT
  PROVE  MemInv'
<1>1. PICK r : r = Reset(heap, enters[Len(enters)])
  OBVIOUS
<1>2. /\ enters # <<>> /\ HeapBecomes(r) /\ enters' = SubSeq(enters, 1, Len(enters) - 1)
  BY <1>1 DEF EXIT
<1>3. Settled(r) /\ EntersOK(r.chunks, enters')
  BY <1>1, <1>2, ReturnSound
<1> QED BY <1>2, <1>3, BecomesInv

LEMMA ReturnInv ==
  ASSUME MemInv, NEW o \in Usable(heap), RETURN(o)
  PROVE  MemInv'
<1>1. PICK s, r : s = Reset(heap, enters[Len(enters)]) /\ r = Reference(s, o)
  OBVIOUS
<1>2. /\ enters # <<>> /\ HeapBecomes(r) /\ ~ r.panic /\ enters' = SubSeq(enters, 1, Len(enters) - 1)
  BY <1>1 DEF RETURN, HeapBecomes
<1>3. Settled(s) /\ s.typ = heap.typ /\ EntersOK(s.chunks, enters')
  BY <1>1, <1>2, ReturnSound
<1>4. o \in Hunks /\ Lives(s, {}, o)
  BY <1>3, UsableLives DEF MemInv, Lives
<1>5. Referenced(s, r, {}, o)
  <2>1. {} \subseteq {o}
    OBVIOUS
  <2> QED BY <1>1, <1>2, <1>3, <1>4, <2>1, ReferenceSound DEF Settled
<1>6. PICK e : e = enters'
  OBVIOUS
<1>7. EntersOK(r.chunks, e) /\ Settled(r)
  BY <1>3, <1>5, <1>6, ReferencedEnters DEF Settled
<1> QED BY <1>2, <1>6, <1>7, BecomesInv

LEMMA CollectInv ==
  ASSUME MemInv, Collect
  PROVE  MemInv'
<1>1. PICK r : r = MemCollect(heap)
  OBVIOUS
<1>2. HeapBecomes(r) /\ enters' = enters
  BY <1>1 DEF Collect
<1>3. Sound(r, {}) /\ Collected(heap, r)
  <2>1. Sound(heap, {}) /\ {} \subseteq {heap.temp}
    BY DEF MemInv
  <2> QED BY <1>1, <2>1, CollectSound
<1>4. Settled(r) /\ r.chunks = heap.chunks
  BY <1>3, MemConstants DEF Settled, Collected, MemInv, Quiet
<1>5. EntersOK(r.chunks, enters')
  BY <1>2, <1>4 DEF MemInv
<1> QED BY <1>2, <1>4, <1>5, BecomesInv

\* Only pointers and roots change.
LEMMA FieldsInv ==
  ASSUME MemInv, heap' \in Heaps, SameObjects(heap, heap'), PointersOK(heap'), RootsOK(heap', {}),
         Quiet(heap'), enters' = enters
  PROVE  MemInv'
<1>1. Sound(heap', {})
  BY FieldsSound DEF MemInv
<1> QED BY <1>1 DEF MemInv, SameObjects

LEMMA SetReferenceInv ==
  ASSUME MemInv, NEW o \in StackRefs(heap), NEW v \in Usable(heap) \cup {Null}, SetReference(o, v)
  PROVE  MemInv'
<1>1. /\ heap \in Heaps /\ PointersOK(heap) /\ RootsOK(heap, {}) /\ Quiet(heap) /\ Sound(heap, {})
  BY DEF MemInv, Sound
<1>2. v # Null => v \in Hunks /\ heap.typ[v] # Free
  BY <1>1, UsableLives
<1>3. o \in Hunks /\ heap.fld \in [Hunks -> Hunks \cup {Null}]
  BY <1>1, HeapFields, StackRefsIs
<1>4. PICK fld : fld = [heap.fld EXCEPT ![o] = v]
  OBVIOUS
<1>5. fld \in [Hunks -> Hunks \cup {Null}] /\ \A p \in Hunks : fld[p] = IF p = o THEN v ELSE heap.fld[p]
  BY <1>2, <1>3, <1>4
<1>6. heap' = [heap EXCEPT !.fld = fld] /\ enters' = enters
  BY ONLY SetReference(o, v), <1>1, <1>4 DEF SetReference, Heaps
<1>7. PICK u : u = heap'
  OBVIOUS
<1>8. u = [heap EXCEPT !.fld = fld]
  BY <1>6, <1>7
<1>9. u \in Heaps
  BY ONLY <1>1, <1>5, <1>8 DEF Heaps
<1>10. /\ SameObjects(heap, u) /\ u.fld = fld /\ u.save = heap.save /\ u.temp = heap.temp
       /\ u.cache = heap.cache /\ u.unwritten = heap.unwritten /\ u.blocked = heap.blocked
       /\ u.got = heap.got /\ u.panic = heap.panic /\ u.sinceGarbage = heap.sinceGarbage
  BY ONLY <1>1, <1>8 DEF Heaps, SameObjects
<1>11. PointersOK(u)
  BY <1>1, <1>2, <1>5, <1>10 DEF PointersOK, SameObjects
<1>12. RootsOK(u, {}) /\ Quiet(u)
  BY <1>1, <1>10 DEF RootsOK, SameObjects, Lives, Quiet
<1> QED BY <1>6, <1>7, <1>9, <1>10, <1>11, <1>12, FieldsInv

LEMMA OutputInv ==
  ASSUME MemInv, NEW unwritten, NEW blocked, blocked \subseteq unwritten, unwritten \in SUBSET Hunks,
         \A f \in unwritten : heap.typ[f] = "file",
         heap' = [heap EXCEPT !.unwritten = unwritten, !.blocked = blocked], enters' = enters
  PROVE  MemInv'
<1>1. /\ heap \in Heaps /\ PointersOK(heap) /\ RootsOK(heap, {}) /\ Quiet(heap)
  BY DEF MemInv, Sound
<1>2. PICK u : u = heap'
  OBVIOUS
<1>3. u = [heap EXCEPT !.unwritten = unwritten, !.blocked = blocked]
  BY <1>2
<1>4. u \in Heaps
  BY ONLY <1>1, <1>3, blocked \subseteq unwritten, unwritten \in SUBSET Hunks DEF Heaps
<1>5. /\ SameObjects(heap, u) /\ u.fld = heap.fld /\ u.save = heap.save /\ u.temp = heap.temp
      /\ u.cache = heap.cache /\ u.unwritten = unwritten /\ u.blocked = blocked
      /\ u.got = heap.got /\ u.panic = heap.panic /\ u.sinceGarbage = heap.sinceGarbage
  BY ONLY <1>1, <1>3 DEF Heaps, SameObjects
<1>6. PointersOK(u) /\ RootsOK(u, {}) /\ Quiet(u)
  BY <1>1, <1>5 DEF PointersOK, RootsOK, SameObjects, Lives, Quiet
<1> QED BY <1>2, <1>4, <1>5, <1>6, FieldsInv

LEMMA WriteFileInv ==
  ASSUME MemInv, NEW f \in StackRefs(heap), WriteFile(f)
  PROVE  MemInv'
<1>1. /\ heap \in Heaps /\ RootsOK(heap, {}) /\ heap.typ[f] = "file" /\ enters' = enters
      /\ heap' = [heap EXCEPT !.unwritten = @ \cup {f}]
  BY DEF MemInv, Sound, WriteFile
<1>2. f \in Hunks /\ heap.unwritten \in SUBSET Hunks
  BY <1>1, HeapFields, StackRefsIs
<1>3. PICK unwritten, blocked : unwritten = heap.unwritten \cup {f} /\ blocked = heap.blocked
  OBVIOUS
<1>4. heap' = [heap EXCEPT !.unwritten = unwritten, !.blocked = blocked]
  BY ONLY <1>1, <1>3 DEF Heaps
<1>5. /\ blocked \subseteq unwritten /\ unwritten \in SUBSET Hunks
      /\ \A g \in unwritten : heap.typ[g] = "file"
  BY <1>1, <1>2, <1>3 DEF RootsOK
<1> QED BY ONLY MemInv, <1>1, <1>4, <1>5, OutputInv

LEMMA WrittenInv ==
  ASSUME MemInv, NEW f \in heap.unwritten, Written(f)
  PROVE  MemInv'
<1>1. /\ heap \in Heaps /\ RootsOK(heap, {}) /\ enters' = enters
      /\ heap' = [heap EXCEPT !.unwritten = @ \ {f}, !.blocked = @ \ {f}]
  BY DEF MemInv, Sound, Written
<1>2. heap.unwritten \in SUBSET Hunks
  BY <1>1, HeapFields
<1>3. PICK unwritten, blocked : unwritten = heap.unwritten \ {f} /\ blocked = heap.blocked \ {f}
  OBVIOUS
<1>4. heap' = [heap EXCEPT !.unwritten = unwritten, !.blocked = blocked]
  BY <1>1, <1>3
<1>5. /\ blocked \subseteq unwritten /\ unwritten \in SUBSET Hunks
      /\ \A g \in unwritten : heap.typ[g] = "file"
  BY <1>1, <1>2, <1>3 DEF RootsOK
<1> QED BY ONLY MemInv, <1>1, <1>4, <1>5, OutputInv

\* The first chunk of MemStack comes from the first block.
LEMMA InitInv ==
  ASSUME MemInit
  PROVE  MemInv
<1>1. PICK n, list, typ, fld, free, class :
        /\ n = NumHunk.large /\ list = [i \in 1 .. NumHunk.large - 1 |-> <<1, i + 1>>]
        /\ typ = [o \in Hunks |-> IF o = <<1, 1>> THEN "chunk" ELSE Free]
        /\ fld = [o \in Hunks |-> Null] /\ free = [small |-> <<>>, large |-> list]
        /\ class = [b \in 1..MaxBlocks |-> "large"]
  OBVIOUS
<1>2. PICK one, none, first, blocks, chunks :
        /\ one = <<1, 1>> /\ none = <<>> /\ blocks = <<1>>
        /\ first = [at |-> one, refs |-> none] /\ chunks = <<first>>
  OBVIOUS
<1>3. /\ heap = [blocks |-> blocks, class |-> class, typ |-> typ, fld |-> fld, free |-> free,
                 sinceGarbage |-> 0, chunks |-> chunks, save |-> Null, temp |-> Null,
                 cache |-> Null, unwritten |-> {}, blocked |-> {}, got |-> Null, panic |-> FALSE]
      /\ enters = none
  BY <1>1, <1>2 DEF MemInit
<1>4. /\ n \in Nat \ {0} /\ n <= MostHunks /\ MostHunks \in Nat /\ 1 \in 1..MaxBlocks
      /\ DOMAIN NumHunk = {"small", "large", "huge"} /\ NumHunk["large"] = n
  BY <1>1, MostIs, MemConstants
<1>5. \A i \in 1..n : <<1, i>> \in Hunks
  BY <1>4 DEF Hunks
<1>6. one \in Hunks /\ one[1] = 1 /\ one[2] = 1
  BY <1>2, <1>4, <1>5
<1>7. /\ list \in Seq(Hunks) /\ DOMAIN list = 1..(n - 1)
      /\ \A i \in 1..(n - 1) : list[i] = <<1, i + 1>> /\ i + 1 \in 1..n
  <2>1. \A i \in 1..(n - 1) : i + 1 \in 1..n /\ <<1, i + 1>> \in Hunks
    BY <1>4, <1>5
  <2> QED BY <1>1, <1>4, <2>1
<1>8. none \in Seq(Hunks) /\ Len(none) = 0 /\ DOMAIN none = {} /\ none \in Seq(Nat \X Nat)
  <2>1. \A S : <<>> \in Seq(S) /\ Len(<<>>) = 0
    BY EmptySeq
  <2>2. DOMAIN none = 1..0
    BY <1>2, <2>1, LenProperties
  <2> QED BY <1>2, <2>1, <2>2
<1>9. typ \in [Hunks -> Kinds \cup {Free}] /\ fld \in [Hunks -> Hunks \cup {Null}]
      /\ free \in [{"small", "large"} -> Seq(Hunks)] /\ free["small"] = none /\ free["large"] = list
      /\ class \in [1..MaxBlocks -> DOMAIN NumHunk]
  <2>1. typ \in [Hunks -> Kinds \cup {Free}] /\ fld \in [Hunks -> Hunks \cup {Null}]
        /\ class \in [1..MaxBlocks -> DOMAIN NumHunk]
    BY <1>1, <1>4 DEF Kinds, Null
  <2>2. free = [small |-> none, large |-> list]
    BY <1>1, <1>2
  <2>3. free = [c \in {"small", "large"} |-> IF c = "small" THEN none ELSE list]
    BY ONLY <2>2
  <2> QED BY <1>7, <1>8, <2>1, <2>3
<1>10. blocks \in Seq(1..MaxBlocks) /\ Len(blocks) = 1 /\ blocks[1] = 1 /\ DOMAIN blocks = 1..1
  <2>1. blocks \in Seq(1..MaxBlocks) /\ Len(blocks) = 1 /\ blocks[1] = 1
    BY <1>2, <1>4
  <2> QED BY <2>1, LenProperties
<1>11. /\ first \in [at : Hunks, refs : Seq(Hunks)] /\ first.at = one /\ first.refs = none
  BY <1>2, <1>6, <1>8
<1>12. chunks \in Seq([at : Hunks, refs : Seq(Hunks)]) /\ Len(chunks) = 1 /\ chunks[1] = first
       /\ chunks # <<>>
  BY ONLY <1>2, <1>11
<1>13. heap \in Heaps
  <2>1. 0 \in Nat /\ FALSE \in BOOLEAN /\ {} \in SUBSET Hunks /\ Null \in Hunks \cup {Null}
    OBVIOUS
  <2> QED BY ONLY <1>3, <1>9, <1>10, <1>12, <2>1 DEF Heaps
<1>14. /\ heap.blocks = blocks /\ heap.class = class /\ heap.typ = typ /\ heap.fld = fld
       /\ heap.free = free /\ heap.chunks = chunks /\ heap.save = Null /\ heap.temp = Null
       /\ heap.cache = Null /\ heap.unwritten = {} /\ heap.blocked = {} /\ heap.got = Null
       /\ heap.panic = FALSE /\ heap.sinceGarbage = 0
  BY ONLY <1>3
<1>15. Range(blocks) = {1} /\ IsInjective(blocks)
  <2>1. \A i \in 1..1 : i = 1
    OBVIOUS
  <2> QED BY <1>10, <2>1 DEF Range, IsInjective
<1>16. \A o \in Hunks : /\ typ[o] = IF o = one THEN "chunk" ELSE Free
                        /\ Placed(heap, o) <=> o[1] = 1 /\ o[2] <= n
  <2>1. \A b \in 1..MaxBlocks : class[b] = "large"
    BY <1>1
  <2> QED BY <1>1, <1>2, <1>4, <1>14, <1>15, <2>1 DEF Placed
<1>17. PendingOK(heap, {}) /\ PlacesOK(heap)
  BY <1>4, <1>6, <1>14, <1>15, <1>16 DEF PendingOK, PlacesOK
<1>18. PointersOK(heap)
  BY <1>14, <1>16 DEF PointersOK, Free
<1>19. ListsOK(heap, {})
  <2>1. IsInjective(none) /\ Range(none) = {}
    BY <1>8 DEF IsInjective, Range
  <2>2. IsInjective(list)
    BY <1>7 DEF IsInjective
  <2>3. \A o \in Hunks : o \in Range(list) <=> o[1] = 1 /\ o[2] <= n /\ o # one
    <3>1. \A o \in Hunks : o = <<o[1], o[2]>> /\ o[2] \in Nat \ {0}
      BY <1>4 DEF Hunks
    <3>2. ASSUME NEW o \in Hunks, o[1] = 1, o[2] <= n, o # one  PROVE o \in Range(list)
      <4>1. PICK i : i = o[2] - 1 /\ i + 1 = o[2] /\ i \in Int
        BY <3>1
      <4>2. o[2] # 1
        BY <1>2, <3>1, <3>2
      <4>3. i \in 1..(n - 1)
        BY <1>4, <3>1, <3>2, <4>1, <4>2
      <4>4. list[i] = o
        BY <1>7, <3>1, <3>2, <4>1, <4>3
      <4> QED BY <1>7, <4>3, <4>4 DEF Range
    <3>3. ASSUME NEW o \in Range(list)  PROVE o[1] = 1 /\ o[2] <= n /\ o # one
      <4>1. PICK i \in 1..(n - 1) : o = <<1, i + 1>>
        BY <1>7 DEF Range
      <4>2. o[2] = i + 1 /\ o[1] = 1 /\ i + 1 # 1 /\ i + 1 <= n
        BY <1>4, <4>1
      <4> QED BY <1>6, <4>2
    <3> QED BY <3>2, <3>3
  <2>4. \A o \in Hunks : Placed(heap, o) => heap.class[o[1]] = "large"
    BY <1>1, <1>4, <1>14, <1>16
  <2>5. \A o \in Hunks : o \in Range(list) <=> Placed(heap, o) /\ typ[o] = Free
    BY <1>4, <1>6, <1>16, <2>3 DEF Free
  <2>6. ASSUME NEW c \in {"small", "large"}
        PROVE  /\ IsInjective(heap.free[c])
               /\ \A o \in Hunks : o \in Range(heap.free[c]) <=>
                    Placed(heap, o) /\ heap.class[o[1]] = c /\ heap.typ[o] = Free /\ o \notin {}
    <3>1. CASE c = "small"
      BY <1>9, <1>14, <2>1, <2>4, <3>1
    <3>2. CASE c = "large"
      BY <1>9, <1>14, <2>2, <2>4, <2>5, <3>2
    <3> QED BY <3>1, <3>2
  <2> QED BY <2>6 DEF ListsOK
<1>20. StackOK(heap, {})
  <2>1. \A k \in 1..1 : k = 1
    OBVIOUS
  <2>2. \A k \in 1..Len(chunks) : chunks[k] = first
    BY <1>12, <2>1
  <2>3. \A i \in 1..Len(first.refs) : FALSE
    BY <1>8, <1>11
  <2> QED BY <1>6, <1>11, <1>12, <1>14, <1>16, <2>2, <2>3 DEF StackOK
<1>21. RootsOK(heap, {})
  BY <1>14 DEF RootsOK
<1>22. Sound(heap, {})
  BY <1>13, <1>17, <1>18, <1>19, <1>20, <1>21 DEF Sound
<1>23. Quiet(heap)
  BY <1>14, MemConstants DEF Quiet
<1>24. EntersOK(heap.chunks, enters)
  BY <1>3, <1>8 DEF EntersOK
<1> QED BY <1>22, <1>23, <1>24 DEF MemInv

LEMMA NextInv ==
  ASSUME MemInv, [MemNext]_memVars
  PROVE  MemInv'
<1>1. ASSUME NEW kind \in {"cell", "file", "huge"}, Allocate(kind)  PROVE MemInv'
  <2>1. kind \in Kinds
    BY DEF Kinds
  <2> QED BY <1>1, <2>1, AllocateInv
<1>2. CASE Cached
  BY <1>2, CachedInv
<1>3. CASE ENTER
  BY <1>3, EnterInv
<1>4. CASE EXIT
  BY <1>4, ExitInv
<1>5. CASE Collect
  BY <1>5, CollectInv
<1>6. ASSUME NEW o \in Usable(heap), RETURN(o)  PROVE MemInv'
  BY <1>6, ReturnInv
<1>7. ASSUME NEW o \in StackRefs(heap), WriteFile(o)  PROVE MemInv'
  BY <1>7, WriteFileInv
<1>8. ASSUME NEW o \in heap.unwritten, Written(o)  PROVE MemInv'
  BY <1>8, WrittenInv
<1>9. ASSUME NEW o \in StackRefs(heap), NEW v \in Usable(heap) \cup {Null}, SetReference(o, v)
      PROVE  MemInv'
  BY <1>9, SetReferenceInv
<1>10. CASE UNCHANGED memVars
  BY <1>10 DEF memVars, MemInv
<1> QED BY <1>1, <1>2, <1>3, <1>4, <1>5, <1>6, <1>7, <1>8, <1>9, <1>10 DEF MemNext

-----------------------------------------------------------------------------
(* What follows from the invariant *)

\* A placed hunk is one of its block's.
LEMMA InBlocksIs ==
  ASSUME NEW h \in Heaps, NEW o \in Hunks
  PROVE  /\ o \in InBlocks(h) <=> Placed(h, o)
         /\ \A b \in Range(h.blocks) : o \in Range(HunksOf(h, b)) <=> Placed(h, o) /\ o[1] = b
<1>1. h.class \in [1..MaxBlocks -> DOMAIN NumHunk] /\ Range(h.blocks) \subseteq 1..MaxBlocks
  <2>1. h.blocks \in Seq(1..MaxBlocks) /\ h.class \in [1..MaxBlocks -> DOMAIN NumHunk]
    BY HeapFields
  <2>2. \A i \in DOMAIN h.blocks : h.blocks[i] \in 1..MaxBlocks
    BY <2>1, LenProperties, ElementOfSeq
  <2> QED BY <2>1, <2>2 DEF Range
<1>2. \A b \in Range(h.blocks) : o \in Range(HunksOf(h, b)) <=> o[1] = b /\ o[2] <= NumHunk[h.class[b]]
  BY <1>1, HunksOfIs
<1>3. \A b \in Range(h.blocks) : o \in Range(HunksOf(h, b)) <=> Placed(h, o) /\ o[1] = b
  BY <1>2 DEF Placed
<1>4. Placed(h, o) => o[1] \in Range(h.blocks)
  BY DEF Placed
<1>5. o \in InBlocks(h) <=> Placed(h, o)
  BY <1>3, <1>4 DEF InBlocks
<1> QED BY <1>3, <1>5

LEMMA TypesFromInv ==
  ASSUME MemInv
  PROVE  MemTypeOK
<1>1. heap \in Heaps /\ Quiet(heap) /\ EntersOK(heap.chunks, enters)
  BY DEF MemInv, Sound
<1>2. /\ heap.temp \in {Null} /\ heap.got \in {Null} /\ heap.panic \in {FALSE}
      /\ heap.sinceGarbage \in 0..GarbageTime
  <2>1. heap.sinceGarbage \in Nat
    BY <1>1, HeapFields
  <2>2. GarbageTime \in Nat
    BY MemConstants
  <2>3. heap.temp = Null /\ heap.got = Null /\ heap.panic = FALSE /\ heap.sinceGarbage <= GarbageTime
    BY <1>1 DEF Quiet
  <2>4. heap.sinceGarbage \in 0..GarbageTime
    BY ONLY <2>1, <2>2, <2>3
  <2> QED BY ONLY <2>3, <2>4
<1>3. heap \in HeapType
  BY ONLY <1>1, <1>2 DEF HeapType, Heaps
<1>4. heap.chunks \in Seq([at : Hunks, refs : Seq(Hunks)])
  BY <1>1, HeapFields
<1>5. ASSUME NEW m \in 1..Len(enters)
      PROVE  enters[m][1] <= Len(heap.chunks) /\ enters[m][2] <= Len(heap.chunks[enters[m][1]].refs)
  <2>1. InStack(heap.chunks, enters[m])
    BY <1>1 DEF EntersOK
  <2> QED BY <1>4, <2>1, ChunkTypes DEF InStack
<1> QED BY <1>3, <1>5 DEF MemTypeOK

LEMMA KeptFromInv ==
  ASSUME MemInv
  PROVE  ReachableKept
<1>1. /\ heap \in Heaps /\ Sound(heap, {}) /\ PlacesOK(heap) /\ ListsOK(heap, {}) /\ StackOK(heap, {})
      /\ RootsOK(heap, {})
  BY DEF MemInv, Sound
<1>2. PICK reached : reached = Usable(heap) \cup Marked(heap) \cup ({heap.cache} \ {Null})
  OBVIOUS
<1>3. \A o \in reached : o \in Hunks /\ heap.typ[o] # Free
  <2>1. \A o \in Usable(heap) : o \in Hunks /\ heap.typ[o] # Free
    BY <1>1, UsableLives
  <2>2. \A o \in Busy(heap) : o \in Hunks /\ heap.typ[o] # Free
    <3>1. {} \subseteq {heap.temp}
      OBVIOUS
    <3>2. PICK P : P = {}
      OBVIOUS
    <3>3. Busy(heap) \in SUBSET Hunks /\ \A o \in Busy(heap) : Lives(heap, P, o)
      BY <1>1, <3>1, <3>2, BusyIs
    <3> QED BY <3>2, <3>3 DEF Lives
  <2>3. Marked(heap) \subseteq Busy(heap)
    BY DEF Busy
  <2>4. heap.cache # Null => heap.cache \in Hunks /\ heap.typ[heap.cache] # Free
    BY <1>1, HeapFields DEF RootsOK, Free
  <2> QED BY <1>2, <2>1, <2>2, <2>3, <2>4
<1>4. \A o \in reached : o \in InBlocks(heap)
  BY <1>1, <1>3, InBlocksIs DEF PlacesOK
<1>5. reached \cap UNION {Range(heap.free[c]) : c \in DOMAIN heap.free} = {}
  <2>1. DOMAIN heap.free = {"small", "large"}
    BY <1>1, HeapFields
  <2>2. \A c \in {"small", "large"} : \A o \in reached : o \notin Range(heap.free[c])
    BY <1>1, <1>3 DEF ListsOK
  <2> QED BY <2>1, <2>2
<1> QED BY <1>1, <1>2, <1>3, <1>4, <1>5 DEF ReachableKept, StackOK, RootsOK

LEMMA ListsFromInv ==
  ASSUME MemInv
  PROVE  FreeListsExact
<1>1. heap \in Heaps /\ ListsOK(heap, {})
  BY DEF MemInv, Sound
<1>2. /\ heap.free \in [{"small", "large"} -> Seq(Hunks)] /\ heap.blocks \in Seq(1..MaxBlocks)
      /\ heap.class \in [1..MaxBlocks -> DOMAIN NumHunk]
  BY <1>1, HeapFields
<1>3. ASSUME NEW c \in {"small", "large"}
      PROVE  /\ IsInjective(heap.free[c])
             /\ Range(heap.free[c]) =
                  UNION {{o \in Range(HunksOf(heap, b)) : heap.typ[o] = Free} :
                         b \in {a \in Range(heap.blocks) : heap.class[a] = c}}
  <2>1. \A o \in Hunks : o \in Range(heap.free[c]) <=>
          Placed(heap, o) /\ heap.class[o[1]] = c /\ heap.typ[o] = Free
    BY <1>1 DEF ListsOK
  <2>2. Range(heap.free[c]) \subseteq Hunks
    <3>1. heap.free[c] \in Seq(Hunks)
      BY <1>2
    <3>2. \A i \in DOMAIN heap.free[c] : heap.free[c][i] \in Hunks
      BY <3>1, LenProperties, ElementOfSeq
    <3> QED BY <3>2 DEF Range
  <2>3. PICK U : U = UNION {{o \in Range(HunksOf(heap, b)) : heap.typ[o] = Free} :
                            b \in {a \in Range(heap.blocks) : heap.class[a] = c}}
    OBVIOUS
  <2>4. U \subseteq Hunks
    <3>1. \A i \in DOMAIN heap.blocks : heap.blocks[i] \in 1..MaxBlocks
      BY <1>2, LenProperties, ElementOfSeq
    <3>2. \A b \in Range(heap.blocks) : b \in 1..MaxBlocks
      BY <3>1 DEF Range
    <3>3. \A b \in Range(heap.blocks) : Range(HunksOf(heap, b)) \subseteq Hunks
      BY <1>2, <3>2, HunksOfIs
    <3> QED BY <2>3, <3>3
  <2>5. \A o \in Hunks : o \in U <=> Placed(heap, o) /\ heap.class[o[1]] = c /\ heap.typ[o] = Free
    <3>1. \A o \in Hunks : \A b \in Range(heap.blocks) :
            o \in Range(HunksOf(heap, b)) <=> Placed(heap, o) /\ o[1] = b
      BY <1>1, InBlocksIs
    <3>2. \A o \in Hunks : o \in U <=> \E b \in Range(heap.blocks) :
            heap.class[b] = c /\ o \in Range(HunksOf(heap, b)) /\ heap.typ[o] = Free
      BY <2>3
    <3>3. \A o \in Hunks : Placed(heap, o) => o[1] \in Range(heap.blocks)
      BY DEF Placed
    <3> QED BY <3>1, <3>2, <3>3
  <2> QED BY <1>1, <2>1, <2>2, <2>3, <2>4, <2>5 DEF ListsOK
<1> QED BY <1>2, <1>3 DEF FreeListsExact

LEMMA HeapSoundFromInv ==
  ASSUME MemInv
  PROVE  HeapSound
<1>1. OutputNotLost
  BY DEF MemInv, Sound, RootsOK, OutputNotLost
<1> QED BY <1>1, TypesFromInv, KeptFromInv, ListsFromInv DEF HeapSound

-----------------------------------------------------------------------------
(* Theorems *)

\* At every step the objects that the program, MemStack or a cache can reach are
\* allocated, and the free lists hold each free hunk of the blocks once, whatever
\* the sizes of blocks and chunks and whenever an allocation collects.
THEOREM HeapStaysSound == MemSpec => []HeapSound
<1>1. MemInit => MemInv
  BY InitInv
<1>2. MemInv /\ [MemNext]_memVars => MemInv'
  BY NextInv
<1>3. MemInv => HeapSound
  BY HeapSoundFromInv
<1> QED BY <1>1, <1>2, <1>3, PTL DEF MemSpec

\* What a collection leaves is reached from the roots that it leaves: those that the
\* mark started from, and the files that Free put on fileBlocked.
LEMMA CollectLeaves ==
  ASSUME MemInv, Collect
  PROVE  \A o \in Hunks : heap'.typ[o] # Free => o \in Marked(heap')
<1>1. Sound(heap, {}) /\ heap \in Heaps
  BY DEF MemInv, Sound
<1>2. PICK r, t : r = MemCollect(heap) /\ t = heap'
  OBVIOUS
<1>3. t = [r EXCEPT !.got = Null]
  BY <1>2 DEF Collect, HeapBecomes
<1>4. PICK P : P = {}
  OBVIOUS
<1>5. Sound(heap, P) /\ P \subseteq {heap.temp}
  BY <1>1, <1>4
<1>6. Sound(r, P) /\ Collected(heap, r)
  BY <1>2, <1>5, CollectSound
<1>7. PICK busy : busy = Busy(heap)
  OBVIOUS
<1>8. /\ busy \in SUBSET Hunks /\ Roots(heap) \subseteq busy
      /\ \A o \in busy : heap.typ[o] = "cell" /\ heap.fld[o] # Null => heap.fld[o] \in busy
  BY <1>5, <1>7, BusyIs
<1>9. r \in Heaps
  BY <1>6 DEF Sound
<1>10. /\ t \in Heaps /\ t.typ = r.typ /\ t.fld = r.fld /\ t.chunks = r.chunks /\ t.save = r.save
       /\ t.temp = r.temp /\ t.blocked = r.blocked
  <2>1. t \in Heaps
    BY ONLY <1>3, <1>9 DEF Heaps
  <2>2. /\ t.typ = r.typ /\ t.fld = r.fld /\ t.chunks = r.chunks /\ t.save = r.save
        /\ t.temp = r.temp /\ t.blocked = r.blocked
    BY ONLY <1>3, <1>9 DEF Heaps
  <2> QED BY <2>1, <2>2
<1>11. /\ \A o \in busy : t.typ[o] = heap.typ[o] /\ t.fld[o] = heap.fld[o]
       /\ \A o \in Hunks : o \notin busy => t.typ[o] = Free
       /\ t.chunks = heap.chunks /\ t.save = heap.save /\ t.temp = heap.temp
       /\ t.blocked = heap.blocked \cup (heap.unwritten \cap busy)
  BY <1>6, <1>7, <1>8, <1>10 DEF Collected
<1>12. Roots(heap) \subseteq Roots(t)
  BY <1>11 DEF Roots, StackRefs
<1>13. /\ heap.fld \in [Hunks -> Hunks \cup {Null}] /\ t.fld \in [Hunks -> Hunks \cup {Null}]
       /\ Roots(heap) \in SUBSET Hunks /\ Roots(t) \in SUBSET Hunks /\ t.blocked \subseteq Roots(t)
  BY <1>1, <1>10, HeapFields, RootsIs
<1>14. PICK marked : marked = Marked(t)
  OBVIOUS
<1>15. Roots(t) \subseteq marked /\ Closed(t, marked)
  BY <1>13, <1>14, ClosureIs DEF Marked
<1>16. PICK T : T = busy \cap marked
  OBVIOUS
<1>17. Roots(heap) \subseteq T /\ Closed(heap, T)
  BY <1>8, <1>11, <1>12, <1>15, <1>16 DEF Closed
<1>18. Marked(heap) \subseteq T
  BY <1>13, <1>17, ClosureLeast DEF Marked
<1>19. \A o \in busy : o \in marked
  <2>1. \A o \in busy : o \in Marked(heap) \/ o \in heap.unwritten
    BY <1>7 DEF Busy
  <2> QED BY <1>11, <1>13, <1>15, <1>16, <1>18, <2>1
<1>20. \A o \in Hunks : t.typ[o] # Free => o \in marked
  BY <1>11, <1>19
<1> QED BY <1>2, <1>14, <1>20

\* A collection leaves nothing allocated that no root leads to.
THEOREM CollectTakesAll == MemSpec => CollectFreesGarbage
<1>1. MemInit => MemInv
  BY InitInv
<1>2. MemInv /\ [MemNext]_memVars => MemInv'
  BY NextInv
<1>3. MemInv /\ [MemNext]_memVars
        => [Collect => \A o \in Hunks : heap'.typ[o] # Free => o \in Marked(heap')]_memVars
  BY CollectLeaves
<1> QED BY <1>1, <1>2, <1>3, PTL DEF MemSpec, CollectFreesGarbage

=============================================================================
