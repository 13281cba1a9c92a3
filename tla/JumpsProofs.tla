---------------------------- MODULE JumpsProofs ----------------------------
(***************************************************************************)
(* Proofs about Jumps: that the enter and leave expressions of twixts      *)
(* bracket their statements, in order, however control gets in and out,    *)
(* and that the chains of a thread are those of the place it is at.        *)
(***************************************************************************)
EXTENDS Jumps, FiniteSetTheorems, FunctionTheorems, SequenceTheorems,
        WellFoundedInduction, TLAPS

-----------------------------------------------------------------------------
(* Chains: a pointer into a chain is the rest of it *)

IsOuter(p, s) == Len(p) <= Len(s) /\ Outer(s, Len(p)) = p

LEMMA OuterIs ==
  ASSUME NEW S, NEW s \in Seq(S), NEW n \in 0..Len(s)
  PROVE  /\ Outer(s, n) \in Seq(S)
         /\ Len(Outer(s, n)) = n
         /\ \A i \in 1..n : Outer(s, n)[i] = s[Len(s) - n + i]
<1> DEFINE m == Len(s) - n + 1
           l == Len(s)
<1>1. l \in Nat /\ \A i \in m..l : s[i] \in S
  BY LenProperties, ElementOfSeq
<1>2. m \in Int /\ l \in Int
  BY <1>1
<1>3. /\ SubSeq(s, m, l) \in Seq(S)
      /\ Len(SubSeq(s, m, l)) = IF m <= l THEN l - m + 1 ELSE 0
      /\ \A i \in 1..(l - m + 1) : SubSeq(s, m, l)[i] = s[m + i - 1]
  <2> HIDE DEF m, l
  <2> QED BY <1>1, <1>2, SubSeqProperties
<1> QED BY <1>1, <1>3 DEF Outer

LEMMA IsOuterIs ==
  ASSUME NEW S, NEW s \in Seq(S), NEW p \in Seq(S)
  PROVE  IsOuter(p, s) <=> /\ Len(p) <= Len(s)
                           /\ \A i \in 1..Len(p) : p[i] = s[Len(s) - Len(p) + i]
<1>1. Len(s) \in Nat /\ Len(p) \in Nat
  BY LenProperties
<1>2. CASE Len(p) <= Len(s)
  <2>1. /\ Outer(s, Len(p)) \in Seq(S) /\ Len(Outer(s, Len(p))) = Len(p)
        /\ \A i \in 1..Len(p) : Outer(s, Len(p))[i] = s[Len(s) - Len(p) + i]
    BY <1>1, <1>2, OuterIs
  <2>2. (\A i \in 1..Len(p) : p[i] = s[Len(s) - Len(p) + i]) => Outer(s, Len(p)) = p
    BY <1>1, <2>1, SeqEqual
  <2> QED BY <1>2, <2>1, <2>2 DEF IsOuter
<1> QED BY <1>1, <1>2 DEF IsOuter

LEMMA OuterIsOuter ==
  ASSUME NEW S, NEW s \in Seq(S), NEW n \in 0..Len(s)
  PROVE  IsOuter(Outer(s, n), s)
BY OuterIs, LenProperties DEF IsOuter

LEMMA OuterOrder ==
  ASSUME NEW S, NEW a \in Seq(S), NEW b \in Seq(S), NEW c \in Seq(S)
  PROVE  /\ IsOuter(a, a) /\ IsOuter(<<>>, a)
         /\ IsOuter(a, b) /\ IsOuter(b, c) => IsOuter(a, c)
         /\ IsOuter(a, c) /\ IsOuter(b, c) /\ Len(a) <= Len(b) => IsOuter(a, b)
         /\ IsOuter(a, b) /\ Len(a) = Len(b) => a = b
<1>1. Len(a) \in Nat /\ Len(b) \in Nat /\ Len(c) \in Nat
  BY LenProperties
<1>2. <<>> \in Seq(S) /\ Len(<<>>) = 0
  BY EmptySeq
<1>3. IsOuter(a, a) /\ IsOuter(<<>>, a)
  <2>1. \A i \in 1..Len(a) : a[i] = a[Len(a) - Len(a) + i]
    BY <1>1
  <2>2. IsOuter(a, a)
    BY <1>1, <2>1, IsOuterIs
  <2>3. Outer(a, 0) \in Seq(S) /\ Len(Outer(a, 0)) = 0
    BY <1>1, OuterIs
  <2>4. Outer(a, 0) = <<>>
    BY <2>3, EmptySeq
  <2> QED BY <1>1, <1>2, <2>2, <2>4 DEF IsOuter
<1>4. ASSUME IsOuter(a, b), IsOuter(b, c)  PROVE IsOuter(a, c)
  <2>1. /\ Len(a) <= Len(b) /\ \A i \in 1..Len(a) : a[i] = b[Len(b) - Len(a) + i]
        /\ Len(b) <= Len(c) /\ \A i \in 1..Len(b) : b[i] = c[Len(c) - Len(b) + i]
    BY <1>4, IsOuterIs
  <2>2. ASSUME NEW i \in 1..Len(a)  PROVE a[i] = c[Len(c) - Len(a) + i]
    <3>1. /\ Len(b) - Len(a) + i \in 1..Len(b)
          /\ Len(c) - Len(b) + (Len(b) - Len(a) + i) = Len(c) - Len(a) + i
      BY <1>1, <2>1
    <3> QED BY <2>1, <3>1
  <2> QED BY <1>1, <2>1, <2>2, IsOuterIs
<1>5. ASSUME IsOuter(a, c), IsOuter(b, c), Len(a) <= Len(b)  PROVE IsOuter(a, b)
  <2>1. /\ Len(a) <= Len(c) /\ \A i \in 1..Len(a) : a[i] = c[Len(c) - Len(a) + i]
        /\ Len(b) <= Len(c) /\ \A i \in 1..Len(b) : b[i] = c[Len(c) - Len(b) + i]
    BY <1>5, IsOuterIs
  <2>2. ASSUME NEW i \in 1..Len(a)  PROVE a[i] = b[Len(b) - Len(a) + i]
    <3>1. /\ Len(b) - Len(a) + i \in 1..Len(b)
          /\ Len(c) - Len(b) + (Len(b) - Len(a) + i) = Len(c) - Len(a) + i
      BY <1>1, <1>5
    <3> QED BY <2>1, <3>1
  <2> QED BY <1>1, <1>5, <2>2, IsOuterIs
<1>6. ASSUME IsOuter(a, b), Len(a) = Len(b)  PROVE a = b
  <2>1. \A i \in 1..Len(a) : a[i] = b[Len(b) - Len(a) + i]
    BY <1>6, IsOuterIs
  <2>2. \A i \in 1..Len(a) : a[i] = b[i]
    BY <1>1, <1>6, <2>1
  <2> QED BY <1>6, <2>2, SeqEqual
<1> QED BY <1>3, <1>4, <1>5, <1>6

\* Of two rests of a chain the shorter one is the rest of the other.
LEMMA OuterNest ==
  ASSUME NEW S, NEW a \in Seq(S), NEW b \in Seq(S), NEW c \in Seq(S),
         IsOuter(a, c), IsOuter(b, c), Len(a) <= Len(b)
  PROVE  IsOuter(a, b)
BY OuterOrder

\* The links of the rest p of a chain s are those of the chain.
Sharing(p, s) ==
  /\ Len(s) \in Nat /\ Len(p) \in Nat /\ Len(p) <= Len(s)
  /\ \A i \in 1..Len(p) : p[i] = s[Len(s) - Len(p) + i]

LEMMA OuterLinks ==
  ASSUME NEW S, NEW s \in Seq(S), NEW p \in Seq(S), IsOuter(p, s)
  PROVE  Sharing(p, s)
BY IsOuterIs, LenProperties DEF Sharing

\* s is the chain r with the link x in front.
Linking(S, x, r, s) ==
  /\ s \in Seq(S) /\ s # <<>> /\ Len(s) = Len(r) + 1 /\ Len(r) \in Nat
  /\ s[1] = x /\ \A i \in 1..Len(r) : s[i + 1] = r[i]
  /\ Head(s) = x /\ Tail(s) = r /\ IsOuter(r, s)

LEMMA InFront ==
  ASSUME NEW S, NEW x \in S, NEW r \in Seq(S), NEW s, s = Cons(x, r)
  PROVE  Linking(S, x, r, s)
<1>1. <<x>> \in Seq(S) /\ Len(<<x>>) = 1 /\ <<x>>[1] = x
  OBVIOUS
<1>2. /\ s \in Seq(S) /\ Len(s) = 1 + Len(r) /\ Len(r) \in Nat
      /\ \A i \in 1..(1 + Len(r)) : s[i] = IF i <= 1 THEN <<x>>[i] ELSE r[i - 1]
  <2>1. s = <<x>> \o r
    BY DEF Cons
  <2> QED BY <1>1, <2>1, ConcatProperties, LenProperties
<1>3. s[1] = x /\ \A i \in 1..Len(r) : s[i + 1] = r[i]
  BY <1>1, <1>2
<1>4. s # <<>>
  BY <1>2, EmptySeq
<1>5. /\ Tail(s) \in Seq(S) /\ Len(Tail(s)) = Len(s) - 1
      /\ \A i \in 1..Len(Tail(s)) : Tail(s)[i] = s[i + 1]
  BY <1>2, <1>4, HeadTailProperties
<1>6. Head(s) = x
  BY <1>3, <1>4
<1>7. Tail(s) = r
  BY <1>2, <1>3, <1>5, SeqEqual
<1>8. \A i \in 1..Len(r) : r[i] = s[Len(s) - Len(r) + i]
  BY <1>2, <1>3
<1>9. IsOuter(r, s)
  <2>1. Len(r) <= Len(s)
    BY <1>2
  <2> QED BY <1>2, <1>8, <2>1, IsOuterIs
<1> QED BY <1>2, <1>3, <1>4, <1>6, <1>7, <1>9 DEF Linking

LEMMA Rest ==
  ASSUME NEW S, NEW s \in Seq(S), s # <<>>
  PROVE  /\ Head(s) \in S /\ Head(s) = s[1] /\ Tail(s) \in Seq(S)
         /\ Len(s) \in Nat \ {0} /\ Len(Tail(s)) = Len(s) - 1
         /\ s = Cons(Head(s), Tail(s))
         /\ IsOuter(Tail(s), s) /\ Tail(s) = Outer(s, Len(s) - 1)
<1>1. /\ Head(s) \in S /\ Tail(s) \in Seq(S) /\ Len(Tail(s)) = Len(s) - 1
      /\ \A i \in 1..Len(Tail(s)) : Tail(s)[i] = s[i + 1]
  BY HeadTailProperties
<1>2. Len(s) \in Nat \ {0} /\ Head(s) = s[1]
  BY EmptySeq
<1>3. PICK u : u = Cons(Head(s), Tail(s))
  OBVIOUS
<1>4. /\ u \in Seq(S) /\ Len(u) = Len(Tail(s)) + 1
      /\ u[1] = Head(s) /\ \A i \in 1..Len(Tail(s)) : u[i + 1] = Tail(s)[i]
  <2>1. Linking(S, Head(s), Tail(s), u)
    BY <1>1, <1>3, InFront
  <2> QED BY <2>1 DEF Linking
<1>5. \A i \in 1..Len(s) : s[i] = u[i]
  <2>1. ASSUME NEW i \in 1..Len(s)  PROVE s[i] = u[i]
    <3>1. i = 1 \/ (i - 1 \in 1..Len(Tail(s)) /\ (i - 1) + 1 = i)
      BY <1>1, <1>2
    <3> QED BY <1>1, <1>2, <1>4, <3>1
  <2> QED BY <2>1
<1>6. s = u
  BY <1>1, <1>2, <1>4, <1>5, SeqEqual
<1>7. \A i \in 1..Len(Tail(s)) : Tail(s)[i] = s[Len(s) - Len(Tail(s)) + i]
  BY <1>1, <1>2
<1>8. IsOuter(Tail(s), s)
  <2>1. Len(Tail(s)) <= Len(s)
    BY <1>1, <1>2
  <2> QED BY <1>1, <1>7, <2>1, IsOuterIs
<1> QED BY <1>1, <1>2, <1>3, <1>6, <1>8 DEF IsOuter

\* Running off n links of a chain.
Leaving(S, s, n, m, r) ==
  /\ r \in Seq(S) /\ Len(r) = m /\ r = Outer(s, m) /\ IsOuter(r, s)
  /\ \A i \in 1..m : r[i] = s[n + i] /\ n + i \in 1..Len(s)

LEMMA BehindIs ==
  ASSUME NEW S, NEW s \in Seq(S), NEW n \in Nat, NEW m \in Nat, Len(s) = n + m,
         NEW r, r = Behind(s, n)
  PROVE  Leaving(S, s, n, m, r)
<1>1. Len(s) \in Nat /\ Len(s) - m + 1 = n + 1 /\ m \in 0..Len(s) /\ Len(s) - m = n
  BY LenProperties
<1>2. r = Outer(s, m)
  BY <1>1 DEF Behind, Outer
<1>3. /\ r \in Seq(S) /\ Len(r) = m
      /\ \A i \in 1..m : r[i] = s[Len(s) - m + i]
  BY <1>1, <1>2, OuterIs
<1>4. IsOuter(r, s)
  BY <1>1, <1>2, OuterIsOuter
<1>5. \A i \in 1..m : Len(s) - m + i = n + i /\ n + i \in 1..Len(s)
  BY <1>1
<1> QED BY <1>2, <1>3, <1>4, <1>5 DEF Leaving

\* What is removed is the link in front.
LEMMA RemoveFront ==
  ASSUME NEW S, NEW s \in Seq(S), s # <<>>
  PROVE  RemoveFirst(s, Head(s)) = Tail(s)
<1> DEFINE I == {i \in 1..Len(s) : s[i] = Head(s)}
<1>1. Len(s) \in Nat \ {0} /\ s[1] = Head(s)
  BY Rest
<1>2. 1 \in I /\ \A i \in I : i \in Nat /\ 1 <= i
  BY <1>1
<1>3. Min(I) = 1
  BY <1>2 DEF Min
<1>4. RemoveFirst(s, Head(s)) = RemoveAt(s, 1)
  BY <1>1, <1>2, <1>3 DEF RemoveFirst, SelectInSeq
<1>5. RemoveAt(s, 1) = SubSeq(s, 1, 0) \o SubSeq(s, 2, Len(s))
  BY DEF RemoveAt
<1>6. SubSeq(s, 1, 0) = <<>>
  BY SubSeqEmpty
<1>7. SubSeq(s, 2, Len(s)) = Tail(s) /\ Tail(s) \in Seq(S)
  BY TailIsSubSeq, Rest
<1> QED BY <1>4, <1>5, <1>6, <1>7, ConcatEmptySeq

-----------------------------------------------------------------------------
(* Statements: how many links they have *)

LEMMA SameSize ==
  ASSUME NEW S, NEW T, NEW f \in [S -> T], IsFiniteSet(S),
         \A x, y \in S : f[x] = f[y] => x = y,
         \A y \in T : \E x \in S : f[x] = y
  PROVE  IsFiniteSet(T) /\ Cardinality(T) = Cardinality(S)
<1>1. f \in Bijection(S, T)
  BY Fun_IsBij
<1>2. ExistsBijection(S, T)
  BY <1>1, Fun_ExistsBij
<1> QED BY <1>2, FS_Bijection

TwixtPlaces(at) == {i \in DOMAIN at : at[i] = 0}

ClausePlaces(at) == UNION {{i} \X (1..at[i]) : i \in DOMAIN at}

LEMMA ClausePlacesIs ==
  ASSUME NEW at
  PROVE  /\ \A p \in ClausePlaces(at) :
              p = <<p[1], p[2]>> /\ p[1] \in DOMAIN at /\ p[2] \in 1..at[p[1]]
         /\ \A i \in DOMAIN at : \A k \in 1..at[i] : <<i, k>> \in ClausePlaces(at)
BY DEF ClausePlaces

LEMMA PlacesFinite ==
  ASSUME NEW at \in Seq(Nat)
  PROVE  IsFiniteSet(TwixtPlaces(at)) /\ IsFiniteSet(ClausePlaces(at))
<1>1. DOMAIN at = 1..Len(at) /\ Len(at) \in Nat
  BY LenProperties
<1>2. IsFiniteSet(DOMAIN at)
  BY <1>1, FS_Interval
<1>3. IsFiniteSet(TwixtPlaces(at))
  BY <1>2, FS_Subset DEF TwixtPlaces
<1> DEFINE P(i) == {i} \X (1..at[i])
           U == {P(i) : i \in DOMAIN at}
<1>4. IsFiniteSet(U)
  <2> DEFINE f == [i \in DOMAIN at |-> P(i)]
  <2>1. f \in [DOMAIN at -> U] /\ \A u \in U : \E i \in DOMAIN at : f[i] = u
    <3> HIDE DEF P
    <3> QED OBVIOUS
  <2>2. f \in Surjection(DOMAIN at, U)
    <3> HIDE DEF f, U
    <3> QED BY <2>1, Fun_IsSurj
  <2> QED BY <1>2, <2>2, FS_Surjection, Zenon
<1>5. ASSUME NEW i \in DOMAIN at  PROVE IsFiniteSet(P(i))
  <2>1. 1 \in Int /\ at[i] \in Int
    BY <1>1, ElementOfSeq
  <2>2. IsFiniteSet({i}) /\ IsFiniteSet(1..at[i])
    BY <2>1, FS_Singleton, FS_Interval
  <2> QED BY <2>2, FS_Product, Zenon
<1>6. IsFiniteSet(UNION U)
  <2> HIDE DEF P
  <2> QED BY <1>4, <1>5, FS_UNION
<1> QED BY <1>3, <1>6 DEF ClausePlaces

LEMMA CountType ==
  ASSUME NEW at \in Seq(Nat)
  PROVE  TwixtsIn(at) \in Nat /\ ClausesIn(at) \in Nat
BY PlacesFinite, FS_CardinalityType DEF TwixtsIn, ClausesIn, TwixtPlaces, ClausePlaces

\* Of the links of nested statements, some belong to the n innermost ones and the
\* others to the rest.
LEMMA CountSplit ==
  ASSUME NEW at \in Seq(Nat), NEW n \in 0..Len(at)
  PROVE  /\ SubSeq(at, 1, n) \in Seq(Nat)
         /\ TwixtsIn(at) = TwixtsIn(SubSeq(at, 1, n)) + TwixtsIn(Outer(at, Len(at) - n))
         /\ ClausesIn(at) = ClausesIn(SubSeq(at, 1, n)) + ClausesIn(Outer(at, Len(at) - n))
<1> DEFINE a == SubSeq(at, 1, n)
           b == Outer(at, Len(at) - n)
<1>1. DOMAIN at = 1..Len(at) /\ Len(at) \in Nat /\ \A i \in 1..Len(at) : at[i] \in Nat
  BY LenProperties, ElementOfSeq
<1>2. /\ a \in Seq(Nat) /\ Len(a) = n /\ DOMAIN a = 1..n
      /\ \A i \in 1..n : a[i] = at[i]
  <2>1. \A i \in 1..n : at[i] \in Nat
    BY <1>1
  <2>2. /\ a \in Seq(Nat) /\ Len(a) = IF 1 <= n THEN n - 1 + 1 ELSE 0
        /\ \A i \in 1..(n - 1 + 1) : a[i] = at[1 + i - 1]
    BY <1>1, <2>1, SubSeqProperties
  <2>3. Len(a) = n
    BY <1>1, <2>2
  <2> QED BY <1>1, <2>2, <2>3, LenProperties
<1>3. /\ b \in Seq(Nat) /\ Len(b) = Len(at) - n /\ DOMAIN b = 1..(Len(at) - n)
      /\ \A i \in 1..(Len(at) - n) : b[i] = at[n + i]
  <2>1. Len(at) - n \in 0..Len(at)
    BY <1>1
  <2>2. /\ b \in Seq(Nat) /\ Len(b) = Len(at) - n
        /\ \A i \in 1..(Len(at) - n) : b[i] = at[Len(at) - (Len(at) - n) + i]
    BY <2>1, OuterIs
  <2>3. Len(at) - (Len(at) - n) = n
    BY <1>1
  <2> QED BY <2>2, <2>3, LenProperties
<1> HIDE DEF a, b
<1>4. /\ IsFiniteSet(TwixtPlaces(a)) /\ IsFiniteSet(ClausePlaces(a))
      /\ IsFiniteSet(TwixtPlaces(b)) /\ IsFiniteSet(ClausePlaces(b))
  BY <1>2, <1>3, PlacesFinite
<1>5. TwixtsIn(at) = TwixtsIn(a) + TwixtsIn(b)
  <2> DEFINE T == {i \in TwixtPlaces(at) : i > n}
             f == [i \in TwixtPlaces(b) |-> n + i]
  <2>1. f \in [TwixtPlaces(b) -> T] /\ \A x, y \in TwixtPlaces(b) : f[x] = f[y] => x = y
    <3>1. ASSUME NEW i \in TwixtPlaces(b)
          PROVE  i \in Int /\ n + i \in TwixtPlaces(at) /\ n + i > n
      BY <1>1, <1>3 DEF TwixtPlaces
    <3> QED BY <1>1, <3>1
  <2>2. ASSUME NEW y \in T  PROVE \E x \in TwixtPlaces(b) : f[x] = y
    <3>1. y - n \in TwixtPlaces(b) /\ n + (y - n) = y
      BY <1>1, <1>3 DEF TwixtPlaces
    <3> QED BY <3>1
  <2>3. IsFiniteSet(T) /\ Cardinality(T) = Cardinality(TwixtPlaces(b))
    <3> HIDE DEF T, f
    <3> QED BY <1>4, <2>1, <2>2, SameSize
  <2>4. TwixtPlaces(at) = TwixtPlaces(a) \cup T /\ TwixtPlaces(a) \cap T = {}
    BY <1>1, <1>2 DEF TwixtPlaces
  <2>5. /\ Cardinality(TwixtPlaces(at)) = Cardinality(TwixtPlaces(a)) + Cardinality(T) - Cardinality({})
        /\ Cardinality({}) = 0
    BY <1>4, <2>3, <2>4, FS_Union, FS_EmptySet
  <2>6. Cardinality(TwixtPlaces(a)) \in Nat /\ Cardinality(T) \in Nat
    BY <1>4, <2>3, FS_CardinalityType
  <2> QED BY <2>3, <2>5, <2>6 DEF TwixtsIn, TwixtPlaces
<1>6. ClausesIn(at) = ClausesIn(a) + ClausesIn(b)
  <2> DEFINE T == {p \in ClausePlaces(at) : p[1] > n}
             f == [p \in ClausePlaces(b) |-> <<n + p[1], p[2]>>]
  <2>1. ASSUME NEW p \in ClausePlaces(b)  PROVE f[p] \in T /\ p[1] \in Int
    <3>1. p[1] \in 1..(Len(at) - n) /\ p[2] \in 1..b[p[1]]
      BY <1>3, ClausePlacesIs
    <3>2. n + p[1] \in 1..Len(at) /\ n + p[1] > n
      BY <1>1, <3>1
    <3>3. n + p[1] \in DOMAIN at /\ p[2] \in 1..at[n + p[1]]
      BY <1>1, <1>3, <3>1, <3>2
    <3>4. <<n + p[1], p[2]>> \in ClausePlaces(at)
      BY <3>3, ClausePlacesIs
    <3> QED BY <3>1, <3>2, <3>4
  <2>2. ASSUME NEW x \in ClausePlaces(b), NEW y \in ClausePlaces(b), f[x] = f[y]
        PROVE  x = y
    <3>1. x = <<x[1], x[2]>> /\ y = <<y[1], y[2]>>
      BY ClausePlacesIs
    <3>2. n + x[1] = n + y[1] /\ x[2] = y[2]
      BY <2>2
    <3>3. x[1] \in Int /\ y[1] \in Int
      BY <2>1
    <3>4. x[1] = y[1]
      BY <1>1, <3>2, <3>3
    <3> QED BY <3>1, <3>2, <3>4
  <2>3. ASSUME NEW y \in T  PROVE \E x \in ClausePlaces(b) : f[x] = y
    <3>1. y = <<y[1], y[2]>> /\ y[1] \in DOMAIN at /\ y[2] \in 1..at[y[1]] /\ y[1] > n
      BY ClausePlacesIs
    <3>2. y[1] - n \in 1..(Len(at) - n) /\ n + (y[1] - n) = y[1]
      BY <1>1, <3>1
    <3>3. y[1] - n \in DOMAIN b /\ y[2] \in 1..b[y[1] - n]
      BY <1>3, <3>1, <3>2
    <3>4. <<y[1] - n, y[2]>> \in ClausePlaces(b)
      BY <3>3, ClausePlacesIs
    <3>5. f[<<y[1] - n, y[2]>>] = <<n + (y[1] - n), y[2]>>
      BY <3>4
    <3> QED BY <3>1, <3>2, <3>4, <3>5
  <2>4. IsFiniteSet(T) /\ Cardinality(T) = Cardinality(ClausePlaces(b))
    <3>1. f \in [ClausePlaces(b) -> T]
      BY <2>1
    <3> HIDE DEF T, f
    <3> QED BY <1>4, <2>2, <2>3, <3>1, SameSize
  <2>5. ClausePlaces(at) = ClausePlaces(a) \cup T /\ ClausePlaces(a) \cap T = {}
    <3>1. ASSUME NEW p \in ClausePlaces(at)  PROVE p \in ClausePlaces(a) \/ p \in T
      <4>1. p = <<p[1], p[2]>> /\ p[1] \in DOMAIN at /\ p[2] \in 1..at[p[1]]
        BY ClausePlacesIs
      <4>2. CASE p[1] <= n
        <5>1. p[1] \in DOMAIN a /\ p[2] \in 1..a[p[1]]
          BY <1>1, <1>2, <4>1, <4>2
        <5> QED BY <4>1, <5>1, ClausePlacesIs
      <4> QED BY <1>1, <4>1, <4>2
    <3>2. ASSUME NEW p \in ClausePlaces(a)  PROVE p \in ClausePlaces(at) /\ p \notin T
      <4>1. p = <<p[1], p[2]>> /\ p[1] \in 1..n /\ p[2] \in 1..a[p[1]]
        BY <1>2, ClausePlacesIs
      <4>2. p[1] \in DOMAIN at /\ p[2] \in 1..at[p[1]] /\ ~ (p[1] > n)
        BY <1>1, <1>2, <4>1
      <4> QED BY <4>1, <4>2, ClausePlacesIs
    <3> QED BY <3>1, <3>2
  <2> HIDE DEF T
  <2>6. /\ Cardinality(ClausePlaces(at)) = Cardinality(ClausePlaces(a)) + Cardinality(T) - Cardinality({})
        /\ Cardinality({}) = 0
    BY <1>4, <2>4, <2>5, FS_Union, FS_EmptySet
  <2>7. Cardinality(ClausePlaces(a)) \in Nat /\ Cardinality(T) \in Nat
    BY <1>4, <2>4, FS_CardinalityType
  <2> QED BY <2>4, <2>6, <2>7 DEF ClausesIn, ClausePlaces
<1> QED BY <1>2, <1>5, <1>6 DEF a, b

\* The links of the innermost statement.
LEMMA CountFirst ==
  ASSUME NEW at \in Seq(Nat), at # <<>>
  PROVE  /\ TwixtsIn(SubSeq(at, 1, 1)) = IF Head(at) = 0 THEN 1 ELSE 0
         /\ ClausesIn(SubSeq(at, 1, 1)) = Head(at)
<1> DEFINE a == SubSeq(at, 1, 1)
<1>1. Len(at) \in Nat \ {0} /\ at[1] = Head(at) /\ Head(at) \in Nat
  BY Rest
<1>2. /\ a \in Seq(Nat) /\ DOMAIN a = {1} /\ a[1] = Head(at)
  <2>1. \A i \in 1..1 : at[i] \in Nat
    BY <1>1
  <2>2. /\ a \in Seq(Nat) /\ Len(a) = IF 1 <= 1 THEN 1 - 1 + 1 ELSE 0
        /\ \A i \in 1..(1 - 1 + 1) : a[i] = at[1 + i - 1]
    BY <2>1, SubSeqProperties
  <2>3. Len(a) = 1 /\ a[1] = at[1]
    BY <2>2
  <2>4. DOMAIN a = 1..Len(a)
    BY <2>2, LenProperties
  <2> QED BY <1>1, <2>2, <2>3, <2>4
<1> HIDE DEF a
<1>3. TwixtsIn(a) = IF Head(at) = 0 THEN 1 ELSE 0
  <2>1. TwixtPlaces(a) = IF Head(at) = 0 THEN {1} ELSE {}
    BY <1>2 DEF TwixtPlaces
  <2>2. Cardinality({1}) = 1 /\ Cardinality({}) = 0
    BY FS_Singleton, FS_EmptySet
  <2> QED BY <2>1, <2>2 DEF TwixtsIn, TwixtPlaces
<1>4. ClausesIn(a) = Head(at)
  <2>1. ClausePlaces(a) = {1} \X (1..Head(at))
    BY <1>2 DEF ClausePlaces
  <2>2. /\ IsFiniteSet({1}) /\ Cardinality({1}) = 1
        /\ IsFiniteSet(1..Head(at)) /\ Cardinality(1..Head(at)) = Head(at)
    <3>1. IsFiniteSet({1}) /\ Cardinality({1}) = 1
      BY FS_Singleton
    <3>2. 1 \in Int /\ Head(at) \in Int
      BY <1>1
    <3>3. /\ IsFiniteSet(1..Head(at))
          /\ Cardinality(1..Head(at)) = IF 1 > Head(at) THEN 0 ELSE Head(at) - 1 + 1
      BY <3>2, FS_Interval
    <3> QED BY <1>1, <3>1, <3>3
  <2>3. Cardinality({1} \X (1..Head(at))) = 1 * Head(at)
    <3>1. Cardinality({1} \X (1..Head(at))) = Cardinality({1}) * Cardinality(1..Head(at))
      BY <2>2, FS_Product, Zenon
    <3> QED BY <2>2, <3>1
  <2>4. ClausesIn(a) = 1 * Head(at)
    BY <2>1, <2>3, Zenon DEF ClausesIn, ClausePlaces
  <2> QED BY <1>1, <2>4
<1> QED BY <1>3, <1>4 DEF a

LEMMA CountFront ==
  ASSUME NEW at \in Seq(Nat), at # <<>>
  PROVE  /\ TwixtsIn(at) = (IF Head(at) = 0 THEN 1 ELSE 0) + TwixtsIn(Tail(at))
         /\ ClausesIn(at) = Head(at) + ClausesIn(Tail(at))
<1>1. 1 \in 0..Len(at) /\ Outer(at, Len(at) - 1) = Tail(at)
  BY Rest
<1>2. /\ TwixtsIn(at) = TwixtsIn(SubSeq(at, 1, 1)) + TwixtsIn(Tail(at))
      /\ ClausesIn(at) = ClausesIn(SubSeq(at, 1, 1)) + ClausesIn(Tail(at))
  BY <1>1, CountSplit
<1> QED BY <1>2, CountFirst

LEMMA CountNone == TwixtsIn(<<>>) = 0 /\ ClausesIn(<<>>) = 0
<1>1. TwixtPlaces(<<>>) = {} /\ ClausePlaces(<<>>) = {}
  BY DEF TwixtPlaces, ClausePlaces
<1> QED BY <1>1, FS_EmptySet DEF TwixtsIn, ClausesIn, TwixtPlaces, ClausePlaces

-----------------------------------------------------------------------------
(* Contexts: a program point with its chains *)

\* The catch clause i of a context was set up at a place around the context, when
\* the clauses further out and those of its own statement were in force.
InForce(c, i) ==
  LET k == c.catches[i] IN
  /\ IsOuter(k.at, c.at)
  /\ IsOuter(k.twixts, c.twixts)
  /\ Len(k.twixts) = TwixtsIn(k.at)
  /\ Len(c.catches) - i = ClausesIn(k.at) + k.peers
  /\ \A j \in DOMAIN c.catches : i < j => Len(c.catches[j].at) <= Len(k.at)

\* The chains have a link for each twixt and each clause of the statements around
\* the program point, and n for clauses that OpUnwind is going to drop.
Fits(c, n) ==
  /\ Len(c.twixts) = TwixtsIn(c.at)
  /\ Len(c.catches) = ClausesIn(c.at) + n
  /\ \A i \in DOMAIN c.catches : InForce(c, i)

LEMMA ContextType ==
  ASSUME NEW c \in Contexts
  PROVE  /\ c.at \in Seq(Nat) /\ c.twixts \in Seq(Twixts) /\ c.catches \in Seq(Catches)
         /\ Len(c.at) \in Nat /\ Len(c.twixts) \in Nat /\ Len(c.catches) \in Nat
         /\ DOMAIN c.catches = 1..Len(c.catches)
         /\ TwixtsIn(c.at) \in Nat /\ ClausesIn(c.at) \in Nat
         /\ \A i \in DOMAIN c.catches :
              /\ c.catches[i] \in Catches /\ c.catches[i].peers \in Nat
              /\ c.catches[i].exception \in Exceptions
              /\ c.catches[i].at \in Seq(Nat) /\ c.catches[i].twixts \in Seq(Twixts)
<1>1. /\ c.at \in Seq(Nat) /\ c.twixts \in Seq(Twixts) /\ c.catches \in Seq(Catches)
  BY DEF Contexts
<1>2. /\ Len(c.at) \in Nat /\ Len(c.twixts) \in Nat /\ Len(c.catches) \in Nat
      /\ DOMAIN c.catches = 1..Len(c.catches)
  BY <1>1, LenProperties
<1>3. \A i \in DOMAIN c.catches : c.catches[i] \in Catches
  BY <1>1, <1>2, ElementOfSeq
<1>4. \A i \in DOMAIN c.catches :
        /\ c.catches[i].peers \in Nat /\ c.catches[i].exception \in Exceptions
        /\ c.catches[i].at \in Seq(Nat) /\ c.catches[i].twixts \in Seq(Twixts)
  BY <1>3 DEF Catches
<1>5. TwixtsIn(c.at) \in Nat /\ ClausesIn(c.at) \in Nat
  BY <1>1, CountType
<1> QED BY <1>1, <1>2, <1>3, <1>4, <1>5

\* Fewer statements have fewer links.
LEMMA CountOuter ==
  ASSUME NEW at \in Seq(Nat), NEW a \in Seq(Nat), IsOuter(a, at)
  PROVE  TwixtsIn(a) <= TwixtsIn(at) /\ ClausesIn(a) <= ClausesIn(at)
<1>1. Len(at) \in Nat /\ Len(a) \in Nat /\ Len(a) <= Len(at) /\ a = Outer(at, Len(a))
  BY LenProperties DEF IsOuter
<1> DEFINE n == Len(at) - Len(a)
           s == SubSeq(at, 1, n)
<1>2. n \in 0..Len(at) /\ Len(at) - n = Len(a)
  BY <1>1
<1>3. /\ s \in Seq(Nat)
      /\ TwixtsIn(at) = TwixtsIn(s) + TwixtsIn(a)
      /\ ClausesIn(at) = ClausesIn(s) + ClausesIn(a)
  <2> HIDE DEF n
  <2> QED BY <1>1, <1>2, CountSplit
<1>4. /\ TwixtsIn(s) \in Nat /\ TwixtsIn(a) \in Nat /\ TwixtsIn(at) \in Nat
      /\ ClausesIn(s) \in Nat /\ ClausesIn(a) \in Nat /\ ClausesIn(at) \in Nat
  BY <1>3, CountType
<1> HIDE DEF s, n
<1> QED BY <1>3, <1>4

\* Of two places around the same one, that with fewer clauses is further out.
LEMMA FewerClauses ==
  ASSUME NEW at \in Seq(Nat), NEW a \in Seq(Nat), NEW b \in Seq(Nat),
         IsOuter(a, at), IsOuter(b, at), ClausesIn(a) < ClausesIn(b)
  PROVE  Len(a) <= Len(b)
<1> SUFFICES ASSUME ~ (Len(a) <= Len(b))  PROVE FALSE
  OBVIOUS
<1>1. Len(b) <= Len(a)
  BY LenProperties
<1>2. ClausesIn(b) <= ClausesIn(a)
  BY <1>1, OuterOrder, CountOuter
<1> QED BY <1>2, CountType

\* Going out to a place around the context.
LEMMA GoOut ==
  ASSUME NEW c \in Contexts, NEW d \in Contexts, NEW m \in Nat, NEW n \in Nat,
         Fits(c, m), IsOuter(d.at, c.at),
         IsOuter(d.twixts, c.twixts), Len(d.twixts) = TwixtsIn(d.at),
         IsOuter(d.catches, c.catches), Len(d.catches) = ClausesIn(d.at) + n,
         \A i \in DOMAIN d.catches : Len(d.catches[i].at) <= Len(d.at)
  PROVE  Fits(d, n)
<1> DEFINE k == Len(c.catches) - Len(d.catches)
<1>1. /\ k \in Nat /\ Len(c.catches) \in Nat /\ Len(d.catches) \in Nat
      /\ DOMAIN c.catches = 1..Len(c.catches) /\ DOMAIN d.catches = 1..Len(d.catches)
      /\ \A i \in DOMAIN d.catches : d.catches[i] = c.catches[k + i]
  <2>1. /\ Len(c.catches) \in Nat /\ Len(d.catches) \in Nat
        /\ DOMAIN c.catches = 1..Len(c.catches) /\ DOMAIN d.catches = 1..Len(d.catches)
        /\ c.catches \in Seq(Catches) /\ d.catches \in Seq(Catches)
    BY ContextType
  <2>2. /\ Len(d.catches) <= Len(c.catches)
        /\ \A i \in 1..Len(d.catches) : d.catches[i] = c.catches[k + i]
    <3>1. Sharing(d.catches, c.catches)
      BY <2>1, OuterLinks
    <3> QED BY <3>1 DEF Sharing
  <2> QED BY <2>1, <2>2
<1>2. ASSUME NEW i \in DOMAIN d.catches  PROVE k + i \in DOMAIN c.catches
  BY <1>1
<1> HIDE DEF k
<1>3. ASSUME NEW i \in DOMAIN d.catches  PROVE InForce(d, i)
  <2> DEFINE e == d.catches[i]
  <2>1. /\ e = c.catches[k + i] /\ InForce(c, k + i)
        /\ e.at \in Seq(Nat) /\ e.twixts \in Seq(Twixts)
    BY <1>1, <1>2, ContextType DEF Fits
  <2>2. /\ IsOuter(e.at, c.at) /\ IsOuter(e.twixts, c.twixts)
        /\ Len(e.twixts) = TwixtsIn(e.at)
        /\ Len(c.catches) - (k + i) = ClausesIn(e.at) + e.peers
        /\ \A j \in DOMAIN c.catches : k + i < j => Len(c.catches[j].at) <= Len(e.at)
    BY <2>1 DEF InForce
  <2>3. IsOuter(e.at, d.at)
    <3>1. Len(e.at) <= Len(d.at)
      OBVIOUS
    <3>2. c.at \in Seq(Nat) /\ d.at \in Seq(Nat)
      BY ContextType
    <3> HIDE DEF e
    <3> QED BY <2>1, <2>2, <3>1, <3>2, OuterOrder
  <2>4. IsOuter(e.twixts, d.twixts)
    <3>1. c.twixts \in Seq(Twixts) /\ d.twixts \in Seq(Twixts) /\ d.at \in Seq(Nat)
      BY ContextType
    <3> HIDE DEF e
    <3>2. Len(e.twixts) <= Len(d.twixts)
      BY <2>1, <2>2, <2>3, <3>1, CountOuter
    <3> QED BY <2>1, <2>2, <3>1, <3>2, OuterOrder
  <2>5. Len(d.catches) - i = ClausesIn(e.at) + e.peers
    <3>1. i \in Int /\ Len(c.catches) \in Int /\ Len(d.catches) \in Int
      BY <1>1
    <3>2. Len(c.catches) - (k + i) = Len(d.catches) - i
      BY <3>1 DEF k
    <3> QED BY <2>2, <3>2
  <2>6. ASSUME NEW j \in DOMAIN d.catches, i < j  PROVE Len(d.catches[j].at) <= Len(e.at)
    <3>1. k + j \in DOMAIN c.catches /\ k + i < k + j /\ d.catches[j] = c.catches[k + j]
      BY <1>1, <1>2, <2>6
    <3> QED BY <2>2, <3>1
  <2> HIDE DEF e
  <2> QED BY <2>2, <2>3, <2>4, <2>5, <2>6 DEF InForce, e
<1> QED BY <1>3 DEF Fits

\* Going into a statement: the clauses that are new belong to this place.
LEMMA GoIn ==
  ASSUME NEW c \in Contexts, NEW d \in Contexts, Fits(c, 0), IsOuter(c.at, d.at),
         IsOuter(c.twixts, d.twixts), Len(d.twixts) = TwixtsIn(d.at),
         IsOuter(c.catches, d.catches), Len(d.catches) = ClausesIn(d.at),
         \A i \in 1..(Len(d.catches) - Len(c.catches)) :
            /\ d.catches[i].at = c.at /\ d.catches[i].twixts = c.twixts
            /\ Len(d.catches) - i = ClausesIn(c.at) + d.catches[i].peers
  PROVE  Fits(d, 0)
<1> DEFINE k == Len(d.catches) - Len(c.catches)
<1>1. /\ k \in Nat /\ Len(c.catches) \in Nat /\ Len(d.catches) \in Nat
      /\ DOMAIN c.catches = 1..Len(c.catches) /\ DOMAIN d.catches = 1..Len(d.catches)
      /\ \A i \in DOMAIN c.catches : c.catches[i] = d.catches[k + i]
  <2>1. /\ Len(c.catches) \in Nat /\ Len(d.catches) \in Nat
        /\ DOMAIN c.catches = 1..Len(c.catches) /\ DOMAIN d.catches = 1..Len(d.catches)
        /\ c.catches \in Seq(Catches) /\ d.catches \in Seq(Catches)
    BY ContextType
  <2>2. /\ Len(c.catches) <= Len(d.catches)
        /\ \A i \in 1..Len(c.catches) : c.catches[i] = d.catches[k + i]
    BY <2>1, IsOuterIs
  <2> QED BY <2>1, <2>2
<1>2. \A i \in 1..k : /\ d.catches[i].at = c.at /\ d.catches[i].twixts = c.twixts
                      /\ Len(d.catches) - i = ClausesIn(c.at) + d.catches[i].peers
  OBVIOUS
<1>3. Len(d.catches) = k + Len(c.catches)
  BY <1>1
<1> HIDE DEF k
<1>4. ASSUME NEW j \in DOMAIN d.catches  PROVE IsOuter(d.catches[j].at, c.at)
  <2>1. CASE j \in 1..k
    BY <1>2, <2>1, OuterOrder, ContextType
  <2>2. CASE j \notin 1..k
    <3>1. j - k \in DOMAIN c.catches /\ k + (j - k) = j
      BY <1>1, <1>3, <2>2
    <3>2. d.catches[j] = c.catches[j - k] /\ InForce(c, j - k)
      BY <1>1, <3>1 DEF Fits
    <3> QED BY <3>2 DEF InForce
  <2> QED BY <2>1, <2>2
<1>5. ASSUME NEW i \in DOMAIN d.catches  PROVE InForce(d, i)
  <2> DEFINE e == d.catches[i]
  <2>1. e.at \in Seq(Nat) /\ e.twixts \in Seq(Twixts)
    BY ContextType
  <2>2. CASE i \in 1..k
    <3>1. e.at = c.at /\ e.twixts = c.twixts /\ Len(d.catches) - i = ClausesIn(c.at) + e.peers
      BY <1>2, <2>2
    <3>2. \A j \in DOMAIN d.catches : Len(d.catches[j].at) <= Len(e.at)
      BY <1>4, <3>1 DEF IsOuter
    <3> QED BY <3>1, <3>2 DEF InForce, Fits
  <2>3. CASE i \notin 1..k
    <3>1. i - k \in DOMAIN c.catches /\ k + (i - k) = i
      BY <1>1, <1>3, <2>3
    <3>2. e = c.catches[i - k] /\ InForce(c, i - k)
      BY <1>1, <3>1 DEF Fits
    <3>3. /\ IsOuter(e.at, c.at) /\ IsOuter(e.twixts, c.twixts)
          /\ Len(e.twixts) = TwixtsIn(e.at)
          /\ Len(c.catches) - (i - k) = ClausesIn(e.at) + e.peers
          /\ \A j \in DOMAIN c.catches : i - k < j => Len(c.catches[j].at) <= Len(e.at)
      BY <3>2 DEF InForce
    <3>4. IsOuter(e.at, d.at) /\ IsOuter(e.twixts, d.twixts)
      <4>1. /\ c.at \in Seq(Nat) /\ c.twixts \in Seq(Twixts)
            /\ d.at \in Seq(Nat) /\ d.twixts \in Seq(Twixts)
        BY ContextType
      <4> HIDE DEF e
      <4> QED BY <2>1, <3>3, <4>1, OuterOrder
    <3>5. Len(d.catches) - i = ClausesIn(e.at) + e.peers
      BY <1>1, <1>3, <3>1, <3>3
    <3>6. ASSUME NEW j \in DOMAIN d.catches, i < j  PROVE Len(d.catches[j].at) <= Len(e.at)
      <4>1. j - k \in DOMAIN c.catches /\ i - k < j - k /\ k + (j - k) = j
        BY <1>1, <1>3, <2>3, <3>6
      <4>2. d.catches[j] = c.catches[j - k]
        BY <1>1, <4>1
      <4> QED BY <3>3, <4>1, <4>2
    <3> HIDE DEF e
    <3> QED BY <3>3, <3>4, <3>5, <3>6 DEF InForce, e
  <2> QED BY <2>2, <2>3
<1>6. Len(d.catches) = ClausesIn(d.at) + 0
  BY ContextType
<1> QED BY <1>5, <1>6 DEF Fits

\* The links that a context further out shares, clauses of the same statement
\* included.
LEMMA GoOutLinks ==
  ASSUME NEW c \in Contexts, NEW d \in Contexts, NEW m \in Nat, NEW n \in Nat, NEW p \in Nat,
         IsOuter(d.catches, c.catches), Len(c.catches) = p + Len(d.catches),
         NEW i \in DOMAIN d.catches
  PROVE  d.catches[i] = c.catches[p + i] /\ p + i \in DOMAIN c.catches
<1>1. /\ c.catches \in Seq(Catches) /\ Len(c.catches) \in Nat
      /\ d.catches \in Seq(Catches) /\ Len(d.catches) \in Nat
      /\ DOMAIN c.catches = 1..Len(c.catches) /\ DOMAIN d.catches = 1..Len(d.catches)
  BY ContextType
<1>2. \A j \in 1..Len(d.catches) :
        d.catches[j] = c.catches[Len(c.catches) - Len(d.catches) + j]
  <2>1. Sharing(d.catches, c.catches)
    BY <1>1, OuterLinks
  <2> QED BY <2>1 DEF Sharing
<1>3. i \in 1..Len(d.catches) /\ Len(c.catches) - Len(d.catches) + i = p + i
  BY <1>1
<1>4. p + i \in 1..Len(c.catches)
  BY <1>1, <1>3
<1> QED BY <1>1, <1>2, <1>3, <1>4

\* break, continue and return, and the end of a statement
LEMMA GoOutStatements ==
  ASSUME NEW c \in Contexts, NEW d \in Contexts, Fits(c, 0), IsOuter(d.at, c.at),
         IsOuter(d.twixts, c.twixts), Len(d.twixts) = TwixtsIn(d.at),
         IsOuter(d.catches, c.catches), Len(d.catches) = ClausesIn(d.at)
  PROVE  Fits(d, 0)
<1>1. /\ Len(c.catches) \in Nat /\ Len(d.catches) \in Nat
      /\ DOMAIN d.catches = 1..Len(d.catches)
      /\ c.at \in Seq(Nat) /\ d.at \in Seq(Nat)
  BY ContextType
<1>2. Len(d.catches) <= Len(c.catches)
  BY DEF IsOuter
<1>3. PICK p \in Nat : Len(c.catches) = p + Len(d.catches)
  <2>1. Len(c.catches) - Len(d.catches) \in Nat
        /\ Len(c.catches) = (Len(c.catches) - Len(d.catches)) + Len(d.catches)
    BY <1>1, <1>2
  <2> QED BY <2>1
<1>4. ASSUME NEW i \in DOMAIN d.catches  PROVE Len(d.catches[i].at) <= Len(d.at)
  <2>1. d.catches[i] = c.catches[p + i] /\ p + i \in DOMAIN c.catches
    BY <1>3, GoOutLinks
  <2>2. PICK e : e = d.catches[i]
    OBVIOUS
  <2>3. e = c.catches[p + i] /\ InForce(c, p + i)
    BY <2>1, <2>2 DEF Fits
  <2>4. e.at \in Seq(Nat) /\ e.peers \in Nat
    BY <2>2, ContextType
  <2>5. IsOuter(e.at, c.at) /\ Len(c.catches) - (p + i) = ClausesIn(e.at) + e.peers
    BY <2>3 DEF InForce
  <2>6. ClausesIn(e.at) \in Nat /\ ClausesIn(d.at) \in Nat
    BY <1>1, <2>4, CountType
  <2>7. ClausesIn(e.at) < ClausesIn(d.at)
    <3>1. i \in 1..Len(d.catches)
      BY <1>1
    <3>2. Len(c.catches) - (p + i) < Len(d.catches)
      BY <1>1, <1>3, <3>1
    <3> QED BY <2>4, <2>5, <2>6, <3>2
  <2>8. Len(e.at) <= Len(d.at)
    BY <1>1, <2>4, <2>5, <2>7, FewerClauses
  <2> QED BY <2>2, <2>8
<1>5. Len(d.catches) = ClausesIn(d.at) + 0
  BY <1>1
<1> QED BY <1>4, <1>5, GoOut

\* As many links as the compiler has counted lead to the chains of the place
\* behind the n innermost statements.
\* The first n links of s
Before(s, n) == SubSeq(s, 1, n)

LEMMA BehindStatements ==
  ASSUME NEW c \in Contexts, Fits(c, 0), NEW n \in 0..Len(c.at),
         NEW l, l = Before(c.at, n), NEW a, a = Behind(c.at, n),
         NEW t, t = Behind(c.twixts, TwixtsIn(l)),
         NEW k, k = Behind(c.catches, ClausesIn(l))
  PROVE  /\ a \in Seq(Nat) /\ t \in Seq(Twixts) /\ k \in Seq(Catches)
         /\ IsOuter(a, c.at) /\ IsOuter(t, c.twixts) /\ IsOuter(k, c.catches)
         /\ Len(t) = TwixtsIn(a) /\ Len(k) = ClausesIn(a)
<1>1. /\ c.at \in Seq(Nat) /\ c.twixts \in Seq(Twixts) /\ c.catches \in Seq(Catches)
      /\ Len(c.at) \in Nat
      /\ Len(c.twixts) = TwixtsIn(c.at) /\ Len(c.catches) = ClausesIn(c.at)
  BY ContextType DEF Fits
<1>2. a \in Seq(Nat) /\ a = Outer(c.at, Len(c.at) - n) /\ IsOuter(a, c.at)
  <2>1. n \in Nat /\ Len(c.at) - n \in Nat /\ Len(c.at) = n + (Len(c.at) - n)
    BY <1>1
  <2>2. Leaving(Nat, c.at, n, Len(c.at) - n, a)
    BY <1>1, <2>1, BehindIs
  <2> QED BY <2>2 DEF Leaving
<1>3. /\ l \in Seq(Nat)
      /\ TwixtsIn(c.at) = TwixtsIn(l) + TwixtsIn(a)
      /\ ClausesIn(c.at) = ClausesIn(l) + ClausesIn(a)
  BY <1>1, <1>2, CountSplit DEF Before
<1>4. /\ TwixtsIn(l) \in Nat /\ ClausesIn(l) \in Nat
      /\ TwixtsIn(a) \in Nat /\ ClausesIn(a) \in Nat
  BY <1>2, <1>3, CountType
<1>5. t \in Seq(Twixts) /\ Len(t) = TwixtsIn(a) /\ IsOuter(t, c.twixts)
  <2>1. Leaving(Twixts, c.twixts, TwixtsIn(l), TwixtsIn(a), t)
    BY <1>1, <1>3, <1>4, BehindIs
  <2> QED BY <2>1 DEF Leaving
<1>6. k \in Seq(Catches) /\ Len(k) = ClausesIn(a) /\ IsOuter(k, c.catches)
  <2>1. Leaving(Catches, c.catches, ClausesIn(l), ClausesIn(a), k)
    BY <1>1, <1>3, <1>4, BehindIs
  <2> QED BY <2>1 DEF Leaving
<1> QED BY <1>2, <1>5, <1>6

LEMMA ContextIs ==
  ASSUME NEW a \in Seq(Nat), NEW t \in Seq(Twixts), NEW k \in Seq(Catches),
         NEW d, d = Context(a, t, k)
  PROVE  d \in Contexts /\ d.at = a /\ d.twixts = t /\ d.catches = k
BY DEF Context, Contexts

LEMMA TopFits == Top \in Contexts /\ Fits(Top, 0)
<1>1. /\ <<>> \in Seq(Nat) /\ <<>> \in Seq(Twixts) /\ <<>> \in Seq(Catches)
      /\ Len(<<>>) = 0 /\ DOMAIN <<>> = {}
  BY EmptySeq
<1>2. Top.at = <<>> /\ Top.twixts = <<>> /\ Top.catches = <<>> /\ Top \in Contexts
  BY <1>1 DEF Top, Context, Contexts
<1> QED BY <1>1, <1>2, CountNone DEF Fits

\* A handler runs at the place of its try statement, where the other clauses of the
\* statement are still in force.
LEMMA GoOutHandler ==
  ASSUME NEW c \in Contexts, NEW d \in Contexts, Fits(c, 0), NEW i \in DOMAIN c.catches,
         NEW k, k = c.catches[i], d.at = k.at, d.twixts = k.twixts,
         Leaving(Catches, c.catches, i, Len(c.catches) - i, d.catches)
  PROVE  Fits(d, k.peers)
<1>1. /\ Len(c.catches) \in Nat /\ DOMAIN c.catches = 1..Len(c.catches)
      /\ k.at \in Seq(Nat) /\ k.twixts \in Seq(Twixts) /\ k.peers \in Nat
      /\ DOMAIN d.catches = 1..Len(d.catches)
  BY ContextType
<1>2. /\ IsOuter(k.at, c.at) /\ IsOuter(k.twixts, c.twixts) /\ Len(k.twixts) = TwixtsIn(k.at)
      /\ Len(c.catches) - i = ClausesIn(k.at) + k.peers
      /\ \A j \in DOMAIN c.catches : i < j => Len(c.catches[j].at) <= Len(k.at)
  BY DEF Fits, InForce
<1>3. /\ Len(d.catches) = Len(c.catches) - i /\ IsOuter(d.catches, c.catches)
      /\ \A j \in 1..(Len(c.catches) - i) :
           d.catches[j] = c.catches[i + j] /\ i + j \in 1..Len(c.catches)
  BY DEF Leaving
<1>4. ASSUME NEW j \in DOMAIN d.catches  PROVE Len(d.catches[j].at) <= Len(d.at)
  <2>1. j \in 1..(Len(c.catches) - i)
    BY <1>1, <1>3
  <2>2. d.catches[j] = c.catches[i + j] /\ i + j \in DOMAIN c.catches
    BY <1>1, <1>3, <2>1
  <2>3. i < i + j
    BY <1>1, <2>1
  <2> QED BY <1>2, <2>2, <2>3
<1>5. Len(d.catches) = ClausesIn(d.at) + k.peers
  BY <1>2, <1>3
<1> QED BY <1>1, <1>2, <1>3, <1>4, <1>5, GoOut

LEMMA HandlerParts ==
  ASSUME NEW c \in Contexts, Fits(c, 0), NEW i \in DOMAIN c.catches,
         NEW k, k = c.catches[i], NEW r, r = Behind(c.catches, i)
  PROVE  /\ k.at \in Seq(Nat) /\ k.twixts \in Seq(Twixts) /\ k.peers \in Nat
         /\ IsOuter(k.twixts, c.twixts)
         /\ r \in Seq(Catches) /\ Leaving(Catches, c.catches, i, Len(c.catches) - i, r)
<1>1. /\ c.catches \in Seq(Catches) /\ Len(c.catches) \in Nat
      /\ DOMAIN c.catches = 1..Len(c.catches)
      /\ k.at \in Seq(Nat) /\ k.twixts \in Seq(Twixts) /\ k.peers \in Nat
  BY ContextType
<1>2. i \in Nat /\ Len(c.catches) - i \in Nat /\ Len(c.catches) = i + (Len(c.catches) - i)
  <2>1. DOMAIN c.catches = 1..Len(c.catches) /\ Len(c.catches) \in Nat
    BY <1>1
  <2>2. i \in 1..Len(c.catches)
    BY <2>1
  <2> QED BY <2>1, <2>2
<1>3. Leaving(Catches, c.catches, i, Len(c.catches) - i, r)
  BY <1>1, <1>2, BehindIs
<1>4. IsOuter(k.twixts, c.twixts)
  BY DEF Fits, InForce
<1> QED BY <1>1, <1>3, <1>4 DEF Leaving

\* OpUnwind drops them.
LEMMA GoOutUnwind ==
  ASSUME NEW c \in Contexts, NEW d \in Contexts, NEW n \in Nat, Fits(c, n),
         d.at = c.at, d.twixts = c.twixts,
         Leaving(Catches, c.catches, n, ClausesIn(c.at), d.catches)
  PROVE  Fits(d, 0)
<1>1. /\ c.at \in Seq(Nat) /\ c.twixts \in Seq(Twixts)
      /\ Len(c.catches) \in Nat /\ DOMAIN c.catches = 1..Len(c.catches)
      /\ DOMAIN d.catches = 1..Len(d.catches) /\ ClausesIn(c.at) \in Nat
  BY ContextType
<1>2. Len(c.twixts) = TwixtsIn(c.at)
  BY DEF Fits
<1>3. /\ Len(d.catches) = ClausesIn(c.at) /\ IsOuter(d.catches, c.catches)
      /\ \A j \in 1..ClausesIn(c.at) :
           d.catches[j] = c.catches[n + j] /\ n + j \in 1..Len(c.catches)
  BY DEF Leaving
<1>4. ASSUME NEW j \in DOMAIN d.catches  PROVE Len(d.catches[j].at) <= Len(d.at)
  <2>1. d.catches[j] = c.catches[n + j] /\ n + j \in DOMAIN c.catches
    BY <1>1, <1>3
  <2>2. IsOuter(c.catches[n + j].at, c.at)
    BY <2>1 DEF Fits, InForce
  <2> QED BY <2>1, <2>2 DEF IsOuter
<1>5. Len(d.catches) = ClausesIn(d.at) + 0 /\ IsOuter(d.at, c.at) /\ IsOuter(d.twixts, c.twixts)
  BY <1>1, <1>3, OuterOrder
<1> QED BY <1>2, <1>3, <1>4, <1>5, GoOut

LEMMA UnwindParts ==
  ASSUME NEW c \in Contexts, NEW n \in Nat, Fits(c, n), NEW r, r = Behind(c.catches, n)
  PROVE  r \in Seq(Catches) /\ Leaving(Catches, c.catches, n, ClausesIn(c.at), r)
<1>1. c.catches \in Seq(Catches) /\ ClausesIn(c.at) \in Nat
  BY ContextType
<1>2. Len(c.catches) = n + ClausesIn(c.at)
  BY <1>1 DEF Fits
<1>3. Leaving(Catches, c.catches, n, ClausesIn(c.at), r)
  BY <1>1, <1>2, BehindIs
<1> QED BY <1>3 DEF Leaving

\* In a twixt statement
LEMMA GoInTwixt ==
  ASSUME NEW c \in Contexts, NEW d \in Contexts, Fits(c, 0), NEW x \in Twixts,
         Linking(Nat, 0, c.at, d.at), Linking(Twixts, x, c.twixts, d.twixts),
         d.catches = c.catches
  PROVE  Fits(d, 0)
<1>1. /\ c.catches \in Seq(Catches) /\ Len(c.catches) \in Nat /\ Len(c.twixts) \in Nat
      /\ TwixtsIn(c.at) \in Nat /\ ClausesIn(c.at) \in Nat
      /\ Len(c.twixts) = TwixtsIn(c.at) /\ Len(c.catches) = ClausesIn(c.at) + 0
  BY ContextType DEF Fits
<1>2. /\ d.at \in Seq(Nat) /\ d.at # <<>> /\ Head(d.at) = 0 /\ Tail(d.at) = c.at
      /\ IsOuter(c.at, d.at) /\ IsOuter(c.twixts, d.twixts)
  BY DEF Linking
<1>3. Len(d.twixts) = Len(c.twixts) + 1
  BY DEF Linking
<1>4. TwixtsIn(d.at) = 1 + TwixtsIn(c.at) /\ ClausesIn(d.at) = ClausesIn(c.at)
  BY <1>1, <1>2, CountFront
<1>5. Len(d.twixts) = TwixtsIn(d.at) /\ Len(d.catches) = ClausesIn(d.at)
  BY <1>1, <1>3, <1>4
<1>6. IsOuter(c.catches, d.catches)
  BY <1>1, OuterOrder
<1>7. 1..(Len(d.catches) - Len(c.catches)) = {}
  BY <1>1
<1> QED BY <1>2, <1>5, <1>6, <1>7, GoIn

\* ... and in a try statement.
LEMMA HandlersIs ==
  ASSUME NEW es \in Clauses, cont \in Contexts
  PROVE  /\ Handlers(es) \in Seq(Catches) /\ Len(Handlers(es)) = Len(es)
         /\ Len(es) \in Nat \ {0}
         /\ \A i \in 1..Len(es) :
              /\ Handlers(es)[i].at = cont.at /\ Handlers(es)[i].twixts = cont.twixts
              /\ Handlers(es)[i].peers = Len(es) - i
<1>1. cont.at \in Seq(Nat) /\ cont.twixts \in Seq(Twixts)
  BY ContextType
<1>2. /\ es \in Seq(Exceptions) /\ Len(es) \in Nat \ {0} /\ DOMAIN es = 1..Len(es)
      /\ \A i \in 1..Len(es) : es[i] \in Exceptions
  BY JumpsConstants, LenProperties, EmptySeq, ElementOfSeq
<1>3. ASSUME NEW i \in 1..Len(es)
      PROVE  /\ Handlers(es)[i] \in Catches
             /\ Handlers(es)[i].at = cont.at /\ Handlers(es)[i].twixts = cont.twixts
             /\ Handlers(es)[i].peers = Len(es) - i
  <2>1. Len(es) + 1 - i \in 1..Len(es) /\ Len(es) - i \in Nat
    BY <1>2
  <2>2. es[Len(es) + 1 - i] \in Exceptions
    BY <1>2, <2>1
  <2>3. Handlers(es)[i] = Catch(es[Len(es) + 1 - i], Len(es) - i)
    BY <1>2 DEF Handlers
  <2> QED BY <1>1, <2>1, <2>2, <2>3 DEF Catch, Catches
<1>4. Handlers(es) \in [1..Len(es) -> Catches]
  BY <1>2, <1>3 DEF Handlers
<1>5. Handlers(es) \in Seq(Catches) /\ Len(Handlers(es)) = Len(es)
  <2> PICK h : h = Handlers(es)
    OBVIOUS
  <2>1. h \in [1..Len(es) -> Catches] /\ Len(es) \in Nat
    BY <1>2, <1>4
  <2>2. h \in Seq(Catches) /\ Len(h) = Len(es)
    BY <2>1
  <2> QED BY <2>2
<1> QED BY <1>2, <1>3, <1>5

\* s has the links h in front of the chain r.
Joining(S, h, r, s) ==
  /\ s \in Seq(S) /\ Len(s) = Len(h) + Len(r) /\ Len(r) \in Nat /\ IsOuter(r, s)
  /\ \A i \in 1..Len(h) : s[i] = h[i]

LEMMA JoinIs ==
  ASSUME NEW S, NEW h \in Seq(S), NEW r \in Seq(S), NEW s, s = h \o r
  PROVE  Joining(S, h, r, s)
<1>1. /\ s \in Seq(S) /\ Len(s) = Len(h) + Len(r) /\ Len(r) \in Nat /\ Len(h) \in Nat
      /\ \A i \in 1..(Len(h) + Len(r)) : s[i] = IF i <= Len(h) THEN h[i] ELSE r[i - Len(h)]
  BY ConcatProperties, LenProperties
<1>2. \A i \in 1..Len(r) : r[i] = s[Len(s) - Len(r) + i]
  BY <1>1
<1>3. IsOuter(r, s)
  <2>1. Len(r) <= Len(s)
    BY <1>1
  <2> QED BY <1>1, <1>2, <2>1, IsOuterIs
<1>4. \A i \in 1..Len(h) : s[i] = h[i]
  BY <1>1
<1> QED BY <1>1, <1>3, <1>4 DEF Joining

LEMMA GoInTry ==
  ASSUME NEW es \in Clauses, cont \in Contexts, Fits(cont, 0), NEW d \in Contexts,
         Linking(Nat, Len(es), cont.at, d.at), d.twixts = cont.twixts,
         Joining(Catches, Handlers(es), cont.catches, d.catches)
  PROVE  Fits(d, 0)
<1>1. /\ Len(cont.catches) \in Nat /\ Len(cont.twixts) \in Nat
      /\ cont.twixts \in Seq(Twixts)
      /\ TwixtsIn(cont.at) \in Nat /\ ClausesIn(cont.at) \in Nat
      /\ Len(cont.twixts) = TwixtsIn(cont.at) /\ Len(cont.catches) = ClausesIn(cont.at) + 0
  BY ContextType DEF Fits
<1>2. /\ d.at \in Seq(Nat) /\ d.at # <<>> /\ Head(d.at) = Len(es) /\ Tail(d.at) = cont.at
      /\ IsOuter(cont.at, d.at)
  BY DEF Linking
<1>3. /\ Len(d.catches) = Len(es) + Len(cont.catches) /\ IsOuter(cont.catches, d.catches)
      /\ \A i \in 1..Len(es) : d.catches[i] = Handlers(es)[i]
  BY HandlersIs DEF Joining
<1>4. Len(es) \in Nat \ {0}
  BY HandlersIs
<1>5. TwixtsIn(d.at) = TwixtsIn(cont.at) /\ ClausesIn(d.at) = Len(es) + ClausesIn(cont.at)
  <2>1. /\ TwixtsIn(d.at) = (IF Head(d.at) = 0 THEN 1 ELSE 0) + TwixtsIn(Tail(d.at))
        /\ ClausesIn(d.at) = Head(d.at) + ClausesIn(Tail(d.at))
    BY <1>2, CountFront
  <2>2. Head(d.at) = Len(es) /\ Head(d.at) # 0 /\ Tail(d.at) = cont.at
    BY <1>2, <1>4
  <2>3. TwixtsIn(d.at) = 0 + TwixtsIn(cont.at)
    BY <2>1, <2>2
  <2> QED BY <1>1, <2>1, <2>2, <2>3
<1>6. Len(d.twixts) = TwixtsIn(d.at) /\ Len(d.catches) = ClausesIn(d.at)
  BY <1>1, <1>3, <1>4, <1>5
<1>7. ASSUME NEW i \in 1..(Len(d.catches) - Len(cont.catches))
      PROVE  /\ d.catches[i].at = cont.at /\ d.catches[i].twixts = cont.twixts
             /\ Len(d.catches) - i = ClausesIn(cont.at) + d.catches[i].peers
  <2>1. i \in 1..Len(es)
    BY <1>1, <1>3, <1>4
  <2>2. /\ d.catches[i].at = cont.at /\ d.catches[i].twixts = cont.twixts
        /\ d.catches[i].peers = Len(es) - i
    BY <1>3, <2>1, HandlersIs
  <2>3. Len(d.catches) - i = ClausesIn(cont.at) + (Len(es) - i)
    BY <1>1, <1>3, <1>4, <2>1
  <2> QED BY <2>2, <2>3
<1>8. IsOuter(cont.twixts, d.twixts)
  BY <1>1, OuterOrder
<1> QED BY <1>2, <1>3, <1>6, <1>7, <1>8, GoIn

\* The end of a try statement
LEMMA TryParts ==
  ASSUME NEW c \in Contexts, Fits(c, 0), c.at # <<>>, Head(c.at) > 0,
         NEW r, r = Behind(c.catches, Head(c.at))
  PROVE  /\ Tail(c.at) \in Seq(Nat) /\ IsOuter(Tail(c.at), c.at)
         /\ r \in Seq(Catches) /\ Len(r) = ClausesIn(Tail(c.at)) /\ IsOuter(r, c.catches)
         /\ Len(c.twixts) = TwixtsIn(Tail(c.at)) /\ IsOuter(c.twixts, c.twixts)
<1>1. /\ c.at \in Seq(Nat) /\ c.catches \in Seq(Catches) /\ c.twixts \in Seq(Twixts)
      /\ Len(c.twixts) = TwixtsIn(c.at) /\ Len(c.catches) = ClausesIn(c.at) + 0
      /\ ClausesIn(c.at) \in Nat
  BY ContextType DEF Fits
<1>2. /\ Head(c.at) \in Nat \ {0} /\ Tail(c.at) \in Seq(Nat) /\ IsOuter(Tail(c.at), c.at)
  BY <1>1, Rest
<1>3. ClausesIn(Tail(c.at)) \in Nat /\ TwixtsIn(Tail(c.at)) \in Nat
  BY <1>2, CountType
<1>4. /\ TwixtsIn(c.at) = TwixtsIn(Tail(c.at))
      /\ ClausesIn(c.at) = Head(c.at) + ClausesIn(Tail(c.at))
  BY <1>1, <1>2, <1>3, CountFront
<1>5. Len(c.catches) = Head(c.at) + ClausesIn(Tail(c.at))
  BY <1>1, <1>4
<1>6. Leaving(Catches, c.catches, Head(c.at), ClausesIn(Tail(c.at)), r)
  BY <1>1, <1>2, <1>3, <1>5, BehindIs
<1> QED BY <1>1, <1>2, <1>4, <1>6, OuterOrder DEF Leaving

\* ... and of a twixt statement.
LEMMA TwixtParts ==
  ASSUME NEW c \in Contexts, Fits(c, 0), c.at # <<>>, Head(c.at) = 0
  PROVE  /\ Tail(c.at) \in Seq(Nat) /\ IsOuter(Tail(c.at), c.at)
         /\ c.twixts # <<>> /\ Tail(c.twixts) \in Seq(Twixts)
         /\ IsOuter(Tail(c.twixts), c.twixts) /\ Len(Tail(c.twixts)) = TwixtsIn(Tail(c.at))
         /\ IsOuter(c.catches, c.catches) /\ Len(c.catches) = ClausesIn(Tail(c.at))
<1>1. /\ c.at \in Seq(Nat) /\ c.catches \in Seq(Catches) /\ c.twixts \in Seq(Twixts)
      /\ Len(c.twixts) = TwixtsIn(c.at) /\ Len(c.catches) = ClausesIn(c.at) + 0
      /\ ClausesIn(c.at) \in Nat
  BY ContextType DEF Fits
<1>2. Tail(c.at) \in Seq(Nat) /\ IsOuter(Tail(c.at), c.at)
  BY <1>1, Rest
<1>3. ClausesIn(Tail(c.at)) \in Nat /\ TwixtsIn(Tail(c.at)) \in Nat
  BY <1>2, CountType
<1>4. /\ TwixtsIn(c.at) = 1 + TwixtsIn(Tail(c.at))
      /\ ClausesIn(c.at) = ClausesIn(Tail(c.at))
  BY <1>1, <1>3, CountFront
<1>5. Len(c.twixts) = 1 + TwixtsIn(Tail(c.at)) /\ Len(c.catches) = ClausesIn(Tail(c.at))
  BY <1>1, <1>4
<1>6. c.twixts # <<>>
  BY <1>3, <1>5, EmptySeq
<1>7. /\ Tail(c.twixts) \in Seq(Twixts) /\ IsOuter(Tail(c.twixts), c.twixts)
      /\ Len(Tail(c.twixts)) = Len(c.twixts) - 1
  BY <1>1, <1>6, Rest
<1>8. Len(Tail(c.twixts)) = TwixtsIn(Tail(c.at))
  BY <1>3, <1>5, <1>7
<1> QED BY <1>1, <1>2, <1>5, <1>6, <1>7, <1>8, OuterOrder

-----------------------------------------------------------------------------
(* Linked twixts: the stored chain of each is the rest of the chain it is in *)

Linked(store, s) ==
  \A i \in DOMAIN s : /\ store[s[i]].twixts = Outer(s, Len(s) - i)
                      /\ Fits(store[s[i]], 0)

LEMMA OuterOfOuter ==
  ASSUME NEW S, NEW s \in Seq(S), NEW p \in Seq(S), IsOuter(p, s), NEW n \in 0..Len(p)
  PROVE  Outer(p, n) = Outer(s, n)
<1>1. /\ Len(s) \in Nat /\ Len(p) \in Nat /\ Len(p) <= Len(s)
      /\ \A i \in 1..Len(p) : p[i] = s[Len(s) - Len(p) + i]
  BY OuterLinks DEF Sharing
<1>2. n \in 0..Len(s)
  BY <1>1
<1>3. /\ Outer(p, n) \in Seq(S) /\ Len(Outer(p, n)) = n
      /\ \A i \in 1..n : Outer(p, n)[i] = p[Len(p) - n + i]
  BY OuterIs
<1>4. /\ Outer(s, n) \in Seq(S) /\ Len(Outer(s, n)) = n
      /\ \A i \in 1..n : Outer(s, n)[i] = s[Len(s) - n + i]
  BY <1>2, OuterIs
<1>5. ASSUME NEW i \in 1..n  PROVE Outer(p, n)[i] = Outer(s, n)[i]
  <2>1. /\ Len(p) - n + i \in 1..Len(p)
        /\ Len(s) - Len(p) + (Len(p) - n + i) = Len(s) - n + i
    BY <1>1
  <2> QED BY <1>1, <1>3, <1>4, <2>1
<1> QED BY <1>3, <1>4, <1>5, SeqEqual

LEMMA LinkedOuter ==
  ASSUME NEW store, NEW s \in Seq(Twixts), NEW p \in Seq(Twixts), IsOuter(p, s),
         Linked(store, s)
  PROVE  Linked(store, p)
<1>1. /\ Len(s) \in Nat /\ Len(p) \in Nat /\ Len(p) <= Len(s)
      /\ \A i \in 1..Len(p) : p[i] = s[Len(s) - Len(p) + i]
  BY OuterLinks DEF Sharing
<1>2. DOMAIN s = 1..Len(s) /\ DOMAIN p = 1..Len(p)
  BY LenProperties
<1>3. ASSUME NEW i \in 1..Len(p)
      PROVE  store[p[i]].twixts = Outer(p, Len(p) - i) /\ Fits(store[p[i]], 0)
  <2>1. PICK k : k = Len(s) - Len(p) + i
    OBVIOUS
  <2>2. k \in 1..Len(s) /\ Len(s) - k = Len(p) - i /\ p[i] = s[k]
    BY <1>1, <2>1
  <2>3. store[s[k]].twixts = Outer(s, Len(s) - k) /\ Fits(store[s[k]], 0)
    BY <1>2, <2>2 DEF Linked
  <2>4. Len(p) - i \in 0..Len(p)
    BY <1>1
  <2>5. Outer(p, Len(p) - i) = Outer(s, Len(p) - i)
    BY <2>4, OuterOfOuter
  <2> QED BY <2>2, <2>3, <2>5
<1> QED BY <1>2, <1>3 DEF Linked

LEMMA LinkedHead ==
  ASSUME NEW store, NEW s \in Seq(Twixts), s # <<>>, Linked(store, s)
  PROVE  /\ store[Head(s)].twixts = Tail(s) /\ Fits(store[Head(s)], 0)
         /\ Linked(store, Tail(s))
<1>1. /\ Head(s) = s[1] /\ Tail(s) \in Seq(Twixts) /\ Len(s) \in Nat \ {0}
      /\ IsOuter(Tail(s), s) /\ Tail(s) = Outer(s, Len(s) - 1)
  BY Rest
<1>2. 1 \in DOMAIN s
  BY <1>1, LenProperties
<1>3. store[s[1]].twixts = Outer(s, Len(s) - 1) /\ Fits(store[s[1]], 0)
  BY <1>2 DEF Linked
<1> QED BY <1>1, <1>3, LinkedOuter

LEMMA LinkedFront ==
  ASSUME NEW store, NEW r \in Seq(Twixts), NEW x \in Twixts, NEW s,
         Linking(Twixts, x, r, s), Linked(store, r), store[x].twixts = r, Fits(store[x], 0)
  PROVE  Linked(store, s)
<1>1. /\ s \in Seq(Twixts) /\ s # <<>> /\ Len(s) = Len(r) + 1 /\ Len(r) \in Nat
      /\ s[1] = x /\ \A i \in 1..Len(r) : s[i + 1] = r[i]
      /\ Tail(s) = r /\ IsOuter(r, s)
  BY DEF Linking
<1>2. DOMAIN s = 1..Len(s) /\ DOMAIN r = 1..Len(r)
  BY <1>1, LenProperties
<1>3. ASSUME NEW i \in 1..Len(s)
      PROVE  store[s[i]].twixts = Outer(s, Len(s) - i) /\ Fits(store[s[i]], 0)
  <2>1. CASE i = 1
    <3>1. Outer(s, Len(s) - 1) = r
      BY <1>1, Rest
    <3> QED BY <1>1, <2>1, <3>1
  <2>2. CASE i # 1
    <3>1. PICK k : k = i - 1
      OBVIOUS
    <3>2. k \in 1..Len(r) /\ i = k + 1 /\ Len(s) - i = Len(r) - k /\ Len(r) - k \in 0..Len(r)
      BY <1>1, <2>2, <3>1
    <3>3. store[r[k]].twixts = Outer(r, Len(r) - k) /\ Fits(store[r[k]], 0)
      BY <1>2, <3>2 DEF Linked
    <3>4. s[i] = r[k]
      BY <1>1, <3>2
    <3>5. Outer(r, Len(r) - k) = Outer(s, Len(r) - k)
      BY <1>1, <3>2, OuterOfOuter
    <3> QED BY <3>2, <3>3, <3>4, <3>5
  <2> QED BY <2>1, <2>2
<1> QED BY <1>2, <1>3 DEF Linked

LEMMA LinkedNone == ASSUME NEW store PROVE Linked(store, <<>>)
BY DEF Linked

\* Other twixts do not matter to a chain.
LEMMA LinkedFrame ==
  ASSUME NEW s \in Seq(Twixts), NEW store, NEW store2, Linked(store, s),
         \A x \in ToSet(s) : store2[x] = store[x]
  PROVE  Linked(store2, s)
BY DEF Linked, ToSet

\* No twixt is in a chain twice.
LEMMA LinkedOnce ==
  ASSUME NEW store, NEW s \in Seq(Twixts), s # <<>>, Linked(store, s)
  PROVE  Head(s) \notin ToSet(Tail(s))
<1>1. /\ Head(s) = s[1] /\ Len(s) \in Nat \ {0} /\ Tail(s) \in Seq(Twixts)
      /\ Len(Tail(s)) = Len(s) - 1 /\ IsOuter(Tail(s), s)
  BY Rest
<1>2. /\ Linked(store, Tail(s)) /\ store[Head(s)].twixts = Tail(s)
  BY LinkedHead
<1> SUFFICES ASSUME Head(s) \in ToSet(Tail(s))  PROVE FALSE
  OBVIOUS
<1>3. PICK i \in DOMAIN Tail(s) : Tail(s)[i] = Head(s)
  BY DEF ToSet
<1>4. i \in 1..Len(Tail(s)) /\ Len(Tail(s)) \in Nat
  BY <1>1, LenProperties
<1>5. store[Head(s)].twixts = Outer(Tail(s), Len(Tail(s)) - i)
  BY <1>2, <1>3 DEF Linked
<1>6. Len(Tail(s)) - i \in 0..Len(Tail(s)) /\ Len(Tail(s)) - i # Len(Tail(s))
  BY <1>4
<1>7. Len(Outer(Tail(s), Len(Tail(s)) - i)) = Len(Tail(s)) - i
  BY <1>1, <1>6, OuterIs
<1> QED BY <1>2, <1>5, <1>6, <1>7

-----------------------------------------------------------------------------
(* JumpStart *)

LEMMA Least ==
  ASSUME NEW S \in SUBSET Nat, S # {}
  PROVE  \E i \in S : \A j \in S : i <= j
<1> DEFINE upto(i) == {j \in S : j <= i}
           U == {upto(i) : i \in S}
<1>1. \A j \in S : j \in Nat
  OBVIOUS
<1>2. ASSUME NEW i \in S  PROVE upto(i) \in FiniteSubsetsOf(S)
  <2>1. i \in Nat /\ \A j \in S : j <= i => j \in 0..i
    BY <1>1
  <2>2. upto(i) \subseteq 0..i
    BY <2>1
  <2>3. IsFiniteSet(0..i)
    BY <2>1, FS_Interval
  <2> HIDE DEF upto
  <2>4. IsFiniteSet(upto(i))
    BY <2>2, <2>3, FS_Subset
  <2> QED BY <2>4 DEF FiniteSubsetsOf, upto
<1>3. PICK m \in U : \A u \in U : ~ (<<u, m>> \in StrictSubsetOrdering(S))
  <2>1. U \subseteq FiniteSubsetsOf(S) /\ U # {}
    BY <1>2
  <2> HIDE DEF U
  <2> QED BY <2>1, FS_StrictSubsetOrderingWellFounded, WFMin, Zenon
<1>4. PICK i \in S : m = upto(i)
  BY <1>3
<1>5. ASSUME NEW j \in S, j < i  PROVE FALSE
  <2>1. (\A x \in S : x <= j => x <= i) /\ i <= i /\ ~ (i <= j)
    BY <1>1, <1>5
  <2>2. upto(j) \subseteq upto(i) /\ i \in upto(i) /\ i \notin upto(j)
    BY <2>1
  <2>3. <<upto(j), upto(i)>> \in StrictSubsetOrdering(S)
    BY <2>2 DEF StrictSubsetOrdering
  <2> QED BY <1>3, <1>4, <2>3
<1> QED BY <1>1, <1>5

LEMMA Greatest ==
  ASSUME NEW l \in Nat, NEW S \in SUBSET (0..l), S # {}
  PROVE  \E i \in S : \A j \in S : j <= i
<1> DEFINE T == {l - i : i \in S}
<1>1. \A i \in S : i \in 0..l /\ l - i \in Nat
  OBVIOUS
<1>2. T \in SUBSET Nat /\ T # {}
  BY <1>1
<1>3. PICK k \in T : \A j \in T : k <= j
  <2> HIDE DEF T
  <2> QED BY <1>2, Least
<1>4. PICK i \in S : k = l - i
  OBVIOUS
<1>5. ASSUME NEW j \in S  PROVE j <= i
  <2>1. l - i <= l - j
    BY <1>3, <1>4
  <2> QED BY <1>1, <2>1
<1> QED BY <1>5

\* JumpStart finds the innermost twixt that both chains have.
LEMMA ParentIs ==
  ASSUME NEW s \in Seq(Twixts), NEW e \in Seq(Twixts), NEW p, p = CommonParent(s, e)
  PROVE  /\ p \in Seq(Twixts) /\ IsOuter(p, s) /\ IsOuter(p, e)
         /\ p = s => IsOuter(s, e)
         /\ IsOuter(e, s) => p = e
<1> DEFINE shared == {n \in 0..Len(s) : n <= Len(e) /\ Outer(s, n) = Outer(e, n)}
           P(n) == n \in shared /\ \A m \in shared : m <= n
           k == CHOOSE n : P(n)
<1>1. Len(s) \in Nat /\ Len(e) \in Nat
  BY LenProperties
<1>2. \A n \in shared : n \in 0..Len(s) /\ n \in 0..Len(e) /\ Outer(s, n) = Outer(e, n)
  BY <1>1
<1>3. 0 \in shared
  <2>1. 0 \in 0..Len(s) /\ 0 <= Len(e) /\ 0 \in 0..Len(e)
    BY <1>1
  <2>2. /\ Outer(s, 0) \in Seq(Twixts) /\ Len(Outer(s, 0)) = 0
        /\ Outer(e, 0) \in Seq(Twixts) /\ Len(Outer(e, 0)) = 0
    BY <2>1, OuterIs
  <2>3. Outer(s, 0) = <<>> /\ Outer(e, 0) = <<>>
    BY <2>2, EmptySeq
  <2> QED BY <2>1, <2>3
<1>4. shared \in SUBSET (0..Len(s)) /\ shared # {}
  BY <1>3
<1> HIDE DEF shared
<1>5. \E n : P(n)
  BY <1>1, <1>4, Greatest
<1>6. P(k)
  BY <1>5
<1>7. p = Outer(s, k)
  BY DEF CommonParent, shared
<1> HIDE DEF k
<1>8. k \in shared /\ \A m \in shared : m <= k
  BY <1>6
<1> HIDE DEF P
<1>9. k \in 0..Len(s) /\ k \in 0..Len(e) /\ p = Outer(e, k)
  BY <1>2, <1>7, <1>8
<1>10. p \in Seq(Twixts) /\ Len(p) = k
  BY <1>7, <1>9, OuterIs
<1>11. IsOuter(p, s) /\ IsOuter(p, e)
  BY <1>7, <1>9, OuterIsOuter
<1>12. ASSUME IsOuter(e, s)  PROVE p = e
  <2>1. Len(e) <= Len(s) /\ Outer(s, Len(e)) = e
    BY <1>12 DEF IsOuter
  <2>2. Outer(e, Len(e)) = e
    BY OuterOrder DEF IsOuter
  <2>3. Len(e) \in shared
    BY <1>1, <2>1, <2>2 DEF shared
  <2>4. k = Len(e)
    BY <1>1, <1>8, <1>9, <2>3
  <2> QED BY <1>7, <2>1, <2>4
<1> QED BY <1>10, <1>11, <1>12

LEMMA NextIs ==
  ASSUME NEW p \in Seq(Twixts), NEW e \in Seq(Twixts), IsOuter(p, e),
         NEW n, n = TwixtNext(p, e)
  PROVE  /\ n \in Seq(Twixts) /\ IsOuter(n, e) /\ (n = <<>> <=> p = e)
         /\ n # <<>> => Tail(n) = p /\ n = Cons(Head(n), p) /\ Head(n) \in Twixts
<1>1. Len(p) \in Nat /\ Len(e) \in Nat /\ Len(p) <= Len(e)
  BY LenProperties DEF IsOuter
<1>2. CASE p = e
  <2>1. n = <<>>
    BY <1>2 DEF TwixtNext
  <2> QED BY <1>2, <2>1, OuterOrder, EmptySeq
<1>3. CASE p # e
  <2>1. n = Outer(e, Len(p) + 1)
    BY <1>3 DEF TwixtNext
  <2>2. Len(p) # Len(e)
    BY <1>3, OuterOrder
  <2>3. Len(p) + 1 \in 0..Len(e)
    BY <1>1, <2>2
  <2>4. n \in Seq(Twixts) /\ Len(n) = Len(p) + 1 /\ IsOuter(n, e)
    BY <2>1, <2>3, OuterIs, OuterIsOuter
  <2>5. n # <<>>
    BY <1>1, <2>4, EmptySeq
  <2>6. /\ Tail(n) \in Seq(Twixts) /\ IsOuter(Tail(n), n) /\ Len(Tail(n)) = Len(p)
        /\ n = Cons(Head(n), Tail(n)) /\ Head(n) \in Twixts
    <3>1. /\ Tail(n) \in Seq(Twixts) /\ IsOuter(Tail(n), n) /\ Len(Tail(n)) = Len(n) - 1
          /\ n = Cons(Head(n), Tail(n)) /\ Head(n) \in Twixts
      BY <2>4, <2>5, Rest
    <3> QED BY <1>1, <2>4, <3>1
  <2>7. IsOuter(Tail(n), e)
    BY <2>4, <2>6, OuterOrder
  <2>8. IsOuter(Tail(n), p)
    <3>1. Len(Tail(n)) <= Len(p)
      BY <1>1, <2>6
    <3> QED BY <2>6, <2>7, <3>1, OuterOrder
  <2>9. Tail(n) = p
    BY <2>6, <2>8, OuterOrder
  <2> QED BY <1>3, <2>4, <2>5, <2>6, <2>9
<1> QED BY <1>2, <1>3

-----------------------------------------------------------------------------
(* Jumps: the invariant of a jump that is under way *)

Pending(where, drop) == IF where = "handler" THEN drop ELSE 0

\* A place that a jump may go to.
Aim(store, to) ==
  /\ to \in Targets
  /\ Linked(store, to.context.twixts)
  /\ Fits(to.context, Pending(to.pc, to.nest))
  /\ to.pc = "dead" => to.context.twixts = <<>>

\* The jump j is where the twixts in `opened` have been entered and not left: on
\* the way out to the parent, or on the way in from there.
Under(store, j, opened) ==
  /\ Aim(store, j.to) /\ j.enter = j.to.context.twixts
  /\ IsOuter(j.parent, j.enter)
  /\ j.leave # <<>> =>
       /\ opened = j.leave /\ Linked(store, j.leave)
       /\ IsOuter(j.parent, j.leave) /\ j.parent # j.leave
       /\ j.entering = TwixtNext(j.parent, j.enter)
  /\ j.leave = <<>> =>
       /\ IsOuter(opened, j.enter)
       /\ j.entering = TwixtNext(opened, j.enter)

LEMMA JumpType ==
  ASSUME NEW j \in JumpObjects
  PROVE  /\ j.leave \in Seq(Twixts) /\ j.enter \in Seq(Twixts) /\ j.parent \in Seq(Twixts)
         /\ j.entering \in Seq(Twixts) /\ j.to \in Targets
         /\ j.to.context \in Contexts /\ j.to.nest \in Nat
         /\ j.to.pc \in {"body", "handler", "dead"}
         /\ j.to.context.twixts \in Seq(Twixts)
BY DEF JumpObjects, Targets, Contexts

LEMMA JumpLeaves ==
  ASSUME NEW j \in JumpObjects, NEW l \in Seq(Twixts), NEW k, k = [j EXCEPT !.leave = l]
  PROVE  /\ k \in JumpObjects /\ k.leave = l /\ k.enter = j.enter /\ k.parent = j.parent
         /\ k.entering = j.entering /\ k.to = j.to
BY DEF JumpObjects

LEMMA JumpEnters ==
  ASSUME NEW j \in JumpObjects, NEW l \in Seq(Twixts), NEW k, k = [j EXCEPT !.entering = l]
  PROVE  /\ k \in JumpObjects /\ k.leave = j.leave /\ k.enter = j.enter
         /\ k.parent = j.parent /\ k.entering = l /\ k.to = j.to
BY DEF JumpObjects

\* Out of the next twixt
LEMMA UnderLeave ==
  ASSUME NEW store \in [Twixts -> Contexts], NEW j \in JumpObjects,
         NEW opened \in Seq(Twixts), Under(store, j, opened), j.leave # <<>>,
         NEW up, up = store[Head(j.leave)].twixts,
         NEW k, k = [j EXCEPT !.leave = IF up = j.parent THEN <<>> ELSE up]
  PROVE  /\ Head(j.leave) \in Twixts /\ opened # <<>>
         /\ RemoveFirst(opened, Head(j.leave)) = Tail(opened)
         /\ Tail(opened) \in Seq(Twixts) /\ up = Tail(opened) /\ Linked(store, up)
         /\ Fits(store[Head(j.leave)], 0)
         /\ k \in JumpObjects /\ Under(store, k, Tail(opened))
<1>1. /\ j.leave \in Seq(Twixts) /\ j.enter \in Seq(Twixts) /\ j.parent \in Seq(Twixts)
      /\ <<>> \in Seq(Twixts)
  BY JumpType, EmptySeq
<1>2. /\ opened = j.leave /\ Linked(store, j.leave) /\ Aim(store, j.to)
      /\ j.enter = j.to.context.twixts /\ IsOuter(j.parent, j.enter)
      /\ IsOuter(j.parent, j.leave) /\ j.parent # j.leave
      /\ j.entering = TwixtNext(j.parent, j.enter)
  BY DEF Under
<1>3. /\ Head(j.leave) \in Twixts /\ Tail(j.leave) \in Seq(Twixts)
      /\ IsOuter(Tail(j.leave), j.leave) /\ Len(Tail(j.leave)) = Len(j.leave) - 1
      /\ RemoveFirst(j.leave, Head(j.leave)) = Tail(j.leave)
  BY <1>1, Rest, RemoveFront
<1>4. /\ up = Tail(j.leave) /\ Fits(store[Head(j.leave)], 0) /\ Linked(store, up)
  BY <1>1, <1>2, LinkedHead
<1>5. IsOuter(j.parent, up)
  <2>1. Len(j.parent) # Len(j.leave) /\ Len(j.parent) <= Len(j.leave)
        /\ Len(j.parent) \in Nat /\ Len(j.leave) \in Nat
    BY <1>1, <1>2, OuterOrder, LenProperties DEF IsOuter
  <2>2. Len(j.parent) <= Len(Tail(j.leave))
    BY <1>3, <2>1
  <2>3. IsOuter(j.parent, Tail(j.leave))
    BY <1>1, <1>2, <1>3, <2>2, OuterNest
  <2> QED BY <1>4, <2>3
<1> DEFINE l == IF up = j.parent THEN <<>> ELSE up
<1>6. l \in Seq(Twixts) /\ k = [j EXCEPT !.leave = l]
  BY <1>1, <1>3, <1>4
<1>7. up # j.parent => up # <<>> /\ l = up
  <2>1. up = <<>> => j.parent = up
    <3>1. up = <<>> => Len(j.parent) = 0
      BY <1>1, <1>5, EmptySeq, LenProperties DEF IsOuter
    <3> QED BY <1>1, <3>1, EmptySeq
  <2> QED BY <2>1
<1>8. up = j.parent => l = <<>>
  OBVIOUS
<1> HIDE DEF l
<1>9. /\ k \in JumpObjects /\ k.leave = l /\ k.enter = j.enter /\ k.parent = j.parent
      /\ k.entering = j.entering /\ k.to = j.to
  <2>1. k = [j EXCEPT !.leave = l] /\ l \in Seq(Twixts)
    BY <1>6
  <2> QED BY ONLY j \in JumpObjects, <2>1, JumpLeaves
<1>10. Under(store, k, up)
  <2>1. CASE up = j.parent
    BY <1>2, <1>8, <1>9, <2>1 DEF Under
  <2>2. CASE up # j.parent
    BY <1>2, <1>4, <1>5, <1>7, <1>9, <2>2 DEF Under
  <2> QED BY <2>1, <2>2
<1> QED BY <1>2, <1>3, <1>4, <1>9, <1>10

\* ... or into the next one
LEMMA UnderEnter ==
  ASSUME NEW store \in [Twixts -> Contexts], NEW j \in JumpObjects,
         NEW opened \in Seq(Twixts), Under(store, j, opened), j.leave = <<>>,
         j.entering # <<>>, NEW x, x = Head(j.entering),
         NEW k, k = [j EXCEPT !.entering = TwixtNext(j.entering, j.enter)]
  PROVE  /\ x \in Twixts /\ Linked(store, store[x].twixts) /\ Fits(store[x], 0)
         /\ k \in JumpObjects /\ k.leave = <<>>
         /\ Under(store, k, Cons(x, opened))
<1>1. j.enter \in Seq(Twixts) /\ j.entering \in Seq(Twixts)
  BY JumpType
<1>2. /\ IsOuter(opened, j.enter) /\ j.entering = TwixtNext(opened, j.enter)
      /\ Aim(store, j.to) /\ j.enter = j.to.context.twixts /\ Linked(store, j.enter)
      /\ IsOuter(j.parent, j.enter)
  BY DEF Under, Aim
<1>3. /\ IsOuter(j.entering, j.enter) /\ j.entering = Cons(x, opened) /\ x \in Twixts
      /\ Tail(j.entering) = opened
  BY <1>1, <1>2, NextIs
<1>4. Linked(store, j.entering)
  BY <1>1, <1>2, <1>3, LinkedOuter
<1>5. /\ store[x].twixts = Tail(j.entering) /\ Fits(store[x], 0)
      /\ Linked(store, Tail(j.entering))
  BY <1>1, <1>4, LinkedHead
<1>6. TwixtNext(j.entering, j.enter) \in Seq(Twixts)
  BY <1>1, <1>3, NextIs
<1>7. /\ k \in JumpObjects /\ k.leave = <<>> /\ k.enter = j.enter /\ k.parent = j.parent
      /\ k.entering = TwixtNext(j.entering, j.enter) /\ k.to = j.to
  BY <1>6, JumpEnters
<1>8. Under(store, k, Cons(x, opened))
  BY <1>2, <1>3, <1>7 DEF Under
<1> QED BY <1>3, <1>5, <1>7, <1>8

\* ... or there.
LEMMA UnderEnd ==
  ASSUME NEW store, NEW j \in JumpObjects, NEW opened \in Seq(Twixts),
         Under(store, j, opened), j.leave = <<>>, j.entering = <<>>
  PROVE  opened = j.to.context.twixts /\ Aim(store, j.to)
BY JumpType, NextIs DEF Under

-----------------------------------------------------------------------------
(* The inductive invariant *)

\* Programs whose jumps are well behaved: no exception is raised in an expression
\* that a jump runs, none between the instructions of a twixt statement, and longjmp
\* does not go further into twixts from inside another one.
Orderly == ~ Nested /\ ~ Inwards /\ Escapes \subseteq {"body", "enter", "leave"}

TypesOK ==
  /\ cont \in Contexts /\ saved \in [Twixts -> Contexts]
  /\ pc \in Points /\ block \in Twixts \cup {None} /\ nest \in Nat
  /\ jump \in JumpObjects \cup {None} /\ buffer \in Contexts \cup {None}
  /\ open \in Seq(Twixts)

ContOK == Linked(saved, cont.twixts) /\ Fits(cont, Pending(pc, nest))

BufferOK == buffer # None => Linked(saved, buffer.twixts) /\ Fits(buffer, 0)

\* Without a jump the twixts entered are those around the thread.
RestOK ==
  jump = None =>
    /\ pc \in {"body", "enter", "leave", "handler"} => open = cont.twixts
    /\ pc \in {"body", "enter", "handler"} => block = None
    /\ pc = "entered" => /\ block \in Twixts
                         /\ open = Cons(block, cont.twixts)
                         /\ block \notin ToSet(cont.twixts)
                         /\ buffer # None => block \notin ToSet(buffer.twixts)
    /\ pc = "dead" => open = <<>>

JumpOK ==
  jump # None =>
    /\ pc \in {"enter", "leave"}
    /\ pc = "leave" => Under(saved, jump, open)
    /\ pc = "enter" => /\ block \in Twixts /\ jump.leave = <<>>
                       /\ Under(saved, jump, Cons(block, open))

Inv == TypesOK /\ ContOK /\ BufferOK /\ RestOK /\ JumpOK

\* What a step of a jump does to the twixts that are open.
Ordered(opened) ==
  /\ pc' = "leave" => opened # <<>> /\ open' = Tail(opened)
  /\ pc' # "leave" => open' = opened

LEMMA Continues ==
  ASSUME TypesOK, BufferOK, NEW j \in JumpObjects, NEW opened \in Seq(Twixts),
         Under(saved, j, opened), JumpContinue(j, opened), UNCHANGED <<saved, buffer>>
  PROVE  Inv' /\ Ordered(opened) /\ (pc' = "leave" => j.leave # <<>>)
<1>1. /\ saved \in [Twixts -> Contexts] /\ buffer \in Contexts \cup {None}
      /\ saved' = saved /\ buffer' = buffer /\ BufferOK'
  BY DEF TypesOK, BufferOK
<1>2. CASE /\ j.leave # <<>>
           /\ LET x == Head(j.leave) up == saved[x].twixts IN
                /\ Evaluate(x, "leave")
                /\ jump' = [j EXCEPT !.leave = IF up = j.parent THEN <<>> ELSE up]
                /\ open' = RemoveFirst(opened, x)
  <2> DEFINE x == Head(j.leave)
  <2>1. /\ cont' = saved[x] /\ pc' = "leave" /\ block' = x /\ nest' = 0
        /\ jump' = [j EXCEPT !.leave = IF saved[x].twixts = j.parent THEN <<>>
                                       ELSE saved[x].twixts]
        /\ open' = RemoveFirst(opened, x)
    BY <1>2 DEF Evaluate
  <2>2. /\ x \in Twixts /\ opened # <<>> /\ open' = Tail(opened)
        /\ Tail(opened) \in Seq(Twixts) /\ Linked(saved, saved[x].twixts)
        /\ Fits(saved[x], 0) /\ jump' \in JumpObjects /\ Under(saved, jump', open')
    <3>1. PICK up, k : up = saved[x].twixts /\ k = jump'
      OBVIOUS
    <3>2. k = [j EXCEPT !.leave = IF up = j.parent THEN <<>> ELSE up]
      BY <2>1, <3>1
    <3>3. j.leave # <<>> /\ up = saved[Head(j.leave)].twixts
      BY <1>2, <3>1
    <3>4. /\ Head(j.leave) \in Twixts /\ opened # <<>>
          /\ RemoveFirst(opened, Head(j.leave)) = Tail(opened)
          /\ Tail(opened) \in Seq(Twixts) /\ Linked(saved, up)
          /\ Fits(saved[Head(j.leave)], 0)
          /\ k \in JumpObjects /\ Under(saved, k, Tail(opened))
      BY <1>1, <3>2, <3>3, UnderLeave
    <3> QED BY <2>1, <3>1, <3>4
  <2> HIDE DEF x
  <2>3. TypesOK'
    BY <1>1, <2>1, <2>2 DEF TypesOK, Points
  <2>4. ContOK'
    BY <1>1, <2>1, <2>2 DEF ContOK, Pending
  <2>5. RestOK' /\ JumpOK'
    BY <1>1, <2>1, <2>2, JumpsConstants DEF RestOK, JumpOK
  <2> QED BY <1>1, <1>2, <2>1, <2>2, <2>3, <2>4, <2>5 DEF Inv, Ordered
<1>3. CASE /\ j.leave = <<>> /\ j.entering # <<>>
           /\ Evaluate(Head(j.entering), "enter")
           /\ jump' = [j EXCEPT !.entering = TwixtNext(j.entering, j.enter)]
           /\ open' = opened
  <2> DEFINE x == Head(j.entering)
  <2>1. /\ cont' = saved[x] /\ pc' = "enter" /\ block' = x /\ nest' = 0
        /\ jump' = [j EXCEPT !.entering = TwixtNext(j.entering, j.enter)]
        /\ open' = opened
    BY <1>3 DEF Evaluate
  <2>2. /\ x \in Twixts /\ Linked(saved, saved[x].twixts) /\ Fits(saved[x], 0)
        /\ jump' \in JumpObjects /\ jump'.leave = <<>>
        /\ Under(saved, jump', Cons(x, opened))
    BY <1>1, <1>3, <2>1, UnderEnter
  <2> HIDE DEF x
  <2>3. TypesOK'
    BY <1>1, <2>1, <2>2 DEF TypesOK, Points
  <2>4. ContOK'
    BY <1>1, <2>1, <2>2 DEF ContOK, Pending
  <2>5. RestOK' /\ JumpOK'
    BY <1>1, <2>1, <2>2, JumpsConstants DEF RestOK, JumpOK
  <2> QED BY <1>1, <2>1, <2>3, <2>4, <2>5 DEF Inv, Ordered
<1>4. CASE /\ j.leave = <<>> /\ j.entering = <<>>
           /\ GoTo(j.to)
           /\ jump' = None
           /\ open' = opened
  <2>1. /\ cont' = j.to.context /\ pc' = j.to.pc /\ nest' = j.to.nest /\ block' = None
        /\ jump' = None /\ open' = opened
    BY <1>4 DEF GoTo
  <2>2. opened = j.to.context.twixts /\ Aim(saved, j.to)
    BY <1>4, UnderEnd
  <2>3. j.to.context \in Contexts /\ j.to.nest \in Nat /\ j.to.pc \in {"body", "handler", "dead"}
    BY JumpType
  <2>4. TypesOK'
    BY <1>1, <2>1, <2>3 DEF TypesOK, Points
  <2>5. ContOK'
    BY <1>1, <2>1, <2>2 DEF ContOK, Aim
  <2>6. RestOK' /\ JumpOK'
    BY <2>1, <2>2, <2>3 DEF RestOK, JumpOK, Aim
  <2> QED BY <1>1, <2>1, <2>3, <2>4, <2>5, <2>6 DEF Inv, Ordered
<1> QED BY <1>2, <1>3, <1>4 DEF JumpContinue

\* A jump begins, from a place without one.
LEMMA Starts ==
  ASSUME Inv, jump = None, pc \in {"body", "enter", "leave"}, NEW to, Aim(saved, to),
         cont.twixts # <<>> /\ IsOuter(cont.twixts, to.context.twixts)
           => cont.twixts = to.context.twixts,
         ContinuationJump(to)
  PROVE  Inv' /\ Ordered(open)
<1>1. /\ to \in Targets /\ to.context \in Contexts /\ to.nest \in Nat
      /\ to.pc \in {"body", "handler", "dead"} /\ to.context.twixts \in Seq(Twixts)
      /\ Linked(saved, to.context.twixts) /\ Fits(to.context, Pending(to.pc, to.nest))
      /\ to.pc = "dead" => to.context.twixts = <<>>
  BY DEF Aim, Targets, Contexts
<1>2. /\ TypesOK /\ BufferOK /\ open = cont.twixts /\ cont.twixts \in Seq(Twixts)
      /\ Linked(saved, cont.twixts)
  BY DEF Inv, RestOK, ContOK, TypesOK, Contexts
<1>3. saved' = saved /\ buffer' = buffer /\ BufferOK'
  BY <1>2 DEF ContinuationJump, BufferOK
<1>4. CASE cont.twixts = to.context.twixts
  <2>1. /\ cont' = to.context /\ pc' = to.pc /\ nest' = to.nest /\ block' = None
        /\ jump' = None /\ open' = open
    BY <1>4 DEF ContinuationJump, GoTo
  <2>2. TypesOK'
    BY <1>1, <1>2, <1>3, <2>1 DEF TypesOK, Points
  <2>3. ContOK'
    BY <1>1, <1>3, <2>1 DEF ContOK
  <2>4. RestOK' /\ JumpOK'
    BY <1>1, <1>2, <1>4, <2>1 DEF RestOK, JumpOK
  <2> QED BY <1>1, <1>3, <2>1, <2>2, <2>3, <2>4 DEF Inv, Ordered
<1>5. CASE cont.twixts # to.context.twixts
  <2> DEFINE p == CommonParent(cont.twixts, to.context.twixts)
             j == NewJump(cont.twixts, to.context.twixts, p, to)
  <2>1. JumpContinue(j, open)
    BY <1>5 DEF ContinuationJump
  <2>2. /\ p \in Seq(Twixts) /\ IsOuter(p, cont.twixts) /\ IsOuter(p, to.context.twixts)
        /\ p = cont.twixts => IsOuter(cont.twixts, to.context.twixts)
    BY <1>1, <1>2, ParentIs
  <2> HIDE DEF p
  <2>3. TwixtNext(p, to.context.twixts) \in Seq(Twixts)
    BY <1>1, <2>2, NextIs
  <2>4. /\ j \in JumpObjects /\ j.leave = cont.twixts /\ j.enter = to.context.twixts
        /\ j.parent = p /\ j.entering = TwixtNext(p, to.context.twixts) /\ j.to = to
    BY <1>1, <1>2, <2>2, <2>3 DEF NewJump, JumpObjects
  <2> HIDE DEF j
  <2>5. Under(saved, j, open)
    <3>1. CASE cont.twixts # <<>>
      <4>1. p # cont.twixts
        BY <1>5, <2>2, <3>1
      <4> QED BY <1>2, <2>2, <2>4, <3>1, <4>1 DEF Under
    <3>2. CASE cont.twixts = <<>>
      <4>1. p = <<>>
        <5>1. Len(p) = 0
          BY <2>2, <3>2, EmptySeq, LenProperties DEF IsOuter
        <5> QED BY <2>2, <5>1, EmptySeq
      <4> QED BY <1>2, <2>2, <2>4, <3>2, <4>1 DEF Under
    <3> QED BY <3>1, <3>2
  <2> QED BY <1>2, <1>3, <2>1, <2>4, <2>5, Continues DEF TypesOK
<1> QED BY <1>4, <1>5

\* ... further out.
LEMMA StartsOut ==
  ASSUME Inv, jump = None, pc \in {"body", "enter", "leave"}, NEW to, Aim(saved, to),
         IsOuter(to.context.twixts, cont.twixts), ContinuationJump(to)
  PROVE  Inv' /\ Ordered(open)
<1>1. cont.twixts \in Seq(Twixts) /\ to.context.twixts \in Seq(Twixts)
  BY DEF Inv, TypesOK, Contexts, Aim, Targets
<1>2. IsOuter(cont.twixts, to.context.twixts) => Len(cont.twixts) = Len(to.context.twixts)
  BY <1>1, LenProperties DEF IsOuter
<1>3. IsOuter(cont.twixts, to.context.twixts) => cont.twixts = to.context.twixts
  BY <1>1, <1>2, OuterOrder
<1> QED BY <1>3, Starts

LEMMA TargetIs ==
  ASSUME NEW c \in Contexts, NEW where \in {"body", "handler", "dead"}, NEW n \in Nat,
         NEW to, to = Target(c, where, n)
  PROVE  to \in Targets /\ to.context = c /\ to.pc = where /\ to.nest = n
BY DEF Target, Targets

\* The state of a thread that executes statements, or the expressions of a twixt
\* without a jump.
LEMMA AtRest ==
  ASSUME Inv, pc \in {"body", "enter", "leave"}, jump = None
  PROVE  /\ cont \in Contexts /\ cont.twixts \in Seq(Twixts) /\ open = cont.twixts
         /\ Linked(saved, cont.twixts) /\ Fits(cont, 0)
         /\ pc # "leave" => block = None
<1>1. cont \in Contexts /\ cont.twixts \in Seq(Twixts)
  BY DEF Inv, TypesOK, Contexts
<1>2. Pending(pc, nest) = 0
  BY DEF Pending
<1> QED BY <1>1, <1>2 DEF Inv, ContOK, RestOK

LEMMA BodyRests == ASSUME Inv, pc \in {"body", "entered", "handler", "dead"} PROVE jump = None
BY DEF Inv, JumpOK

\* What a step may do to the twixts that are open
StepOrdered ==
  /\ pc' = "leave" => open # <<>> /\ open' = Tail(open)
  /\ Len(open') > Len(open) => Head(open') \notin ToSet(open)

LEMMA OrderedSteps ==
  ASSUME open \in Seq(Twixts), Ordered(open)
  PROVE  StepOrdered
<1>1. CASE pc' = "leave"
  <2>1. open # <<>> /\ open' = Tail(open) /\ Len(open) \in Nat /\ Len(open') = Len(open) - 1
    BY <1>1, Rest DEF Ordered
  <2>2. ~ (Len(open') > Len(open))
    BY <2>1
  <2> QED BY <2>1, <2>2 DEF StepOrdered
<1>2. CASE pc' # "leave"
  <2>1. open' = open /\ Len(open) \in Nat
    BY <1>2, LenProperties DEF Ordered
  <2>2. ~ (Len(open') > Len(open))
    BY <2>1
  <2> QED BY <1>2, <2>2 DEF StepOrdered
<1> QED BY <1>1, <1>2

LEMMA SameOpen ==
  ASSUME open \in Seq(Twixts), open' = open, pc' # "leave"
  PROVE  StepOrdered
BY OrderedSteps DEF Ordered

-----------------------------------------------------------------------------
(* Every step keeps the invariant, and the order *)

LEMMA EnterKeeps == ASSUME Inv, Enter PROVE Inv' /\ StepOrdered
<1>1. pc = "body" /\ pc' = "enter" /\ UNCHANGED <<cont, block, nest, saved, jump, buffer, open>>
  BY DEF Enter, Deeper
<1>2. jump = None /\ TypesOK /\ BufferOK /\ open \in Seq(Twixts)
  BY <1>1, BodyRests DEF Inv, TypesOK
<1>3. open = cont.twixts /\ Linked(saved, cont.twixts) /\ Fits(cont, 0) /\ block = None
  BY <1>1, <1>2, AtRest
<1>4. TypesOK' /\ BufferOK'
  BY <1>1, <1>2 DEF TypesOK, BufferOK, Points
<1>5. ContOK'
  BY <1>1, <1>3 DEF ContOK, Pending
<1>6. RestOK' /\ JumpOK'
  BY <1>1, <1>2, <1>3 DEF RestOK, JumpOK
<1>7. StepOrdered
  BY <1>1, <1>2, SameOpen
<1> QED BY <1>4, <1>5, <1>6, <1>7 DEF Inv

LEMMA NewIs ==
  ASSUME Free # {}
  PROVE  /\ New \in Twixts /\ New \notin ToSet(cont.twixts) /\ New \notin ToSet(open)
         /\ buffer # None => New \notin ToSet(buffer.twixts)
<1>1. New \in Free
  BY DEF New
<1> QED BY <1>1 DEF Free

LEMMA EnterDoneKeeps == ASSUME Inv, EnterDone PROVE Inv' /\ StepOrdered
<1>1. /\ pc = "enter" /\ (block = None => Free # {}) /\ saved' = saved /\ buffer' = buffer
      /\ TypesOK /\ BufferOK /\ open \in Seq(Twixts)
  BY DEF EnterDone, Inv, TypesOK
<1>2. CASE jump = None
  <2>1. open = cont.twixts /\ Linked(saved, cont.twixts) /\ Fits(cont, 0) /\ block = None
    BY <1>1, <1>2, AtRest
  <2>2. /\ open' = Cons(New, open) /\ pc' = "entered" /\ block' = New
        /\ UNCHANGED <<cont, nest, jump>>
    BY <1>2, <2>1 DEF EnterDone
  <2>3. /\ New \in Twixts /\ New \notin ToSet(cont.twixts) /\ New \notin ToSet(open)
        /\ buffer # None => New \notin ToSet(buffer.twixts)
    BY <1>1, <2>1, NewIs
  <2>4. Linking(Twixts, New, open, open')
    BY <1>1, <2>2, <2>3, InFront
  <2>5. TypesOK'
    BY <1>1, <2>2, <2>3, <2>4 DEF TypesOK, Points, Linking
  <2>6. BufferOK' /\ ContOK'
    BY <1>1, <2>1, <2>2 DEF BufferOK, ContOK, Pending
  <2>7. RestOK' /\ JumpOK'
    BY <1>1, <1>2, <2>1, <2>2, <2>3 DEF RestOK, JumpOK
  <2>8. StepOrdered
    BY <2>2, <2>3, <2>4 DEF StepOrdered, Linking
  <2> QED BY <2>5, <2>6, <2>7, <2>8 DEF Inv
<1>3. CASE jump # None
  <2> DEFINE opened == Cons(block, open)
  <2>1. /\ jump \in JumpObjects /\ block \in Twixts /\ jump.leave = <<>>
        /\ Under(saved, jump, opened)
    BY <1>1, <1>3 DEF Inv, JumpOK, TypesOK
  <2>2. JumpContinue(jump, opened)
    BY <1>3, <2>1, JumpsConstants DEF EnterDone
  <2>3. Linking(Twixts, block, open, opened)
    BY <1>1, <2>1, InFront
  <2>4. opened \in Seq(Twixts) /\ opened # <<>> /\ Head(opened) = block /\ Tail(opened) = open
    BY <2>3 DEF Linking
  <2>5. IsOuter(opened, jump.enter) /\ Linked(saved, jump.enter) /\ jump.enter \in Seq(Twixts)
    BY <2>1, JumpType DEF Under, Aim
  <2> HIDE DEF opened
  <2>6. Linked(saved, opened)
    BY <2>4, <2>5, LinkedOuter
  <2>7. block \notin ToSet(open)
    BY <2>4, <2>6, LinkedOnce
  <2>8. Inv' /\ Ordered(opened) /\ (pc' = "leave" => jump.leave # <<>>)
    BY <1>1, <2>1, <2>2, <2>4, Continues
  <2>9. pc' # "leave" /\ open' = opened
    BY <2>1, <2>8 DEF Ordered
  <2>10. StepOrdered
    BY <2>4, <2>7, <2>9 DEF StepOrdered
  <2> QED BY <2>8, <2>10
<1> QED BY <1>2, <1>3

LEMMA TwixtKeeps == ASSUME Inv, Twixt PROVE Inv' /\ StepOrdered
<1> DEFINE store == [x \in Twixts |-> IF x = block THEN cont
                                      ELSE IF x \in Free THEN Top ELSE saved[x]]
<1>1. /\ pc = "entered" /\ saved' = store
      /\ cont' = Context(Cons(0, cont.at), Cons(block, cont.twixts), cont.catches)
      /\ pc' = "body" /\ block' = None
      /\ UNCHANGED <<nest, jump, buffer, open>>
  BY DEF Twixt
<1>2. /\ jump = None /\ block \in Twixts /\ open = Cons(block, cont.twixts)
      /\ block \notin ToSet(cont.twixts)
      /\ buffer # None => block \notin ToSet(buffer.twixts)
      /\ TypesOK /\ BufferOK /\ open \in Seq(Twixts)
  BY <1>1, BodyRests DEF Inv, RestOK, TypesOK
<1>3. /\ cont \in Contexts /\ cont.at \in Seq(Nat) /\ cont.twixts \in Seq(Twixts)
      /\ cont.catches \in Seq(Catches) /\ saved \in [Twixts -> Contexts]
      /\ buffer \in Contexts \cup {None}
  BY <1>2 DEF TypesOK, Contexts
<1>4. Linked(saved, cont.twixts) /\ Fits(cont, 0)
  BY <1>1 DEF Inv, ContOK, Pending
<1>5. store \in [Twixts -> Contexts] /\ store[block] = cont
  BY <1>2, <1>3, TopFits
<1>6. \A x \in ToSet(cont.twixts) : store[x] = saved[x]
  <2>1. ASSUME NEW x \in ToSet(cont.twixts)  PROVE x \in Twixts /\ x # block /\ x \notin Free
    <3>1. x \in Twixts
      BY <1>3, ElementOfSeq DEF ToSet
    <3>2. x # block
      BY <1>2
    <3>3. cont.twixts \in {cont.twixts, open}
      OBVIOUS
    <3> QED BY <3>1, <3>2, <3>3 DEF Free
  <2> QED BY <2>1
<1>7. buffer # None => \A x \in ToSet(buffer.twixts) : store[x] = saved[x]
  <2>1. ASSUME buffer # None, NEW x \in ToSet(buffer.twixts)
        PROVE  x \in Twixts /\ x # block /\ x \notin Free
    <3>1. buffer.twixts \in Seq(Twixts)
      BY <1>3, <2>1 DEF Contexts
    <3>2. x \in Twixts
      BY <2>1, <3>1, ElementOfSeq DEF ToSet
    <3> QED BY <1>2, <2>1, <3>2 DEF Free
  <2> QED BY <2>1
<1> HIDE DEF store
<1>8. Linking(Nat, 0, cont.at, Cons(0, cont.at))
      /\ Linking(Twixts, block, cont.twixts, Cons(block, cont.twixts))
  BY <1>2, <1>3, InFront
<1>9. /\ cont' \in Contexts /\ cont'.at = Cons(0, cont.at)
      /\ cont'.twixts = Cons(block, cont.twixts) /\ cont'.catches = cont.catches
  <2>1. Cons(0, cont.at) \in Seq(Nat) /\ Cons(block, cont.twixts) \in Seq(Twixts)
    BY <1>8 DEF Linking
  <2> QED BY <1>1, <1>3, <2>1, ContextIs
<1>10. Fits(cont', 0)
  BY <1>2, <1>3, <1>4, <1>8, <1>9, GoInTwixt
<1>11. Linked(store, cont'.twixts)
  <2>1. Linked(store, cont.twixts)
    BY <1>3, <1>4, <1>6, LinkedFrame
  <2> QED BY <1>2, <1>3, <1>4, <1>5, <1>8, <1>9, <2>1, LinkedFront
<1>12. ContOK'
  BY <1>1, <1>10, <1>11 DEF ContOK, Pending
<1>13. BufferOK'
  <2>1. ASSUME buffer # None  PROVE Linked(store, buffer.twixts) /\ Fits(buffer, 0)
    <3>1. buffer.twixts \in Seq(Twixts) /\ Linked(saved, buffer.twixts) /\ Fits(buffer, 0)
      BY <1>2, <1>3, <2>1 DEF BufferOK, Contexts
    <3> QED BY <1>7, <2>1, <3>1, LinkedFrame
  <2> QED BY <1>1, <2>1 DEF BufferOK
<1>14. TypesOK'
  BY <1>1, <1>2, <1>5, <1>9 DEF TypesOK, Points
<1>15. RestOK' /\ JumpOK'
  BY <1>1, <1>2, <1>9 DEF RestOK, JumpOK
<1>16. StepOrdered
  BY <1>1, <1>2, SameOpen
<1> QED BY <1>12, <1>13, <1>14, <1>15, <1>16 DEF Inv

LEMMA TwixtDoneKeeps == ASSUME Inv, TwixtDone PROVE Inv' /\ StepOrdered
<1>1. /\ pc = "body" /\ cont.at # <<>> /\ Head(cont.at) = 0
      /\ cont' = Context(Tail(cont.at), Tail(cont.twixts), cont.catches)
      /\ pc' = "leave" /\ block' = Head(cont.twixts)
      /\ open' = RemoveFirst(open, Head(cont.twixts))
      /\ UNCHANGED <<nest, saved, jump, buffer>>
  BY DEF TwixtDone
<1>2. jump = None /\ TypesOK /\ BufferOK /\ open \in Seq(Twixts)
  BY <1>1, BodyRests DEF Inv, TypesOK
<1>3. /\ cont \in Contexts /\ cont.twixts \in Seq(Twixts) /\ open = cont.twixts
      /\ Linked(saved, cont.twixts) /\ Fits(cont, 0)
  BY <1>1, <1>2, AtRest
<1>4. /\ Tail(cont.at) \in Seq(Nat) /\ IsOuter(Tail(cont.at), cont.at)
      /\ cont.twixts # <<>> /\ Tail(cont.twixts) \in Seq(Twixts)
      /\ IsOuter(Tail(cont.twixts), cont.twixts)
      /\ Len(Tail(cont.twixts)) = TwixtsIn(Tail(cont.at))
      /\ IsOuter(cont.catches, cont.catches) /\ Len(cont.catches) = ClausesIn(Tail(cont.at))
  BY <1>1, <1>3, TwixtParts
<1>5. cont.catches \in Seq(Catches)
  BY <1>3, ContextType
<1>6. /\ cont' \in Contexts /\ cont'.at = Tail(cont.at) /\ cont'.twixts = Tail(cont.twixts)
      /\ cont'.catches = cont.catches
  <2>1. PICK a, t : a = Tail(cont.at) /\ t = Tail(cont.twixts)
    OBVIOUS
  <2>2. a \in Seq(Nat) /\ t \in Seq(Twixts)
    BY <1>4, <2>1
  <2>3. cont' = Context(a, t, cont.catches)
    BY <1>1, <2>1
  <2>4. /\ cont' \in Contexts /\ cont'.at = a /\ cont'.twixts = t
        /\ cont'.catches = cont.catches
    BY ONLY <1>5, <2>2, <2>3, ContextIs
  <2> QED BY <2>1, <2>4
<1>7. Fits(cont', 0)
  BY <1>3, <1>4, <1>6, GoOutStatements
<1>8. Linked(saved, cont'.twixts)
  BY <1>3, <1>4, <1>6, LinkedOuter
<1>9. open' = Tail(open) /\ open # <<>> /\ Head(cont.twixts) \in Twixts
  BY <1>1, <1>3, <1>4, Rest, RemoveFront
<1>10. ContOK' /\ BufferOK'
  BY <1>1, <1>2, <1>7, <1>8 DEF ContOK, BufferOK, Pending
<1>11. TypesOK'
  BY <1>1, <1>2, <1>3, <1>4, <1>6, <1>9 DEF TypesOK, Points
<1>12. RestOK' /\ JumpOK'
  BY <1>1, <1>2, <1>3, <1>6, <1>9 DEF RestOK, JumpOK
<1>13. StepOrdered
  BY <1>1, <1>2, <1>9, OrderedSteps DEF Ordered
<1> QED BY <1>10, <1>11, <1>12, <1>13 DEF Inv

LEMMA LeaveDoneKeeps == ASSUME Inv, LeaveDone PROVE Inv' /\ StepOrdered
<1>1. /\ pc = "leave" /\ saved' = saved /\ buffer' = buffer
      /\ TypesOK /\ BufferOK /\ open \in Seq(Twixts)
  BY DEF LeaveDone, Inv, TypesOK
<1>2. CASE jump = None
  <2>1. pc' = "body" /\ block' = None /\ UNCHANGED <<cont, nest, jump, open>>
    BY <1>2 DEF LeaveDone
  <2>2. open = cont.twixts /\ Linked(saved, cont.twixts) /\ Fits(cont, 0)
    BY <1>1, <1>2, AtRest
  <2>3. TypesOK'
    BY <1>1, <2>1 DEF TypesOK, Points
  <2>4. ContOK' /\ BufferOK'
    BY <1>1, <2>1, <2>2 DEF ContOK, BufferOK, Pending
  <2>5. RestOK' /\ JumpOK'
    BY <1>2, <2>1, <2>2 DEF RestOK, JumpOK
  <2>6. StepOrdered
    BY <1>1, <2>1, SameOpen
  <2> QED BY <2>3, <2>4, <2>5, <2>6 DEF Inv
<1>3. CASE jump # None
  <2>1. jump \in JumpObjects /\ Under(saved, jump, open)
    BY <1>1, <1>3 DEF Inv, JumpOK, TypesOK
  <2>2. JumpContinue(jump, open)
    BY <1>3 DEF LeaveDone
  <2>3. Inv' /\ Ordered(open)
    BY <1>1, <2>1, <2>2, Continues
  <2> QED BY <1>1, <2>3, OrderedSteps
<1> QED BY <1>2, <1>3

LEMMA TryKeeps == ASSUME Inv, NEW es \in Clauses, Try(es) PROVE Inv' /\ StepOrdered
<1>1. /\ pc = "body"
      /\ cont' = Context(Cons(Len(es), cont.at), cont.twixts, Handlers(es) \o cont.catches)
      /\ UNCHANGED <<pc, block, nest, saved, jump, buffer, open>>
  BY DEF Try, Deeper
<1>2. jump = None /\ TypesOK /\ BufferOK /\ open \in Seq(Twixts)
  BY <1>1, BodyRests DEF Inv, TypesOK
<1>3. /\ cont \in Contexts /\ cont.twixts \in Seq(Twixts) /\ open = cont.twixts
      /\ Linked(saved, cont.twixts) /\ Fits(cont, 0) /\ block = None
  BY <1>1, <1>2, AtRest
<1>4. cont.at \in Seq(Nat) /\ cont.catches \in Seq(Catches)
  BY <1>3, ContextType
<1>5. Handlers(es) \in Seq(Catches) /\ Len(es) \in Nat
  BY <1>3, HandlersIs
<1>6. Linking(Nat, Len(es), cont.at, Cons(Len(es), cont.at))
  BY <1>4, <1>5, InFront
<1>7. Joining(Catches, Handlers(es), cont.catches, Handlers(es) \o cont.catches)
  BY <1>4, <1>5, JoinIs
<1>8. /\ cont' \in Contexts /\ cont'.at = Cons(Len(es), cont.at)
      /\ cont'.twixts = cont.twixts /\ cont'.catches = Handlers(es) \o cont.catches
  <2>1. PICK k : k = Handlers(es) \o cont.catches
    OBVIOUS
  <2>2. Cons(Len(es), cont.at) \in Seq(Nat) /\ k \in Seq(Catches)
    BY <1>6, <1>7, <2>1 DEF Linking, Joining
  <2>3. cont' = Context(Cons(Len(es), cont.at), cont.twixts, k)
    BY <1>1, <2>1
  <2>4. /\ cont' \in Contexts /\ cont'.at = Cons(Len(es), cont.at)
        /\ cont'.twixts = cont.twixts /\ cont'.catches = k
    BY ONLY <1>3, <2>2, <2>3, ContextIs
  <2> QED BY <2>1, <2>4
<1>9. Fits(cont', 0)
  BY <1>3, <1>6, <1>7, <1>8, GoInTry
<1>10. ContOK' /\ BufferOK'
  BY <1>1, <1>2, <1>3, <1>8, <1>9 DEF ContOK, BufferOK, Pending
<1>11. TypesOK'
  BY <1>1, <1>2, <1>8 DEF TypesOK
<1>12. RestOK' /\ JumpOK'
  BY <1>1, <1>2, <1>3, <1>8 DEF RestOK, JumpOK
<1>13. StepOrdered
  BY <1>1, <1>2, SameOpen
<1> QED BY <1>10, <1>11, <1>12, <1>13 DEF Inv

LEMMA EndTryKeeps == ASSUME Inv, EndTry PROVE Inv' /\ StepOrdered
<1>1. /\ pc = "body" /\ cont.at # <<>> /\ Head(cont.at) > 0
      /\ cont' = Context(Tail(cont.at), cont.twixts, Behind(cont.catches, Head(cont.at)))
      /\ UNCHANGED <<pc, block, nest, saved, jump, buffer, open>>
  BY DEF EndTry
<1>2. jump = None /\ TypesOK /\ BufferOK /\ open \in Seq(Twixts)
  BY <1>1, BodyRests DEF Inv, TypesOK
<1>3. /\ cont \in Contexts /\ cont.twixts \in Seq(Twixts) /\ open = cont.twixts
      /\ Linked(saved, cont.twixts) /\ Fits(cont, 0) /\ block = None
  BY <1>1, <1>2, AtRest
<1>4. PICK r : r = Behind(cont.catches, Head(cont.at))
  OBVIOUS
<1>5. /\ Tail(cont.at) \in Seq(Nat) /\ IsOuter(Tail(cont.at), cont.at)
      /\ r \in Seq(Catches) /\ Len(r) = ClausesIn(Tail(cont.at)) /\ IsOuter(r, cont.catches)
      /\ Len(cont.twixts) = TwixtsIn(Tail(cont.at)) /\ IsOuter(cont.twixts, cont.twixts)
  BY <1>1, <1>3, <1>4, TryParts
<1>6. /\ cont' \in Contexts /\ cont'.at = Tail(cont.at) /\ cont'.twixts = cont.twixts
      /\ cont'.catches = r
  <2>1. PICK a : a = Tail(cont.at)
    OBVIOUS
  <2>2. a \in Seq(Nat) /\ cont.twixts \in Seq(Twixts) /\ r \in Seq(Catches)
    BY <1>3, <1>5, <2>1
  <2>3. cont' = Context(a, cont.twixts, r)
    BY <1>1, <1>4, <2>1
  <2>4. /\ cont' \in Contexts /\ cont'.at = a /\ cont'.twixts = cont.twixts
        /\ cont'.catches = r
    BY ONLY <2>2, <2>3, ContextIs
  <2> QED BY <2>1, <2>4
<1>7. Fits(cont', 0)
  BY <1>3, <1>5, <1>6, GoOutStatements
<1>8. ContOK' /\ BufferOK'
  BY <1>1, <1>2, <1>3, <1>6, <1>7 DEF ContOK, BufferOK, Pending
<1>9. TypesOK'
  BY <1>1, <1>2, <1>6 DEF TypesOK
<1>10. RestOK' /\ JumpOK'
  BY <1>1, <1>2, <1>3, <1>6 DEF RestOK, JumpOK
<1>11. StepOrdered
  BY <1>1, <1>2, SameOpen
<1> QED BY <1>8, <1>9, <1>10, <1>11 DEF Inv

LEMMA UnwindKeeps == ASSUME Inv, Unwind PROVE Inv' /\ StepOrdered
<1>1. /\ pc = "handler" /\ cont' = [cont EXCEPT !.catches = Behind(@, nest)]
      /\ pc' = "body" /\ nest' = 0
      /\ UNCHANGED <<block, saved, jump, buffer, open>>
  BY DEF Unwind
<1>2. jump = None /\ TypesOK /\ BufferOK /\ open \in Seq(Twixts)
  BY <1>1, BodyRests DEF Inv, TypesOK
<1>3. /\ cont \in Contexts /\ open = cont.twixts /\ block = None /\ nest \in Nat
      /\ Linked(saved, cont.twixts) /\ Fits(cont, nest)
  BY <1>1, <1>2 DEF Inv, RestOK, ContOK, TypesOK, Pending
<1>4. PICK r : r = Behind(cont.catches, nest)
  OBVIOUS
<1>5. r \in Seq(Catches) /\ Leaving(Catches, cont.catches, nest, ClausesIn(cont.at), r)
  BY <1>3, <1>4, UnwindParts
<1>6. /\ cont' \in Contexts /\ cont'.at = cont.at /\ cont'.twixts = cont.twixts
      /\ cont'.catches = r
  BY <1>1, <1>3, <1>4, <1>5 DEF Contexts
<1>7. Fits(cont', 0)
  BY <1>3, <1>5, <1>6, GoOutUnwind
<1>8. ContOK' /\ BufferOK'
  BY <1>1, <1>2, <1>3, <1>6, <1>7 DEF ContOK, BufferOK, Pending
<1>9. TypesOK'
  BY <1>1, <1>2, <1>6 DEF TypesOK, Points
<1>10. RestOK' /\ JumpOK'
  BY <1>1, <1>2, <1>3, <1>6 DEF RestOK, JumpOK
<1>11. StepOrdered
  BY <1>1, <1>2, SameOpen
<1> QED BY <1>8, <1>9, <1>10, <1>11 DEF Inv

LEMMA SetJmpKeeps == ASSUME Inv, SetJmp PROVE Inv' /\ StepOrdered
<1>1. pc = "body" /\ buffer' = cont /\ UNCHANGED <<cont, pc, block, nest, saved, jump, open>>
  BY DEF SetJmp
<1>2. jump = None /\ TypesOK /\ ContOK /\ open \in Seq(Twixts)
  BY <1>1, BodyRests DEF Inv, TypesOK
<1>3. /\ cont \in Contexts /\ open = cont.twixts /\ block = None
      /\ Linked(saved, cont.twixts) /\ Fits(cont, 0)
  BY <1>1, <1>2, AtRest
<1>4. TypesOK' /\ ContOK' /\ BufferOK'
  BY <1>1, <1>2, <1>3 DEF TypesOK, ContOK, BufferOK
<1>5. RestOK' /\ JumpOK'
  BY <1>1, <1>2, <1>3 DEF RestOK, JumpOK
<1>6. StepOrdered
  BY <1>1, <1>2, SameOpen
<1> QED BY <1>4, <1>5, <1>6 DEF Inv

LEMMA LongJmpKeeps == ASSUME Inv, Orderly, LongJmp PROVE Inv' /\ StepOrdered
<1>1. /\ pc = "body" /\ buffer # None /\ ~ FurtherIn(buffer)
      /\ ContinuationJump(Target(buffer, "body", 0))
  BY DEF LongJmp, Orderly
<1>2. jump = None /\ open \in Seq(Twixts) /\ buffer \in Contexts /\ cont \in Contexts
      /\ Linked(saved, buffer.twixts) /\ Fits(buffer, 0)
  BY <1>1, BodyRests DEF Inv, TypesOK, BufferOK
<1>3. PICK to : to = Target(buffer, "body", 0)
  OBVIOUS
<1>4. to \in Targets /\ to.context = buffer /\ to.pc = "body" /\ to.nest = 0
  BY <1>2, <1>3, TargetIs
<1>5. Aim(saved, to)
  BY <1>2, <1>4 DEF Aim, Pending
<1>6. cont.twixts \in Seq(Twixts) /\ buffer.twixts \in Seq(Twixts)
      /\ Len(cont.twixts) \in Nat /\ Len(buffer.twixts) \in Nat
  BY <1>2, ContextType
<1>7. cont.twixts # <<>> /\ IsOuter(cont.twixts, buffer.twixts) => cont.twixts = buffer.twixts
  <2>1. ASSUME cont.twixts # <<>>, IsOuter(cont.twixts, buffer.twixts)
        PROVE  Len(cont.twixts) = Len(buffer.twixts)
    BY <1>1, <1>6, <2>1 DEF FurtherIn, IsOuter
  <2> QED BY <1>6, <2>1, OuterOrder
<1>8. Inv' /\ Ordered(open)
  BY <1>1, <1>2, <1>3, <1>4, <1>5, <1>7, Starts
<1> QED BY <1>2, <1>8, OrderedSteps

LEMMA FarJumpKeeps ==
  ASSUME Inv, Orderly, NEW n, FarJump(n)
  PROVE  Inv' /\ StepOrdered
<1>1. PICK l : l = Before(cont.at, n)
  OBVIOUS
<1>2. PICK a, t, k : /\ a = Behind(cont.at, n) /\ t = Behind(cont.twixts, TwixtsIn(l))
                     /\ k = Behind(cont.catches, ClausesIn(l))
  OBVIOUS
<1>3. PICK d : d = Context(a, t, k)
  OBVIOUS
<1>4. PICK to : to = Target(d, "body", 0)
  OBVIOUS
<1>5. pc = "body" /\ n \in 1..Len(cont.at) /\ ContinuationJump(to)
  BY <1>1, <1>2, <1>3, <1>4 DEF FarJump, Before
<1>6. jump = None /\ open \in Seq(Twixts)
  BY <1>5, BodyRests DEF Inv, TypesOK
<1>7. /\ cont \in Contexts /\ cont.twixts \in Seq(Twixts)
      /\ Linked(saved, cont.twixts) /\ Fits(cont, 0)
  BY <1>5, <1>6, AtRest
<1>8. Len(cont.at) \in Nat
  BY <1>7, ContextType
<1>9. n \in 0..Len(cont.at)
  BY <1>5, <1>8
<1>10. /\ a \in Seq(Nat) /\ t \in Seq(Twixts) /\ k \in Seq(Catches)
       /\ IsOuter(a, cont.at) /\ IsOuter(t, cont.twixts) /\ IsOuter(k, cont.catches)
       /\ Len(t) = TwixtsIn(a) /\ Len(k) = ClausesIn(a)
  BY <1>1, <1>2, <1>7, <1>9, BehindStatements
<1>11. d \in Contexts /\ d.at = a /\ d.twixts = t /\ d.catches = k
  BY ONLY <1>3, <1>10, ContextIs
<1>12. Fits(d, 0)
  BY <1>7, <1>10, <1>11, GoOutStatements
<1>13. Linked(saved, t)
  BY <1>7, <1>10, LinkedOuter
<1>14. to \in Targets /\ to.context = d /\ to.pc = "body" /\ to.nest = 0
  BY ONLY <1>4, <1>11, TargetIs
<1>15. Aim(saved, to)
  BY <1>11, <1>12, <1>13, <1>14 DEF Aim, Pending
<1>16. Inv' /\ Ordered(open)
  BY <1>5, <1>6, <1>10, <1>11, <1>14, <1>15, StartsOut
<1> QED BY <1>6, <1>16, OrderedSteps

LEMMA RaiseKeeps ==
  ASSUME Inv, Orderly, NEW e, Raise(e)
  PROVE  Inv' /\ StepOrdered
<1> DEFINE for == {i \in DOMAIN cont.catches : cont.catches[i].exception = e}
<1>1. pc \in {"body", "enter", "leave"} /\ jump = None /\ open \in Seq(Twixts)
  BY DEF Raise, Orderly, Inv, TypesOK
<1>2. /\ cont \in Contexts /\ cont.twixts \in Seq(Twixts)
      /\ Linked(saved, cont.twixts) /\ Fits(cont, 0)
  BY <1>1, AtRest
<1>3. CASE for = {} /\ ContinuationJump(Target(Top, "dead", 0))
  <2>1. PICK to : to = Target(Top, "dead", 0)
    OBVIOUS
  <2>2. Top \in Contexts /\ Fits(Top, 0) /\ Top.twixts = <<>>
    BY TopFits DEF Top, Context
  <2>3. to \in Targets /\ to.context = Top /\ to.pc = "dead" /\ to.nest = 0
    BY ONLY <2>1, <2>2, TargetIs
  <2>4. Aim(saved, to)
    BY <2>2, <2>3, LinkedNone DEF Aim, Pending
  <2>5. IsOuter(to.context.twixts, cont.twixts)
    BY <1>2, <2>2, <2>3, OuterOrder
  <2>6. Inv' /\ Ordered(open)
    BY <1>1, <1>3, <2>1, <2>4, <2>5, StartsOut
  <2> QED BY <1>1, <2>6, OrderedSteps
<1>4. ASSUME NEW i \in for,
             LET c == cont.catches[i] IN
             ContinuationJump(
               Target(Context(c.at, c.twixts, Behind(cont.catches, i)), "handler", c.peers))
      PROVE  Inv' /\ StepOrdered
  <2>1. PICK c, r : c = cont.catches[i] /\ r = Behind(cont.catches, i)
    OBVIOUS
  <2>2. PICK d : d = Context(c.at, c.twixts, r)
    OBVIOUS
  <2>3. PICK to : to = Target(d, "handler", c.peers)
    OBVIOUS
  <2>4. ContinuationJump(to)
    BY <1>4, <2>1, <2>2, <2>3
  <2>5. i \in DOMAIN cont.catches
    OBVIOUS
  <2>6. /\ c.at \in Seq(Nat) /\ c.twixts \in Seq(Twixts) /\ c.peers \in Nat
        /\ IsOuter(c.twixts, cont.twixts)
        /\ r \in Seq(Catches) /\ Leaving(Catches, cont.catches, i, Len(cont.catches) - i, r)
    BY <1>2, <2>1, <2>5, HandlerParts
  <2>7. d \in Contexts /\ d.at = c.at /\ d.twixts = c.twixts /\ d.catches = r
    BY ONLY <2>2, <2>6, ContextIs
  <2>8. Fits(d, c.peers)
    BY <1>2, <2>1, <2>5, <2>6, <2>7, GoOutHandler
  <2>9. to \in Targets /\ to.context = d /\ to.pc = "handler" /\ to.nest = c.peers
    BY ONLY <2>3, <2>6, <2>7, TargetIs
  <2>10. Linked(saved, c.twixts)
    BY <1>2, <2>6, LinkedOuter
  <2>11. Aim(saved, to)
    BY <2>7, <2>8, <2>9, <2>10 DEF Aim, Pending
  <2>12. Inv' /\ Ordered(open)
    BY <1>1, <2>4, <2>6, <2>7, <2>9, <2>11, StartsOut
  <2> QED BY <1>1, <2>12, OrderedSteps
<1> QED BY <1>3, <1>4 DEF Raise

LEMMA StutterKeeps == ASSUME Inv, UNCHANGED vars PROVE Inv'
<1>1. UNCHANGED <<cont, pc, block, nest, saved, jump, buffer, open>>
  BY DEF vars
<1>2. TypesOK'
  BY <1>1 DEF Inv, TypesOK
<1>3. ContOK' /\ BufferOK'
  BY <1>1 DEF Inv, ContOK, BufferOK
<1>4. RestOK' /\ JumpOK'
  BY <1>1 DEF Inv, RestOK, JumpOK
<1> QED BY <1>2, <1>3, <1>4 DEF Inv

LEMMA StepKeeps == ASSUME Inv, Orderly, Next PROVE Inv' /\ StepOrdered
<1>1. CASE Enter
  BY <1>1, EnterKeeps
<1>2. CASE EnterDone
  BY <1>2, EnterDoneKeeps
<1>3. CASE Twixt
  BY <1>3, TwixtKeeps
<1>4. CASE TwixtDone
  BY <1>4, TwixtDoneKeeps
<1>5. CASE LeaveDone
  BY <1>5, LeaveDoneKeeps
<1>6. CASE EndTry
  BY <1>6, EndTryKeeps
<1>7. CASE Unwind
  BY <1>7, UnwindKeeps
<1>8. CASE SetJmp
  BY <1>8, SetJmpKeeps
<1>9. CASE LongJmp
  BY <1>9, LongJmpKeeps
<1>10. ASSUME NEW es \in Clauses, Try(es)  PROVE Inv' /\ StepOrdered
  BY <1>10, TryKeeps
<1>11. ASSUME NEW e \in Exceptions, Raise(e)  PROVE Inv' /\ StepOrdered
  BY <1>11, RaiseKeeps
<1>12. ASSUME NEW n \in 1..Depth, FarJump(n)  PROVE Inv' /\ StepOrdered
  BY <1>12, FarJumpKeeps
<1> QED BY <1>1, <1>2, <1>3, <1>4, <1>5, <1>6, <1>7, <1>8, <1>9, <1>10, <1>11, <1>12 DEF Next

LEMMA InitHolds == ASSUME Init PROVE Inv
<1>1. /\ cont = Top /\ pc = "body" /\ block = None /\ nest = 0
      /\ saved = [x \in Twixts |-> Top] /\ jump = None /\ buffer = None /\ open = <<>>
  BY DEF Init
<1>2. Top \in Contexts /\ Fits(Top, 0) /\ Top.twixts = <<>>
  BY TopFits DEF Top, Context
<1>3. TypesOK
  BY <1>1, <1>2 DEF TypesOK, Points
<1>4. ContOK /\ BufferOK
  BY <1>1, <1>2, LinkedNone DEF ContOK, BufferOK, Pending
<1>5. RestOK /\ JumpOK
  BY <1>1, <1>2 DEF RestOK, JumpOK
<1> QED BY <1>3, <1>4, <1>5 DEF Inv

LEMMA Invariant == ASSUME Orderly PROVE Spec => []Inv
<1>1. Init => Inv
  BY InitHolds
<1>2. Inv /\ [Next]_vars => Inv'
  BY StepKeeps, StutterKeeps
<1> QED BY <1>1, <1>2, PTL DEF Spec

-----------------------------------------------------------------------------
(* What follows from the invariant *)

LEMMA InvBracketed == ASSUME Inv PROVE Bracketed
<1>1. pc \in {"body", "dead"} => jump = None
  BY BodyRests
<1> QED BY <1>1 DEF Bracketed, Inv, RestOK

LEMMA InvTypes == ASSUME Inv PROVE JumpsTypeOK
<1>1. TypesOK /\ Linked(saved, cont.twixts)
  BY DEF Inv, ContOK
<1> QED BY <1>1 DEF JumpsTypeOK, TypesOK, Linked

LEMMA InvNested == ASSUME Inv PROVE CatchesNested
<1>1. cont \in Contexts /\ \A i \in DOMAIN cont.catches : InForce(cont, i)
  BY DEF Inv, TypesOK, ContOK, Fits
<1>2. /\ cont.at \in Seq(Nat) /\ cont.twixts \in Seq(Twixts)
      /\ DOMAIN cont.catches = 1..Len(cont.catches) /\ Len(cont.catches) \in Nat
      /\ \A i \in DOMAIN cont.catches :
           cont.catches[i].at \in Seq(Nat) /\ cont.catches[i].twixts \in Seq(Twixts)
  BY <1>1, ContextType
<1>3. ASSUME NEW i \in DOMAIN cont.catches, i > 1
      PROVE  Len(cont.catches[i].twixts) <= Len(cont.catches[i - 1].twixts)
  <2> DEFINE c == cont.catches[i]
             b == cont.catches[i - 1]
  <2>1. i - 1 \in DOMAIN cont.catches /\ i - 1 < i
    BY <1>2, <1>3
  <2>2. /\ IsOuter(c.at, cont.at) /\ Len(c.twixts) = TwixtsIn(c.at)
        /\ IsOuter(b.at, cont.at) /\ Len(b.twixts) = TwixtsIn(b.at)
        /\ Len(c.at) <= Len(b.at)
    BY <1>1, <2>1 DEF InForce
  <2>3. c.at \in Seq(Nat) /\ b.at \in Seq(Nat)
    BY <1>2, <2>1
  <2> HIDE DEF c, b
  <2>4. IsOuter(c.at, b.at)
    BY <1>2, <2>2, <2>3, OuterNest
  <2>5. TwixtsIn(c.at) <= TwixtsIn(b.at)
    BY <2>3, <2>4, CountOuter
  <2>6. Len(c.twixts) <= Len(b.twixts)
    BY <2>2, <2>5
  <2> QED BY <2>6 DEF c, b
<1> QED BY <1>1, <1>3 DEF CatchesNested, InForce, IsOuter

LEMMA InvChains == ASSUME Inv PROVE ChainsSound
<1>1. ChainsMatchStatements
  <2>1. ASSUME pc # "handler"  PROVE Fits(cont, 0)
    BY <2>1 DEF Inv, ContOK, Pending
  <2>2. cont \in Contexts
    BY DEF Inv, TypesOK
  <2>3. ClausesIn(cont.at) \in Nat
    BY <2>2, ContextType
  <2> QED BY <2>1, <2>3 DEF ChainsMatchStatements, Fits
<1>2. JumpInBlocks
  BY DEF JumpInBlocks, Inv, JumpOK
<1> QED BY <1>1, <1>2, InvTypes, InvNested DEF ChainsSound

\* Whichever way control gets in and out of the statements of a program - through
\* them, by an exception, by break, continue, return or longjmp - the twixts whose
\* enter expression has been evaluated and whose leave expression has not are, in
\* the body of statements, those around it, and none when the thread ends
\* (OpTwixt, OpTwixtDone, JumpContinue, RaiseException).
THEOREM BracketedHolds == ASSUME Orderly PROVE Spec => []Bracketed
BY Invariant, InvBracketed, PTL

\* The chains of twixts and catch clauses of a thread, and those that twixts keep,
\* are the ones of the program point, so that the compiler's counts in OpFarJump,
\* OpEndCatch and OpUnwind end at a link; a jump is under way in enter and leave
\* expressions only.
THEOREM ChainsSoundHolds == ASSUME Orderly PROVE Spec => []ChainsSound
BY Invariant, InvChains, PTL

\* Leave expressions are evaluated in the reverse order of the enter expressions,
\* and no enter expression twice without its leave (JumpContinue, TwixtJump).
THEOREM InOrderHolds == ASSUME Orderly PROVE Spec => InOrder
<1> DEFINE A == /\ pc' = "leave" => open # <<>> /\ open' = Tail(open)
                /\ Len(open') > Len(open) => Head(open') \notin ToSet(open)
<1>1. Inv /\ [Next]_vars => [A]_vars
  BY StepKeeps DEF StepOrdered
<1>2. Spec => []Inv
  BY Invariant
<1>3. Spec => [][A]_vars
  BY <1>1, <1>2, PTL DEF Spec
<1> QED BY <1>3 DEF InOrder
=============================================================================
