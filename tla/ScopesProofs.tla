---------------------------- MODULE ScopesProofs ----------------------------
(***************************************************************************)
(* Proofs about Scopes: that the lists of names and the parser's           *)
(* namespaces stay sound through any program, that what is not public is   *)
(* hidden, and that the commands mean by a path what the compiler does.    *)
(***************************************************************************)
EXTENDS Scopes, FiniteSetTheorems, FunctionTheorems, SequenceTheorems,
        WellFoundedInduction, TLAPS

-----------------------------------------------------------------------------
(* Recursion over 0..n *)

LEMMA Least ==
  ASSUME NEW S \in SUBSET Nat, S # {}
  PROVE  \E i \in S : \A j \in S : i <= j
<1> DEFINE upto(i) == {j \in S : j <= i}
           U == {upto(i) : i \in S}
<1>1. \A j \in S : j \in Nat
  OBVIOUS
<1>2. ASSUME NEW i \in S  PROVE upto(i) \in FiniteSubsetsOf(S)
  <2>1. i \in Nat /\ \A j \in S : j <= i => j \in 0..i
    BY <1>1
  <2>2. upto(i) \subseteq 0..i
    BY <2>1
  <2>3. IsFiniteSet(0..i)
    BY <2>1, FS_Interval
  <2> HIDE DEF upto
  <2>4. IsFiniteSet(upto(i))
    BY <2>2, <2>3, FS_Subset
  <2> QED BY <2>4 DEF FiniteSubsetsOf, upto
<1>3. PICK m \in U : \A u \in U : ~ (<<u, m>> \in StrictSubsetOrdering(S))
  <2>1. U \subseteq FiniteSubsetsOf(S) /\ U # {}
    BY <1>2
  <2> HIDE DEF U
  <2> QED BY <2>1, FS_StrictSubsetOrderingWellFounded, WFMin, Zenon
<1>4. PICK i \in S : m = upto(i)
  BY <1>3
<1>5. ASSUME NEW j \in S, j < i  PROVE FALSE
  <2>1. (\A x \in S : x <= j => x <= i) /\ i <= i /\ ~ (i <= j)
    BY <1>1, <1>5
  <2>2. upto(j) \subseteq upto(i) /\ i \in upto(i) /\ i \notin upto(j)
    BY <2>1
  <2>3. <<upto(j), upto(i)>> \in StrictSubsetOrdering(S)
    BY <2>2 DEF StrictSubsetOrdering
  <2> QED BY <1>3, <1>4, <2>3
<1> QED BY <1>1, <1>5

LEMMA UpTo ==
  ASSUME NEW n \in Nat, NEW S, 0 \in S, \A i \in 1..n : i - 1 \in S => i \in S
  PROVE  \A i \in 0..n : i \in S
<1> DEFINE left == {i \in 0..n : i \notin S}
<1> SUFFICES ASSUME left # {}  PROVE FALSE
  OBVIOUS
<1>1. PICK i \in left : \A j \in left : i <= j
  <2>1. left \in SUBSET Nat
    OBVIOUS
  <2> QED BY <2>1, Least
<1>2. i \in 1..n /\ i - 1 \in 0..n /\ ~ (i <= i - 1)
  BY <1>1
<1> QED BY <1>1, <1>2

Runs(f, n, first, step) == f[0] = first /\ \A i \in 1..n : f[i] = step[<<i, f[i - 1]>>]

\* A function on 0..n can be defined by its value at 0 and a step.
LEMMA Recursion ==
  ASSUME NEW n \in Nat, NEW T, NEW first \in T, NEW step \in [(1..n) \X T -> T]
  PROVE  \E f \in [0..n -> T] : Runs(f, n, first, step)
<1> DEFINE Defines(m, f) == /\ f \in [0..m -> T] /\ f[0] = first
                            /\ \A i \in 1..m : f[i] = step[<<i, f[i - 1]>>]
           S == {m \in 0..n : \E f : Defines(m, f)}
<1>1. 0 \in S
  <2> DEFINE f == [i \in 0..0 |-> first]
  <2>1. f \in [0..0 -> T] /\ f[0] = first /\ 1..0 = {}
    OBVIOUS
  <2> HIDE DEF f
  <2>2. Defines(0, f)
    BY <2>1
  <2> QED BY <2>2
<1>2. ASSUME NEW m \in 1..n, m - 1 \in S  PROVE m \in S
  <2>1. PICK f : Defines(m - 1, f)
    BY <1>2
  <2> DEFINE g == [i \in 0..m |-> IF i = m THEN step[<<m, f[m - 1]>>] ELSE f[i]]
  <2>2. \A i \in 0..m : i # m => i \in 0..m-1
    OBVIOUS
  <2>3. f[m - 1] \in T
    BY <2>1
  <2>4. g \in [0..m -> T]
    BY <2>1, <2>2, <2>3
  <2>5. g[0] = first
    BY <2>1
  <2>6. ASSUME NEW i \in 1..m  PROVE g[i] = step[<<i, g[i - 1]>>]
    <3>1. i - 1 \in 0..m /\ i - 1 # m /\ g[i - 1] = f[i - 1] /\ (i # m => i \in 1..m-1)
      OBVIOUS
    <3>2. CASE i = m
      BY <3>1, <3>2
    <3>3. CASE i # m
      <4>1. g[i] = f[i] /\ f[i] = step[<<i, f[i - 1]>>]
        BY <2>1, <3>1, <3>3
      <4> QED BY <3>1, <4>1
    <3> QED BY <3>2, <3>3
  <2>7. Defines(m, g)
    <3> HIDE DEF g
    <3> QED BY <2>4, <2>5, <2>6
  <2>8. m \in 0..n
    OBVIOUS
  <2> HIDE DEF g
  <2>9. \E d : Defines(m, d)
    BY <2>7
  <2> HIDE DEF Defines
  <2> QED BY <2>8, <2>9
<1>3. n \in S
  <2>1. \A m \in 1..n : m - 1 \in S => m \in S
    BY <1>2
  <2>2. n \in 0..n
    OBVIOUS
  <2> HIDE DEF S
  <2> QED BY <1>1, <2>1, <2>2, UpTo
<1> QED BY <1>3 DEF Runs

RunsFrom1(f, n, first, step) == f[1] = first /\ \A i \in 2..n : f[i] = step[<<i, f[i - 1]>>]

LEMMA RecursionFrom1 ==
  ASSUME NEW n \in Nat \ {0}, NEW T, NEW first \in T, NEW step \in [(2..n) \X T -> T]
  PROVE  \E f \in [1..n -> T] : RunsFrom1(f, n, first, step)
<1>1. PICK m \in Nat : m = n - 1
  OBVIOUS
<1>2. PICK before : before = [p \in (1..m) \X T |-> step[<<p[1] + 1, p[2]>>]]
  OBVIOUS
<1>3. \A i \in 1..m : i + 1 \in 2..n
  BY <1>1
<1>4. \A i \in 1..m, t \in T : before[<<i, t>>] = step[<<i + 1, t>>] /\ before[<<i, t>>] \in T
  BY <1>2, <1>3
<1>5. before \in [(1..m) \X T -> T]
  BY <1>2, <1>3
<1>6. PICK g \in [0..m -> T] : Runs(g, m, first, before)
  BY <1>5, Recursion
<1>7. g[0] = first /\ \A i \in 1..m : g[i] = before[<<i, g[i - 1]>>]
  BY <1>6 DEF Runs
<1>8. PICK f : f = [i \in 1..n |-> g[i - 1]]
  OBVIOUS
<1>9. f \in [1..n -> T] /\ f[1] = first
  BY <1>1, <1>7, <1>8
<1>10. ASSUME NEW i \in 2..n  PROVE f[i] = step[<<i, f[i - 1]>>]
  <2>1. PICK j \in 1..m : i = j + 1 /\ i - 1 = j /\ i - 1 \in 1..n /\ i \in 1..n /\ j - 1 \in 0..m
    <3>1. i - 1 \in 1..m
      BY <1>1
    <3> QED BY <1>1, <3>1
  <2>2. f[i] = g[j] /\ f[i - 1] = g[j - 1] /\ g[j - 1] \in T
    BY <1>8, <2>1
  <2> QED BY <1>4, <1>7, <2>1, <2>2
<1> QED BY <1>9, <1>10 DEF RunsFrom1

-----------------------------------------------------------------------------
(* The inductive invariant *)

Kinds == {"block", "function", "namespace"}
Classes == {"value", "typedef", "namespace"}

EntryType == [symbol : Nat, publish : Publishes]
SpaceType == [previous : Nat, publish : Publishes, names : Seq(EntryType)]
SymbolType == [name : Names, class : Classes, defined : BOOLEAN, namespace : Nat,
               home : Nat, declared : Publishes]
LevelType == [kind : Kinds, saved : Nat, entered : Nat, symbol : Nat]

\* Symbols, of which those of a namespace have one of the first k.
SymbolsOK(syms, k) ==
  /\ syms \in Seq(SymbolType)
  /\ \A s \in 1..Len(syms) :
       syms[s].namespace \in (IF syms[s].class = "namespace" THEN 1..k ELSE {0})

\* The list of namespace n has each name once; those that are not public were
\* declared there, and are listed as declared.
NamesOK(names, n, syms) ==
  /\ \A i \in 1..Len(names) : names[i].symbol \in 1..Len(syms)
  /\ \A i, j \in 1..Len(names) :
       syms[names[i].symbol].name = syms[names[j].symbol].name => i = j
  /\ \A i \in 1..Len(names) :
       syms[names[i].symbol].declared # "public" =>
         syms[names[i].symbol].home = n /\ names[i].publish = syms[names[i].symbol].declared

SpacesOK(ns, syms) ==
  /\ ns \in Seq(SpaceType)
  /\ \A n \in 1..Len(ns) : ns[n].previous < n /\ NamesOK(ns[n].names, n, syms)

\* The namespaces that symbols stand for.
Named(syms) == {n \in Nat : \E s \in 1..Len(syms) : syms[s].class = "namespace" /\ syms[s].namespace = n}

\* What the parser comes back to when it leaves a level.
Outer(nest, tp, i) == IF i = Len(nest) THEN tp ELSE nest[i + 1].entered

LevelOK(l, outer, ns, syms) ==
  /\ l.saved = outer /\ l.entered \in 1..Len(ns) /\ l.symbol \in 0..Len(syms)
  /\ l.kind = "namespace" =>
       l.symbol # 0 /\ syms[l.symbol].class = "namespace" /\ l.entered = syms[l.symbol].namespace
  /\ l.kind # "namespace" => ns[l.entered].previous = outer /\ l.entered \notin Named(syms)

NestOK(nest, cur, tp, ns, syms) ==
  /\ nest \in Seq(LevelType)
  /\ tp \in 1..Len(ns) /\ tp \notin Named(syms) /\ Global \notin Named(syms)
  /\ cur = IF nest = <<>> THEN tp ELSE nest[1].entered
  /\ \A i \in 1..Len(nest) : LevelOK(nest[i], Outer(nest, tp, i), ns, syms)

EnteredIn(nest) == {n \in Nat : \E i \in 1..Len(nest) : nest[i].entered = n}

Distinct(nest) == \A i, j \in 1..Len(nest) : nest[i].entered = nest[j].entered => i = j

\* ... and those among them that are closed: all but those that the parser is in, or was
\* in when it met an error. Unless a namespace is extended from inside, it is in each once.
PublishOK(nest, ab, ns, syms) ==
  /\ \A n \in Named(syms) : n \in EnteredIn(nest) \/ n \in ab \/ ns[n].publish = "private"
  /\ \A n \in 1..Len(ns) : ns[n].publish = "private" =>
       n \in Named(syms) /\ (ExtendsAround \/ n \notin EnteredIn(nest) \cup ab)
  /\ ExtendsAround \/ Distinct(nest)

ScopeInv ==
  /\ SymbolsOK(symbols, Len(spaces)) /\ SpacesOK(spaces, symbols)
  /\ NestOK(nesting, current, top, spaces, symbols)
  /\ PublishOK(nesting, abandoned, spaces, symbols)

-----------------------------------------------------------------------------
(* Lists of names *)

LEMMA EarliestIs ==
  ASSUME NEW S \in SUBSET Nat, S # {}
  PROVE  Earliest(S) \in S /\ \A j \in S : Earliest(S) <= j
<1>1. \E i \in S : \A j \in S : i <= j
  BY Least
<1> QED BY <1>1 DEF Earliest

LEMMA NamesIs ==
  ASSUME NEW names \in Seq(EntryType)
  PROVE  /\ Len(names) \in Nat /\ DOMAIN names = 1..Len(names)
         /\ \A i \in 1..Len(names) : /\ names[i] \in EntryType /\ names[i].symbol \in Nat
                                     /\ names[i].publish \in Publishes
<1>1. Len(names) \in Nat /\ DOMAIN names = 1..Len(names)
  BY LenProperties
<1>2. \A i \in 1..Len(names) : names[i] \in EntryType
  BY ElementOfSeq
<1> QED BY <1>1, <1>2 DEF EntryType

LEMMA EntryIs ==
  ASSUME NEW s \in Nat, NEW publish \in Publishes, NEW e, e = Entry(s, publish)
  PROVE  e \in EntryType /\ e.symbol = s /\ e.publish = publish
BY DEF Entry, EntryType

\* What is left of a list: each entry comes from another of the list.
Part(rest, names) ==
  /\ rest \in Seq(EntryType)
  /\ \E f \in [1..Len(rest) -> 1..Len(names)] :
       /\ \A i \in 1..Len(rest) : rest[i] = names[f[i]]
       /\ \A i, j \in 1..Len(rest) : f[i] = f[j] => i = j

LEMMA PartOK ==
  ASSUME NEW names \in Seq(EntryType), NEW rest, Part(rest, names),
         NEW n, NEW syms, NamesOK(names, n, syms)
  PROVE  NamesOK(rest, n, syms)
<1>1. PICK f \in [1..Len(rest) -> 1..Len(names)] :
         /\ \A i \in 1..Len(rest) : rest[i] = names[f[i]]
         /\ \A i, j \in 1..Len(rest) : f[i] = f[j] => i = j
  BY DEF Part
<1>2. \A i \in 1..Len(rest) : f[i] \in 1..Len(names)
  BY <1>1
<1>3. \A i \in 1..Len(rest) : rest[i].symbol \in 1..Len(syms)
  BY <1>1, <1>2 DEF NamesOK
<1>4. ASSUME NEW i \in 1..Len(rest), NEW j \in 1..Len(rest),
             syms[rest[i].symbol].name = syms[rest[j].symbol].name
      PROVE  i = j
  <2>1. f[i] = f[j]
    BY <1>1, <1>2, <1>4 DEF NamesOK
  <2> QED BY <1>1, <2>1
<1>5. ASSUME NEW i \in 1..Len(rest), syms[rest[i].symbol].declared # "public"
      PROVE  syms[rest[i].symbol].home = n /\ rest[i].publish = syms[rest[i].symbol].declared
  <2>1. rest[i] = names[f[i]] /\ f[i] \in 1..Len(names)
    BY <1>1, <1>2
  <2> QED BY <1>5, <2>1 DEF NamesOK
<1> QED BY <1>3, <1>4, <1>5 DEF NamesOK

LEMMA RemoveIs ==
  ASSUME NEW names \in Seq(EntryType), NEW n, NEW syms, NamesOK(names, n, syms), NEW name,
         NEW rest, rest = NamespaceRemoveName(names, name, syms)
  PROVE  /\ rest \in Seq(EntryType) /\ NamesOK(rest, n, syms)
         /\ \A i \in 1..Len(rest) : syms[rest[i].symbol].name # name
<1>1. /\ Len(names) \in Nat /\ DOMAIN names = 1..Len(names)
      /\ \A i \in 1..Len(names) : names[i] \in EntryType
  BY NamesIs
<1>2. PICK at : at = {i \in DOMAIN names : syms[names[i].symbol].name = name}
  OBVIOUS
<1>3. CASE at = {}
  <2>1. rest = names
    BY <1>2, <1>3 DEF NamespaceRemoveName
  <2> QED BY <1>1, <1>2, <1>3, <2>1
<1>4. CASE at # {}
  <2>1. PICK m : m = Earliest(at)
    OBVIOUS
  <2>2. m \in at
    <3>1. at \in SUBSET Nat
      BY <1>1, <1>2
    <3> QED BY <1>4, <2>1, <3>1, EarliestIs
  <2>3. m \in 1..Len(names) /\ syms[names[m].symbol].name = name
    BY <1>1, <1>2, <2>2
  <2>4. PICK u, v, len : u = SubSeq(names, 1, m - 1) /\ v = SubSeq(names, m + 1, Len(names)) /\ len = Len(names)
    OBVIOUS
  <2>5. rest = u \o v
    BY <1>2, <1>4, <2>1, <2>4 DEF NamespaceRemoveName
  <2>6. /\ u \in Seq(EntryType) /\ Len(u) = m - 1
        /\ \A i \in 1..m-1 : u[i] = names[i]
    <3>1. \A i \in 1..m-1 : names[i] \in EntryType
      BY <1>1, <2>3
    <3>2. /\ SubSeq(names, 1, m - 1) \in Seq(EntryType)
          /\ Len(SubSeq(names, 1, m - 1)) = IF 1 <= m - 1 THEN (m - 1) - 1 + 1 ELSE 0
          /\ \A i \in 1..(m - 1) - 1 + 1 : SubSeq(names, 1, m - 1)[i] = names[1 + i - 1]
      BY <2>3, <3>1, SubSeqProperties
    <3> QED BY <2>3, <2>4, <3>2
  <2>7. /\ v \in Seq(EntryType) /\ Len(v) = len - m
        /\ \A i \in 1..len-m : v[i] = names[m + i]
    <3>1. \A i \in m+1..len : names[i] \in EntryType
      BY <1>1, <2>3, <2>4
    <3>2. len \in Int /\ m + 1 \in Int /\ m \in Int
      BY <1>1, <2>3, <2>4
    <3>3. /\ SubSeq(names, m + 1, len) \in Seq(EntryType)
          /\ Len(SubSeq(names, m + 1, len)) = IF m + 1 <= len THEN len - (m + 1) + 1 ELSE 0
          /\ \A i \in 1..len - (m + 1) + 1 : SubSeq(names, m + 1, len)[i] = names[m + 1 + i - 1]
      BY ONLY <3>1, <3>2, SubSeqProperties
    <3>4. len - (m + 1) + 1 = len - m /\ m <= len
      BY <1>1, <2>3, <2>4
    <3>5. \A i \in 1..len-m : m + 1 + i - 1 = m + i
      BY <3>2
    <3> QED BY <2>4, <3>2, <3>3, <3>4, <3>5
  <2>8. /\ rest \in Seq(EntryType) /\ Len(rest) = len - 1
        /\ \A i \in 1..len-1 : rest[i] = IF i <= m - 1 THEN u[i] ELSE v[i - (m - 1)]
    <3>1. /\ u \o v \in Seq(EntryType) /\ Len(u \o v) = Len(u) + Len(v)
          /\ \A i \in 1..Len(u) + Len(v) : (u \o v)[i] = IF i <= Len(u) THEN u[i] ELSE v[i - Len(u)]
      BY <2>6, <2>7, ConcatProperties
    <3>2. Len(u) + Len(v) = len - 1
      <4>1. len \in Nat /\ m \in Nat
        BY <1>1, <2>3, <2>4
      <4> QED BY <2>6, <2>7, <4>1
    <3> QED BY <2>5, <2>6, <3>1, <3>2
  <2>9. PICK f : f = [i \in 1..len-1 |-> IF i <= m - 1 THEN i ELSE i + 1]
    OBVIOUS
  <2>10. \A i \in 1..len-1 : /\ f[i] \in 1..len /\ f[i] # m
                            /\ rest[i] = names[f[i]]
    <3> TAKE i \in 1..len-1
    <3>1. CASE i <= m - 1
      <4>1. i \in 1..m-1 /\ i \in 1..len /\ i # m
        BY <1>1, <2>3, <2>4, <3>1
      <4> QED BY <2>6, <2>8, <2>9, <3>1, <4>1
    <3>2. CASE ~ (i <= m - 1)
      <4>1. i - (m - 1) \in 1..len-m /\ m + (i - (m - 1)) = i + 1 /\ i + 1 \in 1..len /\ i + 1 # m
        BY <1>1, <2>3, <2>4, <3>2
      <4> QED BY <2>7, <2>8, <2>9, <3>2, <4>1
    <3> QED BY <3>1, <3>2
  <2>11. \A i, j \in 1..len-1 : f[i] = f[j] => i = j
    BY <1>1, <2>3, <2>4, <2>9
  <2>12. Part(rest, names)
    <3>1. f \in [1..Len(rest) -> 1..Len(names)]
      BY <2>4, <2>8, <2>9, <2>10
    <3>2. \A i \in 1..Len(rest) : rest[i] = names[f[i]]
      BY <2>8, <2>10
    <3>3. \A i, j \in 1..Len(rest) : f[i] = f[j] => i = j
      BY <2>8, <2>11
    <3> QED BY ONLY <2>8, <3>1, <3>2, <3>3, Zenon DEF Part
  <2>13. \A i \in 1..Len(rest) : syms[rest[i].symbol].name # name
    <3>1. \A j \in 1..len : syms[names[j].symbol].name = name => j = m
      BY <2>3, <2>4 DEF NamesOK
    <3> QED BY <2>8, <2>10, <3>1
  <2> QED BY <2>8, <2>12, <2>13, PartOK
<1> QED BY <1>3, <1>4

\* An entry put before those of other names.
LEMMA AddedOK ==
  ASSUME NEW rest \in Seq(EntryType), NEW n, NEW syms, NamesOK(rest, n, syms), NEW e \in EntryType,
         e.symbol \in 1..Len(syms),
         \A i \in 1..Len(rest) : syms[rest[i].symbol].name # syms[e.symbol].name,
         syms[e.symbol].declared # "public" =>
           syms[e.symbol].home = n /\ e.publish = syms[e.symbol].declared,
         NEW names, names = <<e>> \o rest
  PROVE  names \in Seq(EntryType) /\ NamesOK(names, n, syms)
<1>1. <<e>> \in Seq(EntryType) /\ Len(<<e>>) = 1 /\ <<e>>[1] = e /\ Len(rest) \in Nat
  BY LenProperties
<1>2. /\ names \in Seq(EntryType) /\ Len(names) = 1 + Len(rest)
      /\ \A i \in 1..1 + Len(rest) : names[i] = IF i <= 1 THEN e ELSE rest[i - 1]
  <2>1. PICK one : one = <<e>>
    OBVIOUS
  <2>2. /\ one \o rest \in Seq(EntryType) /\ Len(one \o rest) = Len(one) + Len(rest)
        /\ \A i \in 1..Len(one) + Len(rest) : (one \o rest)[i] = IF i <= Len(one) THEN one[i] ELSE rest[i - Len(one)]
    BY <1>1, <2>1, ConcatProperties
  <2>3. \A i \in 1..1 + Len(rest) : i <= 1 => i = 1
    BY <1>1
  <2> QED BY <1>1, <2>1, <2>2, <2>3
<1>3. \A i \in 1..Len(names) : \/ i = 1 /\ names[i] = e
                               \/ i - 1 \in 1..Len(rest) /\ names[i] = rest[i - 1]
  BY <1>1, <1>2
<1>4. NamesOK(names, n, syms)
  <2>1. \A i \in 1..Len(names) : names[i].symbol \in 1..Len(syms)
    BY <1>3 DEF NamesOK
  <2>2. ASSUME NEW i \in 1..Len(names), NEW j \in 1..Len(names),
               syms[names[i].symbol].name = syms[names[j].symbol].name
        PROVE  i = j
    <3>1. ASSUME NEW k \in 1..Len(names), k # 1  PROVE syms[names[k].symbol].name # syms[e.symbol].name
      BY <1>3, <3>1
    <3>2. CASE i = 1
      BY <1>3, <2>2, <3>1, <3>2
    <3>3. CASE j = 1
      BY <1>3, <2>2, <3>1, <3>3
    <3>4. CASE i # 1 /\ j # 1
      <4>1. i - 1 = j - 1
        BY <1>3, <2>2, <3>4 DEF NamesOK
      <4> QED BY <4>1
    <3> QED BY <3>2, <3>3, <3>4
  <2>3. \A i \in 1..Len(names) :
          syms[names[i].symbol].declared # "public" =>
            syms[names[i].symbol].home = n /\ names[i].publish = syms[names[i].symbol].declared
    BY <1>3 DEF NamesOK
  <2> QED BY <2>1, <2>2, <2>3 DEF NamesOK
<1> QED BY <1>2, <1>4

-----------------------------------------------------------------------------
(* Namespaces and symbols *)

\* Symbols are never dropped, and nothing of one changes but whether it is defined.
Keeps(syms, more) ==
  /\ more \in Seq(SymbolType) /\ Len(syms) <= Len(more)
  /\ \A s \in 1..Len(syms) :
       /\ more[s].name = syms[s].name /\ more[s].class = syms[s].class
       /\ more[s].namespace = syms[s].namespace
       /\ more[s].home = syms[s].home /\ more[s].declared = syms[s].declared

\* Nor are namespaces; these differ in their names alone.
Widens(ns, ms) ==
  /\ ms \in Seq(SpaceType) /\ Len(ns) <= Len(ms)
  /\ \A n \in 1..Len(ns) : ms[n].previous = ns[n].previous /\ ms[n].publish = ns[n].publish

\* Or these, in their names and in whether they are open.
Deepens(ns, ms) ==
  /\ ms \in Seq(SpaceType) /\ Len(ns) <= Len(ms)
  /\ \A n \in 1..Len(ns) : ms[n].previous = ns[n].previous

SameScopes(ns, ms) == Widens(ns, ms) /\ Len(ms) = Len(ns)

LEMMA SymbolIs ==
  ASSUME NEW syms \in Seq(SymbolType)
  PROVE  /\ Len(syms) \in Nat /\ DOMAIN syms = 1..Len(syms)
         /\ \A s \in 1..Len(syms) : syms[s] \in SymbolType
<1>1. Len(syms) \in Nat /\ DOMAIN syms = 1..Len(syms)
  BY LenProperties
<1>2. \A s \in 1..Len(syms) : syms[s] \in SymbolType
  BY ElementOfSeq
<1> QED BY <1>1, <1>2

LEMMA SpaceIs ==
  ASSUME NEW ns \in Seq(SpaceType)
  PROVE  /\ Len(ns) \in Nat /\ DOMAIN ns = 1..Len(ns)
         /\ \A n \in 1..Len(ns) : /\ ns[n] \in SpaceType /\ ns[n].names \in Seq(EntryType)
                                  /\ ns[n].previous \in Nat /\ ns[n].publish \in Publishes
<1>1. Len(ns) \in Nat /\ DOMAIN ns = 1..Len(ns)
  BY LenProperties
<1>2. \A n \in 1..Len(ns) : ns[n] \in SpaceType
  BY ElementOfSeq
<1> QED BY <1>1, <1>2 DEF SpaceType

LEMMA NamesKeep ==
  ASSUME NEW names \in Seq(EntryType), NEW n, NEW syms \in Seq(SymbolType), NamesOK(names, n, syms),
         NEW more, Keeps(syms, more)
  PROVE  NamesOK(names, n, more)
<1>1. \A i \in 1..Len(names) :
        LET s == names[i].symbol IN
        /\ s \in 1..Len(syms) /\ s \in 1..Len(more)
        /\ more[s].name = syms[s].name /\ more[s].declared = syms[s].declared
        /\ more[s].home = syms[s].home
  BY SymbolIs DEF NamesOK, Keeps
<1>2. \A i, j \in 1..Len(names) :
        more[names[i].symbol].name = more[names[j].symbol].name => i = j
  BY <1>1 DEF NamesOK
<1>3. \A i \in 1..Len(names) :
        more[names[i].symbol].declared # "public" =>
          more[names[i].symbol].home = n /\ names[i].publish = more[names[i].symbol].declared
  BY <1>1 DEF NamesOK
<1> QED BY <1>1, <1>2, <1>3 DEF NamesOK

LEMMA SpacesKeep ==
  ASSUME NEW syms \in Seq(SymbolType), NEW ns, SpacesOK(ns, syms), NEW more, Keeps(syms, more)
  PROVE  SpacesOK(ns, more)
<1>1. ns \in Seq(SpaceType) /\ \A n \in 1..Len(ns) : ns[n].previous < n /\ NamesOK(ns[n].names, n, syms)
  BY DEF SpacesOK
<1>2. \A n \in 1..Len(ns) : NamesOK(ns[n].names, n, more)
  BY <1>1, SpaceIs, NamesKeep
<1> QED BY <1>1, <1>2 DEF SpacesOK

LEMMA ScopesTransitive ==
  ASSUME NEW ns \in Seq(SpaceType), NEW ms, SameScopes(ns, ms), NEW ls, SameScopes(ms, ls)
  PROVE  SameScopes(ns, ls)
BY DEF SameScopes, Widens

LEMMA ScopesSelf ==
  ASSUME NEW ns \in Seq(SpaceType)
  PROVE  SameScopes(ns, ns)
BY SpaceIs DEF SameScopes, Widens

LEMMA RenamesIs ==
  ASSUME NEW syms, NEW ns, SpacesOK(ns, syms), NEW n \in 1..Len(ns),
         NEW names \in Seq(EntryType), NamesOK(names, n, syms),
         NEW ms, ms = [ns EXCEPT ![n].names = names]
  PROVE  SpacesOK(ms, syms) /\ SameScopes(ns, ms)
<1>1. /\ ns \in Seq(SpaceType)
      /\ \A m \in 1..Len(ns) : ns[m].previous < m /\ NamesOK(ns[m].names, m, syms)
  BY DEF SpacesOK
<1>2. Len(ns) \in Nat /\ DOMAIN ns = 1..Len(ns) /\ ns[n] \in SpaceType
  BY <1>1, SpaceIs
<1>3. PICK x : x = [ns[n] EXCEPT !.names = names]
  OBVIOUS
<1>4. x \in SpaceType /\ x.names = names /\ x.previous = ns[n].previous /\ x.publish = ns[n].publish
  BY <1>2, <1>3 DEF SpaceType
<1>5. ms = [ns EXCEPT ![n] = x]
  BY <1>3
<1>6. /\ ms \in Seq(SpaceType) /\ Len(ms) = Len(ns)
      /\ \A m \in 1..Len(ns) : ms[m] = IF m = n THEN x ELSE ns[m]
  <2>1. /\ [ns EXCEPT ![n] = x] \in Seq(SpaceType) /\ Len([ns EXCEPT ![n] = x]) = Len(ns)
        /\ \A m \in 1..Len(ns) : [ns EXCEPT ![n] = x][m] = IF m = n THEN x ELSE ns[m]
    BY ONLY <1>1, <1>4, n \in 1..Len(ns), ExceptSeq
  <2> QED BY <1>5, <2>1
<1>7. SameScopes(ns, ms)
  BY <1>2, <1>4, <1>6 DEF SameScopes, Widens
<1>8. \A m \in 1..Len(ns) : ms[m].previous < m /\ NamesOK(ms[m].names, m, syms)
  <2> TAKE m \in 1..Len(ns)
  <2>1. CASE m = n
    BY <1>1, <1>4, <1>6, <2>1
  <2>2. CASE m # n
    BY <1>1, <1>6, <2>2
  <2> QED BY <2>1, <2>2
<1>9. SpacesOK(ms, syms)
  BY <1>6, <1>8 DEF SpacesOK
<1> QED BY <1>7, <1>9

\* A symbol that may be listed so in namespace n.
Listable(s, n, publish, syms) ==
  /\ s \in 1..Len(syms)
  /\ syms[s].declared # "public" => syms[s].home = n /\ publish = syms[s].declared

LEMMA AddNameIs ==
  ASSUME NEW syms, NEW ns, SpacesOK(ns, syms), NEW n \in 1..Len(ns), NEW s \in Nat,
         NEW publish \in Publishes, Listable(s, n, publish, syms),
         NEW ms, ms = NamespaceAddName(ns, n, s, publish, syms)
  PROVE  SpacesOK(ms, syms) /\ SameScopes(ns, ms)
<1>1. ns[n].names \in Seq(EntryType) /\ NamesOK(ns[n].names, n, syms)
  BY SpaceIs DEF SpacesOK
<1>2. PICK rest : rest = NamespaceRemoveName(ns[n].names, syms[s].name, syms)
  OBVIOUS
<1>3. /\ rest \in Seq(EntryType) /\ NamesOK(rest, n, syms)
      /\ \A i \in 1..Len(rest) : syms[rest[i].symbol].name # syms[s].name
  BY <1>1, <1>2, RemoveIs
<1>4. PICK e : e = Entry(s, publish)
  OBVIOUS
<1>5. e \in EntryType /\ e.symbol = s /\ e.publish = publish
  BY <1>4, EntryIs
<1>6. PICK names : names = <<e>> \o rest
  OBVIOUS
<1>7. names \in Seq(EntryType) /\ NamesOK(names, n, syms)
  BY <1>3, <1>5, <1>6, AddedOK DEF Listable
<1>8. ms = [ns EXCEPT ![n].names = names]
  BY <1>2, <1>4, <1>6 DEF NamespaceAddName
<1> QED BY <1>7, <1>8, RenamesIs

-----------------------------------------------------------------------------
(* Imports *)

Good(ns, syms) == {ms \in Seq(SpaceType) : SpacesOK(ms, syms) /\ SameScopes(ns, ms)}

LEMMA GoodSelf ==
  ASSUME NEW ns, NEW syms, SpacesOK(ns, syms)
  PROVE  ns \in Good(ns, syms)
BY ScopesSelf DEF Good, SpacesOK

LEMMA GoodTransitive ==
  ASSUME NEW ns \in Seq(SpaceType), NEW syms, NEW ms \in Good(ns, syms), NEW ls \in Good(ms, syms)
  PROVE  ls \in Good(ns, syms)
BY ScopesTransitive DEF Good

\* What NamespaceImport does with the i-th entry.
Brings(names, n, publish, i, t) ==
  IF names[i].publish = "public" THEN NamespaceAddName(t, n, names[i].symbol, publish, symbols)
  ELSE t

LEMMA BringsIs ==
  ASSUME NEW ns, NEW n \in 1..Len(ns), NEW from, NEW publish \in Publishes,
         NEW names \in Seq(EntryType), NamesOK(names, from, symbols),
         NEW i \in 1..Len(names), NEW t \in Good(ns, symbols)
  PROVE  Brings(names, n, publish, i, t) \in Good(ns, symbols)
<1>1. t \in Seq(SpaceType) /\ SpacesOK(t, symbols) /\ SameScopes(ns, t) /\ Len(t) = Len(ns)
  BY DEF Good, SameScopes
<1>2. CASE names[i].publish = "public"
  <2>1. PICK s \in Nat : s = names[i].symbol
    BY NamesIs
  <2>2. Listable(s, n, publish, symbols)
    BY <1>2, <2>1 DEF NamesOK, Listable
  <2>3. PICK u : u = NamespaceAddName(t, n, s, publish, symbols)
    OBVIOUS
  <2>4. SpacesOK(u, symbols) /\ SameScopes(t, u)
    BY <1>1, <2>2, <2>3, AddNameIs
  <2>5. u \in Seq(SpaceType) /\ Len(ns) \in Nat
    BY <1>1, <2>4, SpaceIs DEF SpacesOK
  <2>6. SameScopes(ns, u)
    BY <1>1, <2>4, <2>5 DEF SameScopes, Widens
  <2>7. u \in Good(ns, symbols)
    BY <2>4, <2>5, <2>6 DEF Good
  <2> QED BY <1>2, <2>1, <2>3, <2>7 DEF Brings
<1>3. CASE names[i].publish # "public"
  BY <1>3 DEF Brings
<1> QED BY <1>2, <1>3

LEMMA ImportIs ==
  ASSUME NEW ns, SpacesOK(ns, symbols), NEW n \in 1..Len(ns), NEW from \in 1..Len(ns),
         NEW publish \in Publishes
  PROVE  NamespaceImport(ns, n, from, publish) \in Good(ns, symbols)
<1>1. PICK names : names = ns[from].names
  OBVIOUS
<1>2. names \in Seq(EntryType) /\ NamesOK(names, from, symbols)
  BY <1>1, SpaceIs DEF SpacesOK
<1>3. PICK len \in Nat : len = Len(names)
  BY <1>2, NamesIs
<1> DEFINE T == Good(ns, symbols)
           step == [p \in (1..len) \X T |-> Brings(names, n, publish, p[1], p[2])]
           Eq(K) == K = [i \in 0..Len(ns[from].names) |->
                           IF i = 0 THEN ns ELSE Brings(ns[from].names, n, publish, i, K[i - 1])]
<1>4. ns \in T
  BY GoodSelf
<1>5. \A i \in 1..len, t \in T : Brings(names, n, publish, i, t) \in T
  BY <1>2, <1>3, BringsIs
<1>6. step \in [(1..len) \X T -> T]
  BY <1>5
<1>7. PICK f \in [0..len -> T] : f[0] = ns /\ \A i \in 1..len : f[i] = step[<<i, f[i - 1]>>]
  <2> HIDE DEF step, T
  <2>1. PICK f \in [0..len -> T] : Runs(f, len, ns, step)
    BY <1>4, <1>6, Recursion
  <2> QED BY <2>1 DEF Runs
<1>8. \A i \in 1..len : f[i] = Brings(names, n, publish, i, f[i - 1])
  <2> TAKE i \in 1..len
  <2> HIDE DEF T
  <2>1. f[i - 1] \in T
    BY <1>7
  <2>2. step[<<i, f[i - 1]>>] = Brings(names, n, publish, i, f[i - 1])
    BY <2>1
  <2> HIDE DEF step
  <2> QED BY <1>7, <2>2
<1>9. Eq(f)
  <2> HIDE DEF T
  <2>1. \A m \in 0..len : m = 0 \/ m \in 1..len
    OBVIOUS
  <2>2. \A m \in 0..len : f[m] = IF m = 0 THEN ns ELSE Brings(names, n, publish, m, f[m - 1])
    BY <1>7, <1>8, <2>1
  <2> QED BY <1>1, <1>3, <1>7, <2>2
<1>10. PICK K : Eq(K) /\ K = CHOOSE g : Eq(g)
  BY <1>9
<1>11. NamespaceImport(ns, n, from, publish) = K[len]
  <2>1. NamespaceImport(ns, n, from, publish) = K[Len(ns[from].names)]
    BY <1>10, Zenon DEF NamespaceImport, Brings
  <2> QED BY <1>1, <1>3, <2>1
<1>12. K[len] \in T
  <2> DEFINE S == {m \in 0..len : K[m] \in T}
  <2> HIDE DEF T
  <2>1. K[0] = ns /\ \A m \in 1..len : K[m] = Brings(names, n, publish, m, K[m - 1])
    <3>1. 0 \in 0..len /\ \A m \in 1..len : m \in 0..len /\ m # 0
      OBVIOUS
    <3> QED BY <1>1, <1>3, <1>10, <3>1
  <2>2. 0 \in S
    BY <1>4, <2>1
  <2>3. \A m \in 1..len : m - 1 \in S => m \in S
    BY <1>5, <2>1
  <2>4. len \in S
    <3>1. len \in 0..len
      OBVIOUS
    <3> HIDE DEF S
    <3> QED BY <2>2, <2>3, <3>1, UpTo
  <2> QED BY <2>4
<1> QED BY <1>11, <1>12

-----------------------------------------------------------------------------
(* Lookup *)

SpacesHere == /\ SymbolsOK(symbols, Len(spaces)) /\ SpacesOK(spaces, symbols)
              /\ Len(spaces) \in Nat /\ DOMAIN spaces = 1..Len(spaces)

LEMMA HereIs ==
  ASSUME SymbolsOK(symbols, Len(spaces)), SpacesOK(spaces, symbols)
  PROVE  SpacesHere
BY SpaceIs DEF SpacesHere, SpacesOK

\* From a namespace to the next that is searched.
Up(search, m) == IF search /\ m # 0 THEN spaces[m].previous ELSE 0

\* The namespaces that a search from n visits, and the entry found in them.
Visits(K, n, search) ==
  /\ K \in [0..Len(spaces) -> 0..Len(spaces)]
  /\ K[0] = n /\ \A i \in 1..Len(spaces) : K[i] = Up(search, K[i - 1])

FoundBy(K, name, allowPrivate) ==
  LET has == {i \in DOMAIN K : K[i] # 0 /\ Matches(K[i], name, allowPrivate) # {}}
      m == K[Earliest(has)]
  IN  IF has = {} THEN Entry(0, "private")
      ELSE spaces[m].names[Earliest(Matches(m, name, allowPrivate))]

LEMMA UpIs ==
  ASSUME SpacesHere, NEW search, NEW m \in 0..Len(spaces)
  PROVE  Up(search, m) \in 0..Len(spaces)
<1>1. CASE search /\ m # 0
  <2>1. m \in 1..Len(spaces)
    BY <1>1
  <2>2. spaces[m].previous < m /\ spaces[m].previous \in Nat
    BY <2>1, SpaceIs DEF SpacesHere, SpacesOK
  <2> QED BY <1>1, <2>1, <2>2 DEF Up, SpacesHere
<1>2. CASE ~ (search /\ m # 0)
  BY <1>2 DEF Up, SpacesHere
<1> QED BY <1>1, <1>2

LEMMA FindBy ==
  ASSUME SpacesHere, NEW n \in 0..Len(spaces), NEW name, NEW search \in BOOLEAN, NEW allow \in BOOLEAN
  PROVE  \E K : /\ Visits(K, n, search)
                /\ NamespaceFindNamelist(n, name, search, allow) = FoundBy(K, name, allow)
<1>1. PICK len \in Nat : len = Len(spaces)
  BY DEF SpacesHere
<1> DEFINE T == 0..len
           step == [p \in (1..len) \X T |-> Up(search, p[2])]
           Eq(K) == K = [i \in 0..Len(spaces) |-> IF i = 0 THEN n ELSE Up(search, K[i - 1])]
<1>2. \A t \in T : Up(search, t) \in T
  BY <1>1, UpIs
<1>3. step \in [(1..len) \X T -> T]
  BY <1>2
<1>4. PICK f \in [0..len -> T] : f[0] = n /\ \A i \in 1..len : f[i] = step[<<i, f[i - 1]>>]
  <2>1. n \in T
    BY <1>1
  <2> HIDE DEF step, T
  <2>2. PICK f \in [0..len -> T] : Runs(f, len, n, step)
    BY <1>3, <2>1, Recursion
  <2> QED BY <2>2 DEF Runs
<1>5. \A i \in 1..len : f[i] = Up(search, f[i - 1])
  <2> TAKE i \in 1..len
  <2> HIDE DEF T
  <2>1. f[i - 1] \in T
    BY <1>4
  <2>2. step[<<i, f[i - 1]>>] = Up(search, f[i - 1])
    BY <2>1
  <2> HIDE DEF step
  <2> QED BY <1>4, <2>2
<1>6. Eq(f)
  <2> HIDE DEF T
  <2>1. \A m \in 0..len : m = 0 \/ m \in 1..len
    OBVIOUS
  <2>2. \A m \in 0..len : f[m] = IF m = 0 THEN n ELSE Up(search, f[m - 1])
    BY <1>4, <1>5, <2>1
  <2> QED BY <1>1, <1>4, <2>2
<1>7. PICK K : Eq(K) /\ K = CHOOSE g : Eq(g)
  BY <1>6
<1>8. NamespaceFindNamelist(n, name, search, allow) = FoundBy(K, name, allow)
  <2>1. NamespaceFindNamelist(n, name, search, allow) = FoundBy(CHOOSE g : Eq(g), name, allow)
    BY ONLY Zenon DEF NamespaceFindNamelist, FoundBy, Up
  <2> HIDE DEF Eq
  <2> QED BY <1>7, <2>1
<1>9. K[0] = n /\ \A m \in 1..len : K[m] = Up(search, K[m - 1])
  <2>1. 0 \in 0..len /\ \A m \in 1..len : m \in 0..len /\ m # 0
    OBVIOUS
  <2> QED BY <1>1, <1>7, <2>1
<1>10. \A m \in 0..len : K[m] \in T
  <2> DEFINE S == {m \in 0..len : K[m] \in T}
  <2>1. 0 \in S
    BY <1>1, <1>9
  <2>2. ASSUME NEW m \in 1..len, m - 1 \in S  PROVE m \in S
    <3>1. K[m - 1] \in T /\ m \in 0..len
      BY <2>2
    <3>2. K[m] \in T
      <4> HIDE DEF T
      <4> QED BY <1>2, <1>9, <3>1
    <3> QED BY <3>1, <3>2
  <2>3. \A m \in 0..len : m \in S
    <3> HIDE DEF S
    <3> QED BY <2>1, <2>2, UpTo
  <2> QED BY <2>3
<1>11. Visits(K, n, search)
  <2>1. K \in [0..len -> T]
    <3> HIDE DEF T
    <3> QED BY <1>1, <1>7, <1>10
  <2> QED BY <1>1, <1>9, <2>1 DEF Visits
<1> QED BY <1>8, <1>11

\* The entries that a lookup may find.
Visible(e, name, allowPrivate) ==
  \E m \in 1..Len(spaces) : \E i \in 1..Len(spaces[m].names) :
    /\ e = spaces[m].names[i] /\ symbols[e.symbol].name = name
    /\ allowPrivate \/ spaces[m].publish # "private" \/ e.publish # "private"

LEMMA MatchIs ==
  ASSUME SpacesHere, NEW m \in 1..Len(spaces), NEW name, NEW allow \in BOOLEAN,
         NEW at, at = Matches(m, name, allow)
  PROVE  /\ at = {i \in 1..Len(spaces[m].names) :
                    /\ symbols[spaces[m].names[i].symbol].name = name
                    /\ allow \/ spaces[m].publish # "private" \/ spaces[m].names[i].publish # "private"}
         /\ at # {} => Earliest(at) \in at
<1>1. PICK names : names = spaces[m].names
  OBVIOUS
<1>2. names \in Seq(EntryType)
  BY <1>1, SpaceIs DEF SpacesHere, SpacesOK
<1>3. DOMAIN names = 1..Len(names) /\ Len(names) \in Nat
  BY <1>2, NamesIs
<1>4. at = {i \in 1..Len(names) :
              /\ symbols[names[i].symbol].name = name
              /\ allow \/ spaces[m].publish # "private" \/ names[i].publish # "private"}
  BY <1>1, <1>3 DEF Matches
<1>5. at \in SUBSET Nat
  BY <1>3, <1>4
<1> QED BY <1>1, <1>4, <1>5, EarliestIs

LEMMA FindIs ==
  ASSUME SpacesHere, NEW n \in 0..Len(spaces), NEW name, NEW search \in BOOLEAN, NEW allow \in BOOLEAN,
         NEW e, e = NamespaceFindNamelist(n, name, search, allow)
  PROVE  e = Entry(0, "private") \/ Visible(e, name, allow)
<1>1. PICK K : Visits(K, n, search) /\ e = FoundBy(K, name, allow)
  BY FindBy
<1>2. PICK has : has = {i \in DOMAIN K : K[i] # 0 /\ Matches(K[i], name, allow) # {}}
  OBVIOUS
<1>3. CASE has = {}
  BY <1>1, <1>2, <1>3 DEF FoundBy
<1>4. CASE has # {}
  <2>1. has \in SUBSET Nat
    BY <1>1, <1>2 DEF Visits, SpacesHere
  <2>2. PICK i \in has : i = Earliest(has)
    BY <1>4, <2>1, EarliestIs
  <2>3. PICK m \in 1..Len(spaces) : m = K[i] /\ Matches(m, name, allow) # {}
    <3>1. K[i] \in 0..Len(spaces) /\ K[i] # 0 /\ Matches(K[i], name, allow) # {}
      BY <1>1, <1>2, <2>2 DEF Visits
    <3> QED BY <3>1 DEF SpacesHere
  <2>4. PICK at : at = Matches(m, name, allow)
    OBVIOUS
  <2>5. PICK j : j = Earliest(at)
    OBVIOUS
  <2>6. /\ j \in 1..Len(spaces[m].names) /\ symbols[spaces[m].names[j].symbol].name = name
        /\ allow \/ spaces[m].publish # "private" \/ spaces[m].names[j].publish # "private"
    BY <2>3, <2>4, <2>5, MatchIs
  <2>7. e = spaces[m].names[j]
    BY <1>1, <1>2, <1>4, <2>2, <2>3, <2>4, <2>5 DEF FoundBy
  <2>8. Visible(e, name, allow)
    BY <2>6, <2>7 DEF Visible
  <2> QED BY <2>8
<1> QED BY <1>3, <1>4

Stays(n, search) == search => spaces[n].previous = 0

LEMMA StaysIs ==
  ASSUME NEW n, NEW search \in BOOLEAN, ~ search \/ spaces[n].previous = 0
  PROVE  Stays(n, search)
BY DEF Stays

FirstOf(e, n, at) == e = IF at = {} THEN Entry(0, "private") ELSE spaces[n].names[Earliest(at)]

\* A lookup that does not go on finds what is listed here.
LEMMA FindHere ==
  ASSUME SpacesHere, NEW n \in 1..Len(spaces), NEW name, NEW search \in BOOLEAN, NEW allow \in BOOLEAN,
         Stays(n, search),
         NEW at, at = Matches(n, name, allow),
         NEW e, e = NamespaceFindNamelist(n, name, search, allow)
  PROVE  FirstOf(e, n, at)
<1>1. PICK K : Visits(K, n, search) /\ e = FoundBy(K, name, allow)
  BY FindBy
<1>2. PICK has : has = {i \in DOMAIN K : K[i] # 0 /\ Matches(K[i], name, allow) # {}}
  OBVIOUS
<1>3. PICK len \in Nat : len = Len(spaces)
  BY DEF SpacesHere
<1>4. K \in [0..len -> 0..len] /\ K[0] = n /\ \A i \in 1..len : K[i] = Up(search, K[i - 1])
  BY <1>1, <1>3 DEF Visits
<1>5. \A i \in 1..len : K[i] = 0
  <2> DEFINE S == {i \in 0..len : K[i] \in {0, n} /\ (i # 0 => K[i] = 0)}
  <2>1. 0 \in S
    BY <1>4
  <2>2. Up(search, n) = 0 /\ Up(search, 0) = 0
    BY DEF Up, Stays
  <2>3. ASSUME NEW i \in 1..len, i - 1 \in S  PROVE i \in S
    <3>1. K[i - 1] \in {0, n} /\ i \in 0..len
      BY <2>3
    <3> QED BY <1>4, <2>2, <3>1
  <2>4. \A i \in 0..len : i \in S
    <3> HIDE DEF S
    <3> QED BY <2>1, <2>3, UpTo
  <2> QED BY <2>4
<1>6. has = IF at = {} THEN {} ELSE {0}
  <2>1. \A i \in has : i = 0
    BY <1>2, <1>4, <1>5
  <2>2. 0 \in has <=> at # {}
    <3>1. 0 \in DOMAIN K /\ K[0] = n /\ n # 0
      BY <1>3, <1>4
    <3>2. 0 \in has <=> Matches(n, name, allow) # {}
      BY <1>2, <3>1
    <3> QED BY <3>2
  <2>3. CASE at = {}
    BY <2>1, <2>2, <2>3
  <2>4. CASE at # {}
    BY <2>1, <2>2, <2>4
  <2> QED BY <2>3, <2>4
<1>7. CASE at = {}
  BY <1>1, <1>2, <1>6, <1>7 DEF FoundBy, FirstOf
<1>8. CASE at # {}
  <2>1. has = {0} /\ has # {}
    BY <1>6, <1>8
  <2>2. Earliest(has) = 0
    BY <2>1, EarliestIs
  <2> QED BY <1>1, <1>2, <1>4, <1>8, <2>1, <2>2 DEF FoundBy, FirstOf
<1> QED BY <1>7, <1>8

-----------------------------------------------------------------------------
(* Paths *)

\* What the i-th component of a path means, after s.
Means(path, i, s) ==
  IF IsNamespace(s) THEN NamespaceFindName(symbols[s].namespace, path[i], FALSE) ELSE 0

\* What every component means to the compiler.
Meaning(K, path) ==
  /\ DOMAIN K = 1..Len(path)
  /\ K[1] = NamespaceFindName(current, path[1], TRUE)
  /\ \A i \in 2..Len(path) : K[i] = Means(path, i, K[i - 1])

\* A symbol and a namespace that shows it, or nothing.
Shown(s, name, allow) ==
  s = 0 \/ \E m \in 1..Len(spaces) : \E i \in 1..Len(spaces[m].names) :
             /\ s = spaces[m].names[i].symbol /\ symbols[s].name = name
             /\ allow \/ spaces[m].publish # "private" \/ spaces[m].names[i].publish # "private"

LEMMA FindNameIs ==
  ASSUME SpacesHere, NEW n \in 0..Len(spaces), NEW name, NEW search \in BOOLEAN,
         NEW s, s = NamespaceFindName(n, name, search)
  PROVE  s \in 0..Len(symbols) /\ Shown(s, name, FALSE)
<1>1. PICK e : e = NamespaceFindNamelist(n, name, search, FALSE)
  OBVIOUS
<1>2. s = e.symbol
  BY <1>1 DEF NamespaceFindName
<1>3. e = Entry(0, "private") \/ Visible(e, name, FALSE)
  BY <1>1, FindIs
<1>4. Len(symbols) \in Nat
  BY SymbolIs DEF SpacesHere, SymbolsOK
<1>5. CASE e = Entry(0, "private")
  <2>1. s = 0
    BY <1>2, <1>5 DEF Entry
  <2> QED BY <1>4, <2>1 DEF Shown
<1>6. CASE Visible(e, name, FALSE)
  <2> DEFINE At(m, i) == /\ e = spaces[m].names[i] /\ symbols[e.symbol].name = name
                         /\ spaces[m].publish # "private" \/ e.publish # "private"
  <2>0. PICK m \in 1..Len(spaces) : \E i \in 1..Len(spaces[m].names) : At(m, i)
    BY <1>6 DEF Visible
  <2>1. PICK i \in 1..Len(spaces[m].names) : At(m, i)
    BY <2>0
  <2>2. Shown(s, name, FALSE)
    BY <1>2, <2>1 DEF Shown
  <2>3. s \in 1..Len(symbols)
    <3>1. NamesOK(spaces[m].names, m, symbols)
      BY DEF SpacesHere, SpacesOK
    <3> QED BY <1>2, <2>1, <3>1 DEF NamesOK
  <2>4. s \in 0..Len(symbols)
    BY <1>4, <2>3
  <2> QED BY <2>2, <2>4
<1> QED BY <1>3, <1>5, <1>6

LEMMA MeansIs ==
  ASSUME SpacesHere, NEW path, NEW i, NEW s \in 0..Len(symbols), NEW t, t = Means(path, i, s)
  PROVE  t \in 0..Len(symbols) /\ Shown(t, path[i], FALSE)
<1>1. CASE IsNamespace(s)
  <2>1. Len(symbols) \in Nat
    BY SymbolIs DEF SpacesHere, SymbolsOK
  <2>2. s \in 1..Len(symbols) /\ symbols[s].class = "namespace"
    BY <1>1, <2>1 DEF IsNamespace
  <2>3. symbols[s].namespace \in 1..Len(spaces)
    BY <2>2 DEF SpacesHere, SymbolsOK
  <2>4. PICK n \in 0..Len(spaces) : n = symbols[s].namespace
    BY <2>3 DEF SpacesHere
  <2>5. t = NamespaceFindName(n, path[i], FALSE)
    BY <1>1, <2>4 DEF Means
  <2> QED BY <2>5, FindNameIs
<1>2. CASE ~ IsNamespace(s)
  <2>1. Len(symbols) \in Nat
    BY SymbolIs DEF SpacesHere, SymbolsOK
  <2> QED BY <1>2, <2>1 DEF Means, Shown
<1> QED BY <1>1, <1>2

LEMMA FullnameBy ==
  ASSUME SpacesHere, current \in 1..Len(spaces), NEW path, Len(path) \in Nat \ {0}
  PROVE  \E K : /\ Meaning(K, path) /\ BuildFullname(path) = K[Len(path)]
                /\ \A i \in 1..Len(path) : K[i] \in 0..Len(symbols) /\ Shown(K[i], path[i], FALSE)
<1>1. PICK len \in Nat \ {0} : len = Len(path)
  OBVIOUS
<1> DEFINE T == 0..Len(symbols)
           first == NamespaceFindName(current, path[1], TRUE)
           step == [p \in (2..len) \X T |-> Means(path, p[1], p[2])]
           Eq(K) == K = [i \in 1..Len(path) |-> IF i = 1 THEN first ELSE Means(path, i, K[i - 1])]
<1>2. first \in T /\ Shown(first, path[1], FALSE)
  <2>1. current \in 0..Len(spaces)
    BY DEF SpacesHere
  <2>2. PICK s : s = first
    OBVIOUS
  <2>3. s \in 0..Len(symbols) /\ Shown(s, path[1], FALSE)
    BY <2>1, <2>2, FindNameIs
  <2> QED BY <2>2, <2>3
<1> HIDE DEF first
<1>3. \A i \in 2..len, t \in T : Means(path, i, t) \in T /\ Shown(Means(path, i, t), path[i], FALSE)
  BY MeansIs
<1>4. step \in [(2..len) \X T -> T]
  BY <1>3
<1>5. PICK f \in [1..len -> T] : f[1] = first /\ \A i \in 2..len : f[i] = step[<<i, f[i - 1]>>]
  <2>1. first \in T
    BY <1>2
  <2> HIDE DEF step, T
  <2>2. PICK f \in [1..len -> T] : RunsFrom1(f, len, first, step)
    BY <1>4, <2>1, RecursionFrom1
  <2> QED BY <2>2 DEF RunsFrom1
<1>6. \A i \in 2..len : f[i] = Means(path, i, f[i - 1])
  <2> TAKE i \in 2..len
  <2> HIDE DEF T
  <2>1. i - 1 \in 1..len
    OBVIOUS
  <2>2. f[i - 1] \in T
    BY <1>5, <2>1
  <2>3. step[<<i, f[i - 1]>>] = Means(path, i, f[i - 1])
    BY <2>2
  <2> HIDE DEF step
  <2> QED BY <1>5, <2>3
<1>7. \A m \in 1..len : m = 1 \/ m \in 2..len
  OBVIOUS
<1>8. Eq(f)
  <2> HIDE DEF T
  <2>1. \A m \in 1..len : f[m] = IF m = 1 THEN first ELSE Means(path, m, f[m - 1])
    BY <1>5, <1>6, <1>7
  <2> QED BY <1>1, <1>5, <2>1
<1>9. PICK K : Eq(K) /\ K = CHOOSE g : Eq(g)
  BY <1>8
<1>10. BuildFullname(path) = K[len]
  <2>1. BuildFullname(path) = (CHOOSE g : Eq(g))[Len(path)]
    BY ONLY Zenon DEF BuildFullname, Means, first
  <2> HIDE DEF Eq
  <2> QED BY <1>1, <1>9, <2>1
<1>11. Meaning(K, path)
  <2>1. DOMAIN K = 1..len
    BY <1>1, <1>9
  <2>2. 1 \in 1..len /\ \A i \in 2..len : i \in 1..len /\ i # 1
    OBVIOUS
  <2>3. K[1] = first /\ \A i \in 2..len : K[i] = Means(path, i, K[i - 1])
    BY <1>1, <1>9, <2>2
  <2> QED BY <1>1, <2>1, <2>3 DEF Meaning, first
<1>12. \A i \in 1..len : K[i] \in T /\ Shown(K[i], path[i], FALSE)
  <2> DEFINE Fine(i) == K[i] \in T /\ Shown(K[i], path[i], FALSE)
             S == {j \in 0..len : j = 0 \/ Fine(j)}
  <2>1. 0 \in S
    OBVIOUS
  <2>2. ASSUME NEW i \in 1..len, i - 1 = 0 \/ Fine(i - 1)  PROVE Fine(i)
    <3>1. CASE i = 1
      <4>1. K[1] = first
        BY <1>11 DEF Meaning, first
      <4> QED BY <1>2, <3>1, <4>1
    <3>2. CASE i # 1
      <4>1. i \in 2..len /\ i - 1 # 0
        BY <3>2
      <4>2. K[i - 1] \in T
        BY <2>2, <4>1
      <4>3. K[i] = Means(path, i, K[i - 1])
        BY <1>1, <1>11, <4>1 DEF Meaning
      <4> HIDE DEF T
      <4> QED BY <1>3, <4>1, <4>2, <4>3
    <3> QED BY <3>1, <3>2
  <2>3. \A i \in 0..len : i \in S
    <3> HIDE DEF Fine
    <3>1. \A i \in 1..len : i - 1 \in S => i \in S
      BY <2>2
    <3> HIDE DEF S
    <3> QED BY <2>1, <3>1, UpTo
  <2>4. \A i \in 1..len : i \in 0..len /\ i # 0
    OBVIOUS
  <2> HIDE DEF Fine
  <2>5. \A i \in 1..len : Fine(i)
    BY <2>3, <2>4
  <2> QED BY <2>5 DEF Fine
<1> QED BY <1>1, <1>10, <1>11, <1>12

\* What the i-th component is to the commands, after r.
Place(n, name, search) ==
  [namespace |-> n, symbol |-> NamespaceFindNamelist(n, name, search, TRUE).symbol]

Places(path, i, r) ==
  IF IsNamespace(r.symbol) THEN Place(symbols[r.symbol].namespace, path[i], FALSE)
  ELSE [namespace |-> 0, symbol |-> 0]

PlaceType == [namespace : 0..Len(spaces), symbol : 0..Len(symbols)]

LEMMA PlaceIs ==
  ASSUME SpacesHere, NEW n \in 0..Len(spaces), NEW name, NEW search \in BOOLEAN
  PROVE  Place(n, name, search) \in PlaceType
<1>1. PICK e : e = NamespaceFindNamelist(n, name, search, TRUE)
  OBVIOUS
<1>2. e = Entry(0, "private") \/ Visible(e, name, TRUE)
  BY <1>1, FindIs
<1>3. Len(symbols) \in Nat
  BY SymbolIs DEF SpacesHere, SymbolsOK
<1>4. CASE e = Entry(0, "private")
  <2>1. e.symbol = 0
    BY <1>4 DEF Entry
  <2>2. 0 \in 0..Len(symbols)
    BY <1>3
  <2>3. Place(n, name, search) = [namespace |-> n, symbol |-> 0]
    BY <1>1, <2>1 DEF Place
  <2> QED BY <2>2, <2>3 DEF PlaceType
<1>5. CASE Visible(e, name, TRUE)
  <2>1. PICK m \in 1..Len(spaces) : \E i \in 1..Len(spaces[m].names) : e = spaces[m].names[i]
    BY <1>5 DEF Visible
  <2>2. NamesOK(spaces[m].names, m, symbols)
    BY DEF SpacesHere, SpacesOK
  <2>3. e.symbol \in 1..Len(symbols)
    BY <2>1, <2>2 DEF NamesOK
  <2>4. e.symbol \in 0..Len(symbols)
    BY <1>3, <2>3
  <2> QED BY <1>1, <2>4 DEF Place, PlaceType
<1> QED BY <1>2, <1>4, <1>5

LEMMA PlacesIs ==
  ASSUME SpacesHere, NEW path, NEW i, NEW r \in PlaceType
  PROVE  Places(path, i, r) \in PlaceType
<1>1. PICK s \in 0..Len(symbols) : s = r.symbol
  BY DEF PlaceType
<1>2. Len(symbols) \in Nat /\ Len(spaces) \in Nat
  BY SymbolIs DEF SpacesHere, SymbolsOK
<1>3. CASE IsNamespace(s)
  <2>1. s \in 1..Len(symbols) /\ symbols[s].class = "namespace"
    BY <1>2, <1>3 DEF IsNamespace
  <2>2. symbols[s].namespace \in 1..Len(spaces)
    BY <2>1 DEF SpacesHere, SymbolsOK
  <2>3. PICK n \in 0..Len(spaces) : n = symbols[s].namespace
    BY <1>2, <2>2
  <2>4. Places(path, i, r) = Place(n, path[i], FALSE)
    BY <1>1, <1>3, <2>3 DEF Places
  <2> QED BY <2>4, PlaceIs
<1>4. CASE ~ IsNamespace(s)
  BY <1>1, <1>2, <1>4 DEF Places, PlaceType
<1> QED BY <1>3, <1>4

Location(K, path) ==
  /\ K[1] = Place(current, path[1], TRUE)
  /\ \A i \in 2..Len(path) : K[i] = Places(path, i, K[i - 1])

LEMMA LocateBy ==
  ASSUME SpacesHere, current \in 1..Len(spaces), NEW path, Len(path) \in Nat \ {0}
  PROVE  \E K : Location(K, path) /\ NamespaceLocate(path) = K[Len(path)]
<1>1. PICK len \in Nat \ {0} : len = Len(path)
  OBVIOUS
<1> DEFINE T == PlaceType
           first == Place(current, path[1], TRUE)
           step == [p \in (2..len) \X T |-> Places(path, p[1], p[2])]
           Eq(K) == K = [i \in 1..Len(path) |-> IF i = 1 THEN first ELSE Places(path, i, K[i - 1])]
<1>2. first \in T
  <2>1. current \in 0..Len(spaces)
    BY DEF SpacesHere
  <2> QED BY <2>1, PlaceIs
<1> HIDE DEF first
<1>3. \A i \in 2..len, t \in T : Places(path, i, t) \in T
  BY PlacesIs
<1>4. step \in [(2..len) \X T -> T]
  BY <1>3
<1>5. PICK f \in [1..len -> T] : f[1] = first /\ \A i \in 2..len : f[i] = step[<<i, f[i - 1]>>]
  <2> HIDE DEF step, T
  <2>1. PICK f \in [1..len -> T] : RunsFrom1(f, len, first, step)
    BY <1>2, <1>4, RecursionFrom1
  <2> QED BY <2>1 DEF RunsFrom1
<1>6. \A i \in 2..len : f[i] = Places(path, i, f[i - 1])
  <2> TAKE i \in 2..len
  <2> HIDE DEF T
  <2>1. i - 1 \in 1..len
    OBVIOUS
  <2>2. f[i - 1] \in T
    BY <1>5, <2>1
  <2>3. step[<<i, f[i - 1]>>] = Places(path, i, f[i - 1])
    BY <2>2
  <2> HIDE DEF step
  <2> QED BY <1>5, <2>3
<1>7. \A m \in 1..len : m = 1 \/ m \in 2..len
  OBVIOUS
<1>8. Eq(f)
  <2> HIDE DEF T
  <2>1. \A m \in 1..len : f[m] = IF m = 1 THEN first ELSE Places(path, m, f[m - 1])
    BY <1>5, <1>6, <1>7
  <2> QED BY <1>1, <1>5, <2>1
<1>9. PICK K : Eq(K) /\ K = CHOOSE g : Eq(g)
  BY <1>8
<1>10. NamespaceLocate(path) = K[len]
  <2>1. NamespaceLocate(path) = (CHOOSE g : Eq(g))[Len(path)]
    BY ONLY Zenon DEF NamespaceLocate, Place, Places, first
  <2> HIDE DEF Eq
  <2> QED BY <1>1, <1>9, <2>1
<1>11. Location(K, path)
  <2>1. 1 \in 1..len /\ \A i \in 2..len : i \in 1..len /\ i # 1
    OBVIOUS
  <2>2. K[1] = first /\ \A i \in 2..len : K[i] = Places(path, i, K[i - 1])
    BY <1>1, <1>9, <2>1
  <2> QED BY <1>1, <2>2 DEF Location, first
<1> QED BY <1>1, <1>10, <1>11

\* s is the only symbol of its name in the list of n.
Alone(n, s) ==
  \E i \in DOMAIN spaces[n].names : \A j \in DOMAIN spaces[n].names :
    Listed(n, j).name = symbols[s].name <=> i = j

Agrees(r, n, s) == r.symbol = s /\ r.namespace = n /\ Alone(n, s)

\* What is found here without the private names is found with them.
LEMMA PlaceAgrees ==
  ASSUME SpacesHere, NEW n \in 1..Len(spaces), NEW name, NEW search \in BOOLEAN,
         Stays(n, search),
         NEW s, s = NamespaceFindName(n, name, search), s # 0
  PROVE  Agrees(Place(n, name, search), n, s)
<1>1. PICK names : names = spaces[n].names
  OBVIOUS
<1>2. names \in Seq(EntryType) /\ NamesOK(names, n, symbols) /\ DOMAIN names = 1..Len(names)
  <2>1. names \in Seq(EntryType) /\ NamesOK(names, n, symbols)
    BY <1>1, SpaceIs DEF SpacesHere, SpacesOK
  <2> QED BY <2>1, NamesIs
<1>3. PICK at, all : at = Matches(n, name, FALSE) /\ all = Matches(n, name, TRUE)
  OBVIOUS
<1>4. PICK e, d : /\ e = NamespaceFindNamelist(n, name, search, FALSE)
                  /\ d = NamespaceFindNamelist(n, name, search, TRUE)
  OBVIOUS
<1>5. s = e.symbol
  BY <1>4 DEF NamespaceFindName
<1>6. /\ e = IF at = {} THEN Entry(0, "private") ELSE names[Earliest(at)]
      /\ d = IF all = {} THEN Entry(0, "private") ELSE names[Earliest(all)]
  <2>1. ASSUME NEW allow \in BOOLEAN, NEW S, NEW x, S = Matches(n, name, allow),
               x = NamespaceFindNamelist(n, name, search, allow)
        PROVE  FirstOf(x, n, S)
    BY <2>1, FindHere
  <2>2. FirstOf(e, n, at) /\ FirstOf(d, n, all)
    BY <1>3, <1>4, <2>1
  <2> QED BY <1>1, <2>2 DEF FirstOf
<1>7. at # {} /\ e = names[Earliest(at)]
  BY <1>5, <1>6 DEF Entry
<1>8. PICK i : i = Earliest(at)
  OBVIOUS
<1>9. i \in 1..Len(names) /\ symbols[names[i].symbol].name = name
  BY <1>1, <1>3, <1>7, <1>8, MatchIs
<1>10. \A j \in 1..Len(names) : symbols[names[j].symbol].name = name <=> i = j
  BY <1>2, <1>9 DEF NamesOK
<1>11. all = {i} /\ Earliest(all) \in all
  <2>1. PICK yes \in BOOLEAN : yes = TRUE
    OBVIOUS
  <2>2. all = Matches(n, name, yes)
    BY <1>3, <2>1
  <2>3. /\ all = {j \in 1..Len(names) :
                    /\ symbols[names[j].symbol].name = name
                    /\ yes \/ spaces[n].publish # "private" \/ names[j].publish # "private"}
        /\ all # {} => Earliest(all) \in all
    BY <1>1, <2>2, MatchIs
  <2>4. \A j : j \in all <=> j = i
    BY <1>9, <1>10, <2>1, <2>3
  <2> QED BY <2>3, <2>4
<1>12. all # {} /\ Earliest(all) = i
  BY <1>11
<1>13. d = names[i] /\ e = names[i]
  BY <1>6, <1>7, <1>8, <1>12
<1>14. Place(n, name, search).symbol = s /\ Place(n, name, search).namespace = n
  BY <1>4, <1>5, <1>13 DEF Place
<1>15. Alone(n, s)
  <2>1. symbols[s].name = name
    BY <1>5, <1>9, <1>13
  <2>2. \A j \in DOMAIN names : symbols[names[j].symbol].name = symbols[s].name <=> i = j
    BY <1>2, <1>10, <2>1
  <2>3. i \in DOMAIN names
    BY <1>2, <1>9
  <2> QED BY <1>1, <2>2, <2>3 DEF Alone, Listed
<1> QED BY <1>14, <1>15 DEF Agrees

LEMMA PathsAgree ==
  ASSUME SpacesHere, current \in 1..Len(spaces), spaces[current].previous = 0,
         NEW path, Len(path) \in Nat \ {0},
         NEW s, s = BuildFullname(path), s # 0,
         NEW at, at = NamespaceLocate(path)
  PROVE  at.symbol = s /\ Alone(at.namespace, s)
<1>1. PICK len \in Nat \ {0} : len = Len(path)
  OBVIOUS
<1>2. PICK K : /\ Meaning(K, path) /\ s = K[len]
               /\ \A i \in 1..len : K[i] \in 0..Len(symbols)
  BY <1>1, FullnameBy
<1>3. PICK L : Location(L, path) /\ at = L[len]
  BY <1>1, LocateBy
<1>4. Len(symbols) \in Nat /\ Len(spaces) \in Nat
  BY SymbolIs DEF SpacesHere, SymbolsOK
<1> DEFINE Agree(i) == K[i] # 0 => L[i].symbol = K[i] /\ Alone(L[i].namespace, K[i])
           S == {i \in 0..len : i = 0 \/ Agree(i)}
<1>5. 0 \in S
  OBVIOUS
<1>6. ASSUME NEW i \in 1..len, i - 1 = 0 \/ Agree(i - 1)  PROVE Agree(i)
  <2> SUFFICES ASSUME K[i] # 0  PROVE L[i].symbol = K[i] /\ Alone(L[i].namespace, K[i])
    OBVIOUS
  <2>1. CASE i = 1
    <3>1. K[i] = NamespaceFindName(current, path[1], TRUE) /\ L[i] = Place(current, path[1], TRUE)
      BY <1>2, <1>3, <2>1 DEF Meaning, Location
    <3>2. PICK name, n, t : name = path[1] /\ n = current /\ t = K[i]
      OBVIOUS
    <3>3. t = NamespaceFindName(n, name, TRUE) /\ t # 0 /\ spaces[n].previous = 0 /\ n \in 1..Len(spaces)
      BY <3>1, <3>2
    <3>4. PICK yes \in BOOLEAN : yes = TRUE
      OBVIOUS
    <3>5. Agrees(Place(n, name, yes), n, t)
      <4>1. Stays(n, yes) /\ t = NamespaceFindName(n, name, yes)
        BY <3>3, <3>4, StaysIs
      <4> QED BY <3>3, <3>4, <4>1, PlaceAgrees
    <3> QED BY <3>1, <3>2, <3>4, <3>5 DEF Agrees
  <2>2. CASE i # 1
    <3>1. i \in 2..len /\ i - 1 # 0 /\ i - 1 \in 1..len
      BY <2>2
    <3>2. PICK r : r = K[i - 1]
      OBVIOUS
    <3>3. K[i] = Means(path, i, r) /\ L[i] = Places(path, i, L[i - 1]) /\ r \in 0..Len(symbols)
      BY <1>1, <1>2, <1>3, <3>1, <3>2 DEF Meaning, Location
    <3>4. IsNamespace(r) /\ K[i] = NamespaceFindName(symbols[r].namespace, path[i], FALSE)
      BY <3>3 DEF Means
    <3>5. r \in 1..Len(symbols) /\ symbols[r].class = "namespace"
      BY <1>4, <3>3, <3>4 DEF IsNamespace
    <3>6. PICK n \in 1..Len(spaces) : n = symbols[r].namespace
      BY <3>5 DEF SpacesHere, SymbolsOK
    <3>7. L[i - 1].symbol = r
      BY <1>6, <3>1, <3>2, <3>4 DEF IsNamespace
    <3>8. L[i] = Place(n, path[i], FALSE)
      BY <3>3, <3>4, <3>6, <3>7 DEF Places
    <3>9. PICK name, t : name = path[i] /\ t = K[i]
      OBVIOUS
    <3>10. t = NamespaceFindName(n, name, FALSE) /\ t # 0
      BY <3>4, <3>6, <3>9
    <3>11. PICK no \in BOOLEAN : no = FALSE
      OBVIOUS
    <3>12. Agrees(Place(n, name, no), n, t)
      <4>1. Stays(n, no) /\ t = NamespaceFindName(n, name, no)
        BY <3>10, <3>11, StaysIs
      <4> QED BY <3>6, <3>10, <3>11, <4>1, PlaceAgrees
    <3> QED BY <3>8, <3>9, <3>11, <3>12 DEF Agrees
  <2> QED BY <2>1, <2>2
<1>7. \A i \in 0..len : i \in S
  <2> HIDE DEF Agree
  <2>1. \A i \in 1..len : i - 1 \in S => i \in S
    BY <1>6
  <2> HIDE DEF S
  <2> QED BY <1>5, <2>1, UpTo
<1>8. Agree(len)
  <2> HIDE DEF Agree
  <2>1. len \in 0..len /\ len # 0
    OBVIOUS
  <2> QED BY <1>7, <2>1
<1> QED BY <1>2, <1>3, <1>8

-----------------------------------------------------------------------------
(* Declarations *)

LEMMA AppendIs ==
  ASSUME NEW T, NEW q \in Seq(T), NEW x \in T, NEW r, r = Append(q, x)
  PROVE  /\ r \in Seq(T) /\ Len(r) = Len(q) + 1 /\ Len(q) \in Nat /\ r[Len(q) + 1] = x
         /\ \A i \in 1..Len(q) : r[i] = q[i]
<1>1. /\ Append(q, x) \in Seq(T) /\ Len(Append(q, x)) = Len(q) + 1
      /\ \A i \in 1..Len(q) : Append(q, x)[i] = q[i]
      /\ Append(q, x)[Len(q) + 1] = x
  BY AppendProperties
<1> QED BY <1>1, LenProperties

LEMMA NamedIs ==
  ASSUME NEW syms, NEW k \in Nat, SymbolsOK(syms, k)
  PROVE  Named(syms) \subseteq 1..k
BY DEF Named, SymbolsOK

LEMMA KeepsTransitive ==
  ASSUME NEW syms \in Seq(SymbolType), NEW more, Keeps(syms, more), NEW most, Keeps(more, most)
  PROVE  Keeps(syms, most)
<1>1. Len(syms) \in Nat /\ Len(more) \in Nat /\ Len(most) \in Nat /\ Len(syms) <= Len(most)
  BY SymbolIs DEF Keeps
<1>2. \A s \in 1..Len(syms) : s \in 1..Len(more)
  BY <1>1 DEF Keeps
<1> QED BY <1>1, <1>2 DEF Keeps

Redefines(syms, more, k) ==
  /\ SymbolsOK(more, k) /\ Keeps(syms, more)
  /\ Named(more) = Named(syms) /\ Len(more) = Len(syms)

\* A symbol is defined, or declared only.
LEMMA DefineIs ==
  ASSUME NEW syms, NEW k \in Nat, SymbolsOK(syms, k), NEW s \in 1..Len(syms), NEW d \in BOOLEAN,
         NEW more, more = [syms EXCEPT ![s].defined = d]
  PROVE  Redefines(syms, more, k)
<1>1. /\ syms \in Seq(SymbolType) /\ syms[s] \in SymbolType /\ Len(syms) \in Nat
      /\ \A i \in 1..Len(syms) :
           syms[i].namespace \in (IF syms[i].class = "namespace" THEN 1..k ELSE {0})
  BY SymbolIs DEF SymbolsOK
<1>2. PICK x : x = [syms[s] EXCEPT !.defined = d]
  OBVIOUS
<1>3. /\ x \in SymbolType /\ x.name = syms[s].name /\ x.class = syms[s].class
      /\ x.namespace = syms[s].namespace /\ x.home = syms[s].home /\ x.declared = syms[s].declared
  BY <1>1, <1>2 DEF SymbolType
<1>4. more = [syms EXCEPT ![s] = x]
  BY <1>2
<1>5. /\ more \in Seq(SymbolType) /\ Len(more) = Len(syms)
      /\ \A i \in 1..Len(syms) : more[i] = IF i = s THEN x ELSE syms[i]
  <2>1. /\ [syms EXCEPT ![s] = x] \in Seq(SymbolType) /\ Len([syms EXCEPT ![s] = x]) = Len(syms)
        /\ \A i \in 1..Len(syms) : [syms EXCEPT ![s] = x][i] = IF i = s THEN x ELSE syms[i]
    BY ONLY <1>1, <1>3, s \in 1..Len(syms), ExceptSeq
  <2> QED BY <1>4, <2>1
<1>6. \A i \in 1..Len(syms) :
        /\ more[i].name = syms[i].name /\ more[i].class = syms[i].class
        /\ more[i].namespace = syms[i].namespace /\ more[i].home = syms[i].home
        /\ more[i].declared = syms[i].declared
  BY <1>3, <1>5
<1>7. Keeps(syms, more)
  BY <1>1, <1>5, <1>6 DEF Keeps
<1>8. SymbolsOK(more, k)
  BY <1>1, <1>5, <1>6 DEF SymbolsOK
<1>9. Named(more) = Named(syms)
  BY <1>5, <1>6 DEF Named
<1> QED BY <1>5, <1>7, <1>8, <1>9 DEF Redefines

\* The tables after a declaration, with k namespaces.
Declared(t, k) ==
  /\ SymbolsOK(t.symbols, k) /\ SpacesOK(t.spaces, t.symbols)
  /\ Keeps(symbols, t.symbols) /\ SameScopes(spaces, t.spaces)
  /\ t.symbol \in 0..Len(t.symbols)

SymbolFits(x, k) ==
  x \in SymbolType /\ x.namespace \in (IF x.class = "namespace" THEN 1..k ELSE {0})

LEMMA TablesIs ==
  ASSUME NEW syms, NEW ns, NEW s, NEW t, t = Tables(syms, ns, s)
  PROVE  t.symbols = syms /\ t.spaces = ns /\ t.symbol = s
BY DEF Tables

LEMMA NewIs ==
  ASSUME SpacesHere, current \in 1..Len(spaces), NEW k \in Nat, Len(spaces) <= k,
         NEW publish \in Publishes, NEW x, SymbolFits(x, k), x.home = current, x.declared = publish,
         NEW t, t = ParseNewSymbol(x, publish)
  PROVE  /\ Declared(t, k) /\ t.symbol # 0 /\ t.symbols[t.symbol] = x
         /\ Named(t.symbols) = Named(symbols) \cup (IF x.class = "namespace" THEN {x.namespace} ELSE {})
<1>1. /\ symbols \in Seq(SymbolType) /\ x \in SymbolType
      /\ \A i \in 1..Len(symbols) :
           symbols[i].namespace \in (IF symbols[i].class = "namespace" THEN 1..Len(spaces) ELSE {0})
      /\ SpacesOK(spaces, symbols)
  BY DEF SpacesHere, SymbolsOK, SymbolFits
<1>2. PICK syms : syms = Append(symbols, x)
  OBVIOUS
<1>3. PICK s : s = Len(symbols) + 1
  OBVIOUS
<1>4. /\ syms \in Seq(SymbolType) /\ Len(syms) = s /\ s \in Nat \ {0} /\ syms[s] = x
      /\ Len(symbols) \in Nat /\ \A i \in 1..Len(symbols) : syms[i] = symbols[i]
  BY <1>1, <1>2, <1>3, AppendIs
<1>5. \A i \in 1..s : i = s \/ i \in 1..Len(symbols)
  BY <1>3, <1>4
<1>6. Keeps(symbols, syms)
  BY <1>3, <1>4 DEF Keeps
<1>7. SymbolsOK(syms, k)
  <2>1. ASSUME NEW i \in 1..s
        PROVE  syms[i].namespace \in (IF syms[i].class = "namespace" THEN 1..k ELSE {0})
    <3>1. CASE i = s
      BY <1>4, <3>1 DEF SymbolFits
    <3>2. CASE i \in 1..Len(symbols)
      BY <1>1, <1>4, <3>2 DEF SpacesHere
    <3> QED BY <1>5, <3>1, <3>2
  <2> QED BY <1>4, <2>1 DEF SymbolsOK
<1>8. SpacesOK(spaces, syms)
  BY <1>1, <1>6, SpacesKeep
<1>9. PICK ns : ns = NamespaceAddName(spaces, current, s, publish, syms)
  OBVIOUS
<1>10. Listable(s, current, publish, syms)
  BY <1>4 DEF Listable
<1>11. SpacesOK(ns, syms) /\ SameScopes(spaces, ns)
  BY <1>4, <1>8, <1>9, <1>10, AddNameIs
<1>12. t.symbols = syms /\ t.spaces = ns /\ t.symbol = s
  <2>1. t = Tables(syms, ns, s)
    BY <1>2, <1>4, <1>9 DEF ParseNewSymbol
  <2> QED BY <2>1, TablesIs
<1>13. Declared(t, k)
  <2>1. s \in 0..s
    BY <1>4
  <2> QED BY <1>4, <1>6, <1>7, <1>11, <1>12, <2>1 DEF Declared
<1>14. Named(syms) = Named(symbols) \cup (IF x.class = "namespace" THEN {x.namespace} ELSE {})
  <2>1. s \in 1..s /\ \A i \in 1..Len(symbols) : i \in 1..s
    BY <1>3, <1>4
  <2>2. CASE x.class = "namespace"
    <3>1. x.namespace \in Nat
      BY <2>2 DEF SymbolFits
    <3>2. \A n : n \in Named(syms) <=> n \in Named(symbols) \/ n = x.namespace
      BY <1>4, <1>5, <2>1, <2>2, <3>1 DEF Named
    <3> QED BY <2>2, <3>2
  <2>3. CASE x.class # "namespace"
    <3>1. \A n : n \in Named(syms) <=> n \in Named(symbols)
      BY <1>4, <1>5, <2>1, <2>3 DEF Named
    <3> QED BY <2>3, <3>1
  <2> QED BY <2>2, <2>3
<1> QED BY <1>4, <1>12, <1>13, <1>14

IsNew(x, name, class, n, publish) ==
  /\ x \in SymbolType /\ x.name = name /\ x.class = class /\ x.namespace = n
  /\ x.home = current /\ x.declared = publish

LEMMA NewSymbolIs ==
  ASSUME SpacesHere, current \in 1..Len(spaces), NEW name \in Names, NEW class \in Classes, NEW d \in BOOLEAN,
         NEW n \in Nat, NEW publish \in Publishes, NEW x, x = NewSymbol(name, class, d, n, publish)
  PROVE  IsNew(x, name, class, n, publish)
<1>1. current \in Nat
  BY DEF SpacesHere
<1> QED BY <1>1 DEF NewSymbol, SymbolType, IsNew

\* What a declaration that is not of a namespace does.
Parsed(t) == Declared(t, Len(spaces)) /\ Named(t.symbols) = Named(symbols)

LEMMA ParsedNew ==
  ASSUME SpacesHere, current \in 1..Len(spaces), NEW name \in Names, NEW class \in {"value", "typedef"},
         NEW d \in BOOLEAN, NEW publish \in Publishes,
         NEW t, t = ParseNewSymbol(NewSymbol(name, class, d, 0, publish), publish)
  PROVE  Parsed(t)
<1>1. PICK x : x = NewSymbol(name, class, d, 0, publish)
  OBVIOUS
<1>2. class \in Classes /\ Len(spaces) \in Nat /\ class # "namespace"
  BY DEF Classes, SpacesHere
<1>3. /\ x \in SymbolType /\ x.class = class /\ x.namespace = 0
      /\ x.home = current /\ x.declared = publish
  <2>1. PICK n \in Nat : n = 0
    OBVIOUS
  <2>2. x = NewSymbol(name, class, d, n, publish)
    BY <1>1, <2>1
  <2>3. IsNew(x, name, class, n, publish)
    BY <1>2, <2>1, <2>2, NewSymbolIs
  <2> QED BY <2>1, <2>3 DEF IsNew
<1>4. SymbolFits(x, Len(spaces))
  BY <1>2, <1>3 DEF SymbolFits
<1>5. PICK k \in Nat : k = Len(spaces)
  BY <1>2
<1>6. /\ Declared(t, k)
      /\ Named(t.symbols) = Named(symbols) \cup (IF x.class = "namespace" THEN {x.namespace} ELSE {})
  BY <1>1, <1>3, <1>4, <1>5, NewIs
<1> QED BY <1>2, <1>3, <1>5, <1>6 DEF Parsed

LEMMA HereOK ==
  ASSUME SpacesHere
  PROVE  /\ SymbolsOK(symbols, Len(spaces)) /\ symbols \in Seq(SymbolType) /\ SpacesOK(spaces, symbols)
         /\ Keeps(symbols, symbols) /\ SameScopes(spaces, spaces)
         /\ Len(symbols) \in Nat /\ Len(spaces) \in Nat /\ spaces \in Seq(SpaceType)
BY SymbolIs, ScopesSelf DEF SpacesHere, SymbolsOK, SpacesOK, Keeps

LEMMA ParsedTypedef ==
  ASSUME SpacesHere, current \in 1..Len(spaces), NEW name \in Names, NEW publish \in Publishes,
         NEW typed \in BOOLEAN, NEW t, t = ParseTypedef(name, publish, typed)
  PROVE  Parsed(t)
<1>1. PICK s : s = NamespaceFindName(current, name, FALSE)
  OBVIOUS
<1>2. s \in 0..Len(symbols)
  <2>1. current \in 0..Len(spaces)
    BY DEF SpacesHere
  <2> QED BY <1>1, <2>1, FindNameIs
<1>3. CASE typed /\ s # 0 /\ symbols[s].class = "typedef" /\ ~ symbols[s].defined
  <2>1. s \in 1..Len(symbols)
    BY <1>2, <1>3, HereOK
  <2>2. PICK syms : syms = [symbols EXCEPT ![s].defined = TRUE]
    OBVIOUS
  <2>3. t = Tables(syms, spaces, s)
    BY <1>1, <1>3, <2>2 DEF ParseTypedef
  <2>4. t.symbols = syms /\ t.spaces = spaces /\ t.symbol = s
    BY <2>3, TablesIs
  <2>5. /\ SymbolsOK(syms, Len(spaces)) /\ Keeps(symbols, syms) /\ Named(syms) = Named(symbols)
        /\ Len(syms) = Len(symbols)
    <3>1. PICK k \in Nat, d \in BOOLEAN : k = Len(spaces) /\ d = TRUE
      BY HereOK
    <3>2. syms = [symbols EXCEPT ![s].defined = d] /\ SymbolsOK(symbols, k)
      BY <2>2, <3>1, HereOK
    <3>3. Redefines(symbols, syms, k)
      BY <2>1, <3>1, <3>2, DefineIs
    <3> QED BY <3>1, <3>3 DEF Redefines
  <2>6. SpacesOK(spaces, syms)
    BY <2>5, HereOK, SpacesKeep
  <2> QED BY <1>2, <2>4, <2>5, <2>6, HereOK DEF Parsed, Declared
<1>4. CASE ~ (typed /\ s # 0 /\ symbols[s].class = "typedef" /\ ~ symbols[s].defined)
  <2>1. t = ParseNewSymbol(NewSymbol(name, "typedef", typed, 0, publish), publish)
    BY <1>1, <1>4 DEF ParseTypedef
  <2> QED BY <2>1, ParsedNew
<1> QED BY <1>3, <1>4

LEMMA ParsedFunction ==
  ASSUME SpacesHere, current \in 1..Len(spaces), NEW name \in Names, NEW publish \in Publishes,
         NEW same \in BOOLEAN, NEW t, t = ParseFunction(name, publish, same)
  PROVE  Parsed(t)
<1>1. PICK s : s = NamespaceFindName(current, name, TRUE)
  OBVIOUS
<1>2. s \in 0..Len(symbols)
  <2>1. current \in 0..Len(spaces)
    BY DEF SpacesHere
  <2> QED BY <1>1, <2>1, FindNameIs
<1>3. CASE s # 0 /\ symbols[s].class = "value" /\ ~ symbols[s].defined
  <2>1. t = Tables(symbols, spaces, IF same THEN s ELSE 0)
    BY <1>1, <1>3 DEF ParseFunction
  <2>2. t.symbols = symbols /\ t.spaces = spaces /\ t.symbol = IF same THEN s ELSE 0
    BY <2>1, TablesIs
  <2>3. t.symbol \in 0..Len(symbols)
    BY <1>2, <2>2, HereOK
  <2> QED BY <2>2, <2>3, HereOK DEF Parsed, Declared
<1>4. CASE ~ (s # 0 /\ symbols[s].class = "value" /\ ~ symbols[s].defined)
  <2>1. t = ParseNewSymbol(NewSymbol(name, "value", TRUE, 0, publish), publish)
    BY <1>1, <1>4 DEF ParseFunction
  <2> QED BY <2>1, ParsedNew
<1> QED BY <1>3, <1>4

-----------------------------------------------------------------------------
(* Import statements *)

FoundOf(paths) == [i \in DOMAIN paths |-> BuildFullname(paths[i])]

GoodOf(paths) ==
  LET parsed == \A i \in DOMAIN paths :
                  Len(paths[i]) > 1 => IsNamespace(BuildFullname(SubSeq(paths[i], 1, Len(paths[i]) - 1)))
      bad == {i \in DOMAIN paths : ~IsNamespace(FoundOf(paths)[i])}
  IN  IF ~parsed THEN 0 ELSE IF bad = {} THEN Len(paths) ELSE Earliest(bad) - 1

LEMMA PathIs ==
  ASSUME NEW path \in Paths
  PROVE  Len(path) \in Nat \ {0}
<1>1. path \in Seq(Names) /\ path # <<>>
  BY ScopesConstants
<1> QED BY <1>1, EmptySeq

LEMMA MeaningIs ==
  ASSUME SpacesHere, current \in 1..Len(spaces), NEW path \in Paths, NEW s, s = BuildFullname(path)
  PROVE  s \in 0..Len(symbols) /\ Shown(s, path[Len(path)], FALSE)
<1>1. PICK len \in Nat \ {0} : len = Len(path)
  BY PathIs
<1>2. PICK K : s = K[len] /\ \A i \in 1..len : K[i] \in 0..Len(symbols) /\ Shown(K[i], path[i], FALSE)
  <2>1. PICK K : /\ Meaning(K, path) /\ BuildFullname(path) = K[Len(path)]
                 /\ \A i \in 1..Len(path) : K[i] \in 0..Len(symbols) /\ Shown(K[i], path[i], FALSE)
    BY <1>1, FullnameBy
  <2>2. \A i \in 1..len : K[i] \in 0..Len(symbols) /\ Shown(K[i], path[i], FALSE)
    BY <1>1, <2>1
  <2>3. s = K[len]
    BY <1>1, <2>1
  <2> QED BY <2>2, <2>3, Zenon
<1>3. len \in 1..len
  BY <1>1
<1>4. K[len] \in 0..Len(symbols) /\ Shown(K[len], path[len], FALSE)
  BY <1>2, <1>3, Zenon
<1> QED BY <1>1, <1>2, <1>4, Zenon

LEMMA GoodIs ==
  ASSUME SpacesHere, current \in 1..Len(spaces), NEW paths \in Imports
  PROVE  /\ GoodOf(paths) \in Nat
         /\ \A i \in 1..GoodOf(paths) : symbols[FoundOf(paths)[i]].namespace \in 1..Len(spaces)
<1>1. paths \in Seq(Paths)
  BY ScopesConstants
<1>2. Len(paths) \in Nat /\ DOMAIN paths = 1..Len(paths) /\ \A i \in 1..Len(paths) : paths[i] \in Paths
  <2>1. \A i \in 1..Len(paths) : paths[i] \in Paths
    BY <1>1, ElementOfSeq
  <2> QED BY <1>1, <2>1, LenProperties
<1>3. PICK bad : bad = {i \in DOMAIN paths : ~IsNamespace(FoundOf(paths)[i])}
  OBVIOUS
<1>4. bad \in SUBSET Nat
  BY <1>2, <1>3
<1>5. bad # {} => Earliest(bad) \in bad /\ \A j \in bad : Earliest(bad) <= j
  BY <1>4, EarliestIs
<1>6. \/ GoodOf(paths) = 0
      \/ bad = {} /\ GoodOf(paths) = Len(paths)
      \/ bad # {} /\ GoodOf(paths) = Earliest(bad) - 1
  BY <1>3 DEF GoodOf
<1>7. /\ GoodOf(paths) \in Nat
      /\ \A i \in 1..GoodOf(paths) : i \in 1..Len(paths) /\ i \notin bad
  <2>1. CASE GoodOf(paths) = 0
    BY <2>1
  <2>2. CASE bad = {} /\ GoodOf(paths) = Len(paths)
    BY <1>2, <2>2
  <2>3. CASE bad # {} /\ GoodOf(paths) = Earliest(bad) - 1
    <3>1. PICK m \in 1..Len(paths) : m = Earliest(bad) /\ \A j \in bad : m <= j
      BY <1>2, <1>3, <1>5, <2>3
    <3>2. \A i \in 1..m-1 : i \in 1..Len(paths) /\ ~ (m <= i)
      BY <1>2
    <3>3. GoodOf(paths) = m - 1 /\ m - 1 \in Nat
      BY <1>2, <2>3, <3>1
    <3> QED BY <3>1, <3>2, <3>3
  <2> QED BY <1>6, <2>1, <2>2, <2>3
<1>8. ASSUME NEW i \in 1..GoodOf(paths)  PROVE symbols[FoundOf(paths)[i]].namespace \in 1..Len(spaces)
  <2>1. i \in 1..Len(paths) /\ i \notin bad
    BY <1>7
  <2>2. PICK s : s = FoundOf(paths)[i]
    OBVIOUS
  <2>3. IsNamespace(s)
    BY <1>2, <1>3, <2>1, <2>2
  <2>4. s = BuildFullname(paths[i])
    BY <1>2, <2>1, <2>2 DEF FoundOf
  <2>5. s \in 0..Len(symbols)
    BY <1>2, <2>1, <2>4, MeaningIs
  <2>6. s \in 1..Len(symbols) /\ symbols[s].class = "namespace"
    BY <2>3, <2>5, HereOK DEF IsNamespace
  <2> QED BY <2>2, <2>6 DEF SpacesHere, SymbolsOK
<1> QED BY <1>7, <1>8

LEMMA ImportStep ==
  ASSUME SpacesHere, current \in 1..Len(spaces), NEW paths \in Imports, NEW publish \in Publishes,
         Import(paths, publish)
  PROVE  /\ spaces' \in Good(spaces, symbols) /\ UNCHANGED <<symbols, top>>
         /\ UNCHANGED <<current, nesting, abandoned>> \/ ResetParser
<1>1. PICK len \in Nat : len = GoodOf(paths)
  BY GoodIs
<1> DEFINE T == Good(spaces, symbols)
           from(i) == symbols[FoundOf(paths)[i]].namespace
           Next1(i, t) == NamespaceImport(t, current, from(i), publish)
           step == [p \in (1..len) \X T |-> Next1(p[1], p[2])]
           Eq(K) == K = [i \in 0..GoodOf(paths) |-> IF i = 0 THEN spaces ELSE Next1(i, K[i - 1])]
<1>2. spaces \in T
  BY HereOK, GoodSelf
<1>3. \A i \in 1..len, t \in T : Next1(i, t) \in T
  <2> TAKE i \in 1..len, t \in T
  <2>1. SpacesOK(t, symbols) /\ Len(t) = Len(spaces)
    BY DEF Good, SameScopes
  <2>2. PICK n : n = from(i)
    OBVIOUS
  <2>3. n \in 1..Len(t)
    BY <1>1, <2>1, <2>2, GoodIs
  <2>4. NamespaceImport(t, current, n, publish) \in Good(t, symbols)
    BY <2>1, <2>3, ImportIs
  <2> QED BY <2>2, <2>4, HereOK, GoodTransitive
<1> HIDE DEF Next1
<1>4. step \in [(1..len) \X T -> T]
  BY <1>3
<1>5. PICK f \in [0..len -> T] : f[0] = spaces /\ \A i \in 1..len : f[i] = step[<<i, f[i - 1]>>]
  <2> HIDE DEF step, T
  <2>1. PICK f \in [0..len -> T] : Runs(f, len, spaces, step)
    BY <1>2, <1>4, Recursion
  <2> QED BY <2>1 DEF Runs
<1>6. \A i \in 1..len : f[i] = Next1(i, f[i - 1])
  <2> TAKE i \in 1..len
  <2> HIDE DEF T
  <2>1. f[i - 1] \in T
    BY <1>5
  <2>2. step[<<i, f[i - 1]>>] = Next1(i, f[i - 1])
    BY <2>1
  <2> HIDE DEF step
  <2> QED BY <1>5, <2>2
<1>7. Eq(f)
  <2> HIDE DEF T
  <2>1. \A m \in 0..len : m = 0 \/ m \in 1..len
    OBVIOUS
  <2>2. \A m \in 0..len : f[m] = IF m = 0 THEN spaces ELSE Next1(m, f[m - 1])
    BY <1>5, <1>6, <2>1
  <2> QED BY <1>1, <1>5, <2>2
<1>8. PICK K : Eq(K) /\ K = CHOOSE g : Eq(g)
  BY <1>7
<1>9. spaces' = K[len]
  <2>1. spaces' = (CHOOSE g : Eq(g))[GoodOf(paths)]
    BY ONLY Import(paths, publish), Zenon DEF Import, GoodOf, FoundOf, Next1
  <2> HIDE DEF Eq
  <2> QED BY <1>1, <1>8, <2>1
<1>10. K[len] \in T
  <2> DEFINE S == {m \in 0..len : K[m] \in T}
  <2> HIDE DEF T
  <2>1. K[0] = spaces /\ \A m \in 1..len : K[m] = Next1(m, K[m - 1])
    <3>1. 0 \in 0..len /\ \A m \in 1..len : m \in 0..len /\ m # 0
      OBVIOUS
    <3> QED BY <1>1, <1>8, <3>1
  <2>2. 0 \in S
    BY <1>2, <2>1
  <2>3. \A m \in 1..len : m - 1 \in S => m \in S
    BY <1>3, <2>1
  <2>4. len \in S
    <3>1. len \in 0..len
      OBVIOUS
    <3> HIDE DEF S
    <3> QED BY <2>2, <2>3, <3>1, UpTo
  <2> QED BY <2>4
<1>11. UNCHANGED <<symbols, top>> /\ (UNCHANGED <<current, nesting, abandoned>> \/ ResetParser)
  BY DEF Import
<1> QED BY <1>9, <1>10, <1>11

-----------------------------------------------------------------------------
(* What the parser is in *)

LEMMA NestIs ==
  ASSUME NEW nest \in Seq(LevelType)
  PROVE  /\ Len(nest) \in Nat /\ DOMAIN nest = 1..Len(nest)
         /\ \A i \in 1..Len(nest) : /\ nest[i] \in LevelType
                                    /\ nest[i].entered \in Nat /\ nest[i].saved \in Nat
         /\ nest # <<>> <=> Len(nest) # 0
<1>1. Len(nest) \in Nat /\ DOMAIN nest = 1..Len(nest)
  BY LenProperties
<1>2. \A i \in 1..Len(nest) : nest[i] \in LevelType
  BY ElementOfSeq
<1>3. nest # <<>> <=> Len(nest) # 0
  BY EmptySeq
<1> QED BY <1>1, <1>2, <1>3 DEF LevelType

LEMMA LevelStays ==
  ASSUME NEW ns \in Seq(SpaceType), NEW ms, Deepens(ns, ms),
         NEW syms \in Seq(SymbolType), NEW more, Keeps(syms, more),
         \A n \in 1..Len(ns) : n \in Named(more) => n \in Named(syms),
         NEW l, NEW outer, LevelOK(l, outer, ns, syms)
  PROVE  LevelOK(l, outer, ms, more)
<1>1. Len(ns) \in Nat /\ Len(ms) \in Nat /\ Len(syms) \in Nat /\ Len(more) \in Nat
  BY SpaceIs, SymbolIs DEF Deepens, Keeps
<1>2. /\ l.saved = outer /\ l.entered \in 1..Len(ns) /\ l.symbol \in 0..Len(syms)
      /\ Len(ns) <= Len(ms) /\ Len(syms) <= Len(more)
  BY DEF LevelOK, Deepens, Keeps
<1>3. l.entered \in 1..Len(ms) /\ l.symbol \in 0..Len(more)
  BY <1>1, <1>2
<1>4. ASSUME l.kind = "namespace"
      PROVE  l.symbol # 0 /\ more[l.symbol].class = "namespace" /\ l.entered = more[l.symbol].namespace
  <2>1. l.symbol # 0 /\ syms[l.symbol].class = "namespace" /\ l.entered = syms[l.symbol].namespace
    BY <1>4 DEF LevelOK
  <2>2. l.symbol \in 1..Len(syms)
    BY <1>1, <1>2, <2>1
  <2> QED BY <2>1, <2>2 DEF Keeps
<1>5. ASSUME l.kind # "namespace"
      PROVE  ms[l.entered].previous = outer /\ l.entered \notin Named(more)
  <2>1. ns[l.entered].previous = outer /\ l.entered \notin Named(syms)
    BY <1>5 DEF LevelOK
  <2> QED BY <1>2, <2>1 DEF Deepens
<1> QED BY <1>2, <1>3, <1>4, <1>5 DEF LevelOK

LEMMA NestStays ==
  ASSUME NEW ns \in Seq(SpaceType), NEW ms, Deepens(ns, ms),
         NEW syms \in Seq(SymbolType), NEW more, Keeps(syms, more),
         \A n \in 1..Len(ns) : n \in Named(more) => n \in Named(syms),
         NEW nest, NEW cur, NEW tp, NestOK(nest, cur, tp, ns, syms)
  PROVE  NestOK(nest, cur, tp, ms, more)
<1>1. Len(ns) \in Nat /\ Len(ms) \in Nat /\ Len(ns) <= Len(ms)
  BY SpaceIs DEF Deepens
<1>2. /\ nest \in Seq(LevelType) /\ tp \in 1..Len(ns) /\ tp \notin Named(syms) /\ Global \notin Named(syms)
      /\ cur = (IF nest = <<>> THEN tp ELSE nest[1].entered)
      /\ \A i \in 1..Len(nest) : LevelOK(nest[i], Outer(nest, tp, i), ns, syms)
  BY DEF NestOK
<1>3. Global \in 1..Len(ns) /\ tp \in 1..Len(ms)
  BY <1>1, <1>2 DEF Global
<1>4. \A i \in 1..Len(nest) : LevelOK(nest[i], Outer(nest, tp, i), ms, more)
  BY <1>2, LevelStays
<1>5. tp \notin Named(more) /\ Global \notin Named(more)
  BY <1>2, <1>3
<1> QED BY <1>2, <1>3, <1>4, <1>5 DEF NestOK

LEMMA PublishStays ==
  ASSUME NEW ns \in Seq(SpaceType), NEW ms, Widens(ns, ms),
         NEW syms, NEW more, Named(more) = Named(syms), Named(syms) \subseteq 1..Len(ns),
         \A n \in 1..Len(ms) : n \in 1..Len(ns) \/ ms[n].publish = "public",
         NEW nest, NEW ab, PublishOK(nest, ab, ns, syms)
  PROVE  PublishOK(nest, ab, ms, more)
<1>1. \A n \in 1..Len(ns) : ms[n].publish = ns[n].publish
  BY DEF Widens
<1>2. \A n \in Named(more) : n \in EnteredIn(nest) \/ n \in ab \/ ms[n].publish = "private"
  BY <1>1 DEF PublishOK
<1>3. \A n \in 1..Len(ms) : ms[n].publish = "private" =>
        n \in Named(more) /\ (ExtendsAround \/ n \notin EnteredIn(nest) \cup ab)
  BY <1>1 DEF PublishOK
<1> QED BY <1>2, <1>3 DEF PublishOK

Enters(nest, n, deeper) ==
  /\ EnteredIn(deeper) = EnteredIn(nest) \cup {n}
  /\ Distinct(nest) /\ n \notin EnteredIn(nest) => Distinct(deeper)

LEMMA PushIs ==
  ASSUME NEW nest, NEW cur, NEW tp, NEW ns, NEW syms, NestOK(nest, cur, tp, ns, syms),
         NEW l \in LevelType, LevelOK(l, cur, ns, syms), NEW deeper, deeper = <<l>> \o nest
  PROVE  NestOK(deeper, l.entered, tp, ns, syms) /\ Enters(nest, l.entered, deeper)
<1>1. /\ nest \in Seq(LevelType) /\ tp \in 1..Len(ns) /\ tp \notin Named(syms) /\ Global \notin Named(syms)
      /\ cur = (IF nest = <<>> THEN tp ELSE nest[1].entered)
      /\ \A i \in 1..Len(nest) : LevelOK(nest[i], Outer(nest, tp, i), ns, syms)
  BY DEF NestOK
<1>2. Len(nest) \in Nat /\ (nest # <<>> <=> Len(nest) # 0) /\ \A i \in 1..Len(nest) : nest[i].entered \in Nat
  BY <1>1, NestIs
<1>3. PICK len \in Nat : len = Len(nest)
  BY <1>2
<1>4. /\ deeper \in Seq(LevelType) /\ Len(deeper) = 1 + len /\ deeper[1] = l
      /\ \A i \in 1..len : deeper[i + 1] = nest[i]
  <2>1. PICK one : one = <<l>>
    OBVIOUS
  <2>2. one \in Seq(LevelType) /\ Len(one) = 1 /\ one[1] = l
    BY <2>1
  <2>3. /\ one \o nest \in Seq(LevelType) /\ Len(one \o nest) = Len(one) + Len(nest)
        /\ \A i \in 1..Len(one) + Len(nest) : (one \o nest)[i] = IF i <= Len(one) THEN one[i] ELSE nest[i - Len(one)]
    BY <1>1, <2>2, ConcatProperties
  <2>4. /\ deeper \in Seq(LevelType) /\ Len(deeper) = 1 + len
        /\ \A i \in 1..1 + len : deeper[i] = IF i <= 1 THEN one[i] ELSE nest[i - 1]
    BY <1>3, <2>1, <2>2, <2>3
  <2>5. 1 \in 1..1 + len /\ \A i \in 1..len : i + 1 \in 1..1 + len /\ ~ (i + 1 <= 1) /\ (i + 1) - 1 = i
    OBVIOUS
  <2>6. deeper[1] = l
    BY <2>2, <2>4, <2>5
  <2>7. ASSUME NEW i \in 1..len  PROVE deeper[i + 1] = nest[i]
    BY <2>4, <2>5
  <2> QED BY <2>4, <2>6, <2>7
<1>5. ASSUME NEW i \in 1..1 + len
      PROVE  i = 1 \/ \E j \in 1..len : i = j + 1
  <2>1. i = 1 \/ (i - 1 \in 1..len /\ i = (i - 1) + 1)
    OBVIOUS
  <2> QED BY <2>1
<1>6. ASSUME NEW i \in 1..1 + len  PROVE LevelOK(deeper[i], Outer(deeper, tp, i), ns, syms)
  <2>1. CASE i = 1
    <3>1. Outer(deeper, tp, 1) = cur
      <4>1. CASE len = 0
        BY <1>1, <1>2, <1>3, <1>4, <4>1 DEF Outer
      <4>2. CASE len # 0
        <5>1. 1 \in 1..len /\ 1 # 1 + len
          BY <4>2
        <5>2. deeper[1 + 1] = nest[1]
          BY <1>4, <5>1
        <5> QED BY <1>1, <1>2, <1>3, <1>4, <4>2, <5>1, <5>2 DEF Outer
      <4> QED BY <4>1, <4>2
    <3> QED BY <1>4, <2>1, <3>1
  <2>2. CASE i # 1
    <3>1. PICK j \in 1..len : i = j + 1
      BY <1>5, <2>2
    <3>2. Outer(deeper, tp, i) = Outer(nest, tp, j)
      <4>1. CASE j = len
        BY <1>3, <1>4, <3>1, <4>1 DEF Outer
      <4>2. CASE j # len
        <5>1. j + 1 \in 1..len /\ i # 1 + len
          BY <3>1, <4>2
        <5>2. deeper[i + 1] = nest[j + 1]
          BY <1>4, <3>1, <5>1
        <5> QED BY <1>3, <1>4, <4>2, <5>1, <5>2 DEF Outer
      <4> QED BY <4>1, <4>2
    <3> QED BY <1>1, <1>3, <1>4, <3>1, <3>2
  <2> QED BY <2>1, <2>2
<1>7. NestOK(deeper, l.entered, tp, ns, syms)
  <2>1. deeper # <<>>
    BY <1>4, EmptySeq
  <2> QED BY <1>1, <1>4, <1>6, <2>1 DEF NestOK
<1>8. EnteredIn(deeper) = EnteredIn(nest) \cup {l.entered}
  <2>1. l.entered \in Nat
    BY DEF LevelType
  <2>2. 1 \in 1..1 + len /\ \A j \in 1..len : j + 1 \in 1..1 + len
    OBVIOUS
  <2>3. \A n \in EnteredIn(deeper) : n \in EnteredIn(nest) \/ n = l.entered
    BY <1>3, <1>4, <1>5 DEF EnteredIn
  <2>4. \A n \in EnteredIn(nest) : n \in EnteredIn(deeper)
    BY <1>3, <1>4, <2>2 DEF EnteredIn
  <2>5. l.entered \in EnteredIn(deeper)
    BY <1>4, <2>1, <2>2 DEF EnteredIn
  <2> QED BY <2>3, <2>4, <2>5
<1>9. ASSUME Distinct(nest), l.entered \notin EnteredIn(nest)  PROVE Distinct(deeper)
  <2>1. \A j \in 1..len : nest[j].entered # l.entered
    BY <1>2, <1>3, <1>9 DEF EnteredIn
  <2>2. ASSUME NEW i \in 1..1 + len, NEW j \in 1..1 + len, deeper[i].entered = deeper[j].entered
        PROVE  i = j
    <3>1. CASE i = 1
      BY <1>4, <1>5, <2>1, <2>2, <3>1
    <3>2. CASE j = 1
      BY <1>4, <1>5, <2>1, <2>2, <3>2
    <3>3. CASE i # 1 /\ j # 1
      <4>1. PICK a \in 1..len, b \in 1..len : i = a + 1 /\ j = b + 1
        BY <1>5, <3>3
      <4>2. nest[a].entered = nest[b].entered
        BY <1>4, <2>2, <4>1
      <4> QED BY <1>3, <1>9, <4>1, <4>2 DEF Distinct
    <3> QED BY <3>1, <3>2, <3>3
  <2> QED BY <1>4, <2>2 DEF Distinct
<1> QED BY <1>7, <1>8, <1>9 DEF Enters

Leaves(nest, n, rest) ==
  /\ EnteredIn(nest) = EnteredIn(rest) \cup {n}
  /\ Distinct(nest) => Distinct(rest) /\ n \notin EnteredIn(rest)

LEMMA PopIs ==
  ASSUME NEW nest, NEW cur, NEW tp, NEW ns, NEW syms, NestOK(nest, cur, tp, ns, syms), nest # <<>>,
         NEW l, l = Head(nest), NEW rest, rest = Tail(nest)
  PROVE  /\ l \in LevelType /\ cur = l.entered /\ LevelOK(l, l.saved, ns, syms)
         /\ NestOK(rest, l.saved, tp, ns, syms)
         /\ Leaves(nest, cur, rest)
         /\ l.saved = (IF rest = <<>> THEN tp ELSE rest[1].entered)
<1>1. /\ nest \in Seq(LevelType) /\ tp \in 1..Len(ns) /\ tp \notin Named(syms) /\ Global \notin Named(syms)
      /\ cur = nest[1].entered
      /\ \A i \in 1..Len(nest) : LevelOK(nest[i], Outer(nest, tp, i), ns, syms)
  BY DEF NestOK
<1>2. Len(nest) \in Nat \ {0} /\ \A i \in 1..Len(nest) : nest[i].entered \in Nat /\ nest[i] \in LevelType
  BY <1>1, NestIs
<1>3. PICK len \in Nat : Len(nest) = len + 1
  <2>1. Len(nest) - 1 \in Nat /\ Len(nest) = (Len(nest) - 1) + 1
    BY <1>2
  <2> QED BY <2>1
<1>4. /\ rest \in Seq(LevelType) /\ Len(rest) = len /\ nest[1] = l
      /\ \A i \in 1..len : rest[i] = nest[i + 1]
  <2>1. /\ Tail(nest) \in Seq(LevelType) /\ Len(Tail(nest)) = Len(nest) - 1
        /\ \A i \in 1..Len(Tail(nest)) : Tail(nest)[i] = nest[i + 1]
    BY <1>1, HeadTailProperties
  <2>2. Head(nest) = nest[1]
    BY <1>1
  <2> QED BY <1>3, <2>1, <2>2
<1>5. 1 \in 1..len + 1 /\ \A i \in 1..len : i + 1 \in 1..len + 1
  OBVIOUS
<1>6. \A i \in 1..len + 1 : i = 1 \/ (i - 1 \in 1..len /\ i = (i - 1) + 1)
  OBVIOUS
<1>7. rest = <<>> <=> len = 0
  BY <1>4, NestIs
<1>8. Outer(nest, tp, 1) = (IF rest = <<>> THEN tp ELSE rest[1].entered)
  <2>1. CASE len = 0
    BY <1>3, <1>7, <2>1 DEF Outer
  <2>2. CASE len # 0
    <3>1. 1 \in 1..len /\ 1 # len + 1
      BY <2>2
    <3>2. rest[1] = nest[1 + 1]
      BY <1>4, <3>1
    <3> QED BY <1>3, <1>7, <2>2, <3>1, <3>2 DEF Outer
  <2> QED BY <2>1, <2>2
<1>9. LevelOK(l, Outer(nest, tp, 1), ns, syms) /\ l.saved = Outer(nest, tp, 1)
  BY <1>1, <1>3, <1>4, <1>5 DEF LevelOK
<1>10. ASSUME NEW i \in 1..len  PROVE LevelOK(rest[i], Outer(rest, tp, i), ns, syms)
  <2>1. Outer(rest, tp, i) = Outer(nest, tp, i + 1)
    <3>1. CASE i = len
      BY <1>3, <1>4, <3>1 DEF Outer
    <3>2. CASE i # len
      <4>1. i + 1 \in 1..len /\ i + 1 # len + 1
        BY <3>2
      <4>2. rest[i + 1] = nest[(i + 1) + 1]
        BY <1>4, <4>1
      <4> QED BY <1>3, <1>4, <3>2, <4>1, <4>2 DEF Outer
    <3> QED BY <3>1, <3>2
  <2> QED BY <1>1, <1>3, <1>4, <1>5, <2>1
<1>11. NestOK(rest, l.saved, tp, ns, syms)
  BY <1>1, <1>4, <1>8, <1>9, <1>10 DEF NestOK
<1>12. EnteredIn(nest) = EnteredIn(rest) \cup {cur}
  <2>1. cur \in Nat /\ cur \in EnteredIn(nest)
    BY <1>1, <1>2, <1>3, <1>5 DEF EnteredIn
  <2>2. ASSUME NEW n \in EnteredIn(nest)  PROVE n \in EnteredIn(rest) \/ n = cur
    <3>1. PICK i \in 1..len + 1 : nest[i].entered = n
      BY <1>3 DEF EnteredIn
    <3>2. CASE i = 1
      BY <1>1, <3>1, <3>2
    <3>3. CASE i # 1
      <4>1. i - 1 \in 1..len /\ rest[i - 1] = nest[i]
        BY <1>4, <1>6, <3>3
      <4>2. n \in Nat
        BY DEF EnteredIn
      <4> QED BY <1>4, <3>1, <4>1, <4>2 DEF EnteredIn
    <3> QED BY <3>2, <3>3
  <2>3. \A n \in EnteredIn(rest) : n \in EnteredIn(nest)
    BY <1>3, <1>4, <1>5 DEF EnteredIn
  <2> QED BY <2>1, <2>2, <2>3
<1>13. ASSUME Distinct(nest)  PROVE Distinct(rest) /\ cur \notin EnteredIn(rest)
  <2>1. \A i, j \in 1..len + 1 : nest[i].entered = nest[j].entered => i = j
    BY <1>3, <1>13 DEF Distinct
  <2>2. ASSUME NEW i \in 1..len, NEW j \in 1..len, rest[i].entered = rest[j].entered  PROVE i = j
    <3>1. i + 1 = j + 1
      BY <1>4, <1>5, <2>1, <2>2
    <3> QED BY <3>1
  <2>3. ASSUME NEW i \in 1..len  PROVE rest[i].entered # cur
    <3>1. i + 1 # 1
      OBVIOUS
    <3> QED BY <1>1, <1>4, <1>5, <2>1, <3>1
  <2> QED BY <1>4, <2>2, <2>3 DEF Distinct, EnteredIn
<1>14. Leaves(nest, cur, rest)
  BY <1>12, <1>13 DEF Leaves
<1> QED BY <1>1, <1>2, <1>3, <1>4, <1>5, <1>8, <1>9, <1>11, <1>14

-----------------------------------------------------------------------------
(* Statements and commands *)

LEMMA InvIs ==
  ASSUME ScopeInv
  PROVE  /\ SpacesHere /\ {current, top, Global} \subseteq 1..Len(spaces)
         /\ Named(symbols) \subseteq 1..Len(spaces) /\ Global \notin Named(symbols)
         /\ nesting \in Seq(LevelType)
<1>1. SpacesHere /\ Len(spaces) \in Nat
  BY HereIs DEF ScopeInv, SpacesHere
<1>2. /\ nesting \in Seq(LevelType) /\ top \in 1..Len(spaces) /\ Global \notin Named(symbols)
      /\ current = (IF nesting = <<>> THEN top ELSE nesting[1].entered)
      /\ \A i \in 1..Len(nesting) : LevelOK(nesting[i], Outer(nesting, top, i), spaces, symbols)
  BY DEF ScopeInv, NestOK
<1>3. current \in 1..Len(spaces)
  <2>1. nesting # <<>> => 1 \in 1..Len(nesting)
    BY <1>2, NestIs
  <2> QED BY <1>2, <2>1 DEF LevelOK
<1>4. Global \in 1..Len(spaces)
  BY <1>1, <1>2 DEF Global
<1>5. Named(symbols) \subseteq 1..Len(spaces)
  <2>1. PICK k \in Nat : k = Len(spaces)
    BY <1>1
  <2> QED BY <2>1, NamedIs DEF ScopeInv
<1> QED BY <1>1, <1>2, <1>3, <1>4, <1>5

\* A namespace is put at the end.
Opened(ns, outer) == Append(ns, NewNamespace(outer))

LEMMA OpenIs ==
  ASSUME NEW syms, NEW ns, SpacesOK(ns, syms), NEW outer \in 1..Len(ns), NEW ms, ms = Opened(ns, outer)
  PROVE  /\ SpacesOK(ms, syms) /\ Widens(ns, ms) /\ Len(ms) = Len(ns) + 1 /\ Len(ns) \in Nat
         /\ ms[Len(ms)].previous = outer /\ ms[Len(ms)].publish = "public"
<1>1. /\ ns \in Seq(SpaceType) /\ \A n \in 1..Len(ns) : ns[n].previous < n /\ NamesOK(ns[n].names, n, syms)
  BY DEF SpacesOK
<1>2. PICK x : x = NewNamespace(outer)
  OBVIOUS
<1>3. /\ x \in SpaceType /\ x.previous = outer /\ x.publish = "public" /\ x.names = <<>>
  <2>1. outer \in Nat /\ <<>> \in Seq(EntryType) /\ "public" \in Publishes
    BY <1>1, SpaceIs DEF Publishes
  <2> QED BY <1>2, <2>1 DEF NewNamespace, SpaceType
<1>4. /\ ms \in Seq(SpaceType) /\ Len(ms) = Len(ns) + 1 /\ Len(ns) \in Nat /\ ms[Len(ns) + 1] = x
      /\ \A n \in 1..Len(ns) : ms[n] = ns[n]
  <2>1. ms = Append(ns, x)
    BY <1>2 DEF Opened
  <2> QED BY <1>1, <1>3, <2>1, AppendIs
<1>5. NamesOK(<<>>, Len(ns) + 1, syms)
  BY DEF NamesOK
<1>6. ASSUME NEW n \in 1..Len(ms)  PROVE ms[n].previous < n /\ NamesOK(ms[n].names, n, syms)
  <2>1. CASE n = Len(ns) + 1
    <3>1. outer < n
      BY <1>4, <2>1
    <3> QED BY <1>3, <1>4, <1>5, <2>1, <3>1
  <2>2. CASE n # Len(ns) + 1
    <3>1. n \in 1..Len(ns)
      BY <1>4, <2>2
    <3> QED BY <1>1, <1>4, <3>1
  <2> QED BY <2>1, <2>2
<1>7. SpacesOK(ms, syms)
  BY <1>4, <1>6 DEF SpacesOK
<1>8. Widens(ns, ms)
  BY <1>4 DEF Widens
<1> QED BY <1>3, <1>4, <1>7, <1>8

\* Nothing but the tables changes.
LEMMA ParsedStep ==
  ASSUME ScopeInv, NEW t, Parsed(t), Become(t), UNCHANGED <<current, top, nesting, abandoned>>
  PROVE  ScopeInv'
<1>1. PICK syms, ns : syms = t.symbols /\ ns = t.spaces
  OBVIOUS
<1>2. symbols' = syms /\ spaces' = ns
  BY <1>1 DEF Become
<1>3. /\ SymbolsOK(syms, Len(spaces)) /\ SpacesOK(ns, syms) /\ Keeps(symbols, syms)
      /\ SameScopes(spaces, ns) /\ Named(syms) = Named(symbols)
  BY <1>1 DEF Parsed, Declared
<1>4. Len(ns) = Len(spaces) /\ Widens(spaces, ns)
  BY <1>3 DEF SameScopes
<1>5. /\ spaces \in Seq(SpaceType) /\ symbols \in Seq(SymbolType) /\ Named(symbols) \subseteq 1..Len(spaces)
      /\ Len(spaces) \in Nat
  BY InvIs, HereOK
<1>6. NestOK(nesting, current, top, ns, syms)
  <2>1. Deepens(spaces, ns)
    BY <1>4 DEF Widens, Deepens
  <2> QED BY <1>3, <1>4, <1>5, <2>1, NestStays DEF ScopeInv
<1>7. PublishOK(nesting, abandoned, ns, syms)
  <2>1. \A n \in 1..Len(ns) : n \in 1..Len(spaces) \/ ns[n].publish = "public"
    BY <1>4
  <2> QED BY <1>3, <1>4, <1>5, <2>1, PublishStays DEF ScopeInv
<1> QED BY <1>2, <1>3, <1>4, <1>6, <1>7 DEF ScopeInv

LEMMA DeclareStep ==
  ASSUME ScopeInv, NEW name \in Names, NEW publish \in Publishes, Declare(name, publish)
  PROVE  ScopeInv'
<1>1. PICK t : t = ParseNewSymbol(NewSymbol(name, "value", TRUE, 0, publish), publish)
  OBVIOUS
<1>2. Parsed(t)
  BY <1>1, InvIs, ParsedNew
<1> QED BY <1>1, <1>2, ParsedStep DEF Declare

LEMMA TypedefStep ==
  ASSUME ScopeInv, NEW name \in Names, NEW publish \in Publishes, NEW typed \in BOOLEAN,
         Typedef(name, publish, typed)
  PROVE  ScopeInv'
<1>1. PICK t : t = ParseTypedef(name, publish, typed)
  OBVIOUS
<1>2. Parsed(t)
  BY <1>1, InvIs, ParsedTypedef
<1> QED BY <1>1, <1>2, ParsedStep DEF Typedef

LEMMA PrototypeStep ==
  ASSUME ScopeInv, NEW name \in Names, NEW publish \in Publishes, NEW same \in BOOLEAN,
         Prototype(name, publish, same)
  PROVE  ScopeInv'
<1>1. PICK f : f = ParseFunction(name, publish, same)
  OBVIOUS
<1>2. Parsed(f)
  BY <1>1, InvIs, ParsedFunction
<1>3. PICK s, syms, ns : s = f.symbol /\ syms = f.symbols /\ ns = f.spaces
  OBVIOUS
<1>4. PICK t : t = IF s = 0 THEN f ELSE [f EXCEPT !.symbols = [@ EXCEPT ![s].defined = FALSE]]
  OBVIOUS
<1>5. Become(t) /\ UNCHANGED <<current, top, nesting, abandoned>>
  BY <1>1, <1>3, <1>4 DEF Prototype
<1>6. CASE s = 0
  BY <1>2, <1>4, <1>5, <1>6, ParsedStep
<1>7. CASE s # 0
  <2>1. PICK more : more = [syms EXCEPT ![s].defined = FALSE]
    OBVIOUS
  <2>2. /\ SymbolsOK(syms, Len(spaces)) /\ SpacesOK(ns, syms) /\ Keeps(symbols, syms)
        /\ SameScopes(spaces, ns) /\ s \in 0..Len(syms) /\ Named(syms) = Named(symbols)
        /\ syms \in Seq(SymbolType)
    BY <1>2, <1>3 DEF Parsed, Declared, SymbolsOK
  <2>3. Redefines(syms, more, Len(spaces))
    <3>1. PICK k \in Nat, d \in BOOLEAN : k = Len(spaces) /\ d = FALSE
      BY InvIs, HereOK
    <3>2. s \in 1..Len(syms)
      BY <1>7, <2>2, SymbolIs
    <3>3. more = [syms EXCEPT ![s].defined = d] /\ SymbolsOK(syms, k)
      BY <2>1, <2>2, <3>1
    <3>4. Redefines(syms, more, k)
      BY <3>1, <3>2, <3>3, DefineIs
    <3> QED BY <3>1, <3>4
  <2>4. /\ SymbolsOK(more, Len(spaces)) /\ Keeps(syms, more) /\ Named(more) = Named(symbols)
        /\ Len(more) = Len(syms)
    BY <2>2, <2>3 DEF Redefines
  <2>5. SpacesOK(ns, more) /\ Keeps(symbols, more)
    BY <2>2, <2>4, SpacesKeep, KeepsTransitive, InvIs, HereOK
  <2>6. f = [symbols |-> syms, spaces |-> ns, symbol |-> s]
    <3>1. \E x, y, z : f = Tables(x, y, z)
      BY <1>1, Zenon DEF ParseFunction, ParseNewSymbol
    <3> QED BY <1>3, <3>1 DEF Tables
  <2>7. t = [f EXCEPT !.symbols = more]
    BY <1>3, <1>4, <1>7, <2>1, <2>6
  <2>8. t.symbols = more /\ t.spaces = ns /\ t.symbol = s
    BY <2>6, <2>7
  <2>9. Parsed(t)
    BY <2>2, <2>4, <2>5, <2>8 DEF Parsed, Declared
  <2> QED BY <1>5, <2>9, ParsedStep
<1> QED BY <1>6, <1>7

LEMMA EnteredIs ==
  ASSUME NEW nest, NEW cur, NEW tp, NEW ns, NEW syms, NestOK(nest, cur, tp, ns, syms)
  PROVE  EnteredIn(nest) \subseteq 1..Len(ns)
BY DEF NestOK, LevelOK, EnteredIn

LEMMA PublishEnters ==
  ASSUME NEW nest, NEW ab, NEW ns, NEW syms, PublishOK(nest, ab, ns, syms),
         NEW e, NEW ms, NEW more,
         \A n \in 1..Len(ns) : n = e \/ ms[n].publish = ns[n].publish,
         \A n \in 1..Len(ms) : n \in 1..Len(ns) \/ ms[n].publish = "public",
         Named(syms) \subseteq 1..Len(ns), Named(syms) \subseteq Named(more),
         Named(more) \subseteq Named(syms) \cup {e},
         ExtendsAround \/ e \notin EnteredIn(nest),
         ms[e].publish = "private" => ExtendsAround /\ e \in Named(more),
         NEW deeper, Enters(nest, e, deeper)
  PROVE  PublishOK(deeper, ab, ms, more)
<1>1. \A n \in Named(more) : n \in EnteredIn(deeper) \/ n \in ab \/ ms[n].publish = "private"
  <2> TAKE n \in Named(more)
  <2>1. EnteredIn(deeper) = EnteredIn(nest) \cup {e}
    BY DEF Enters
  <2>2. CASE n = e
    BY <2>1, <2>2
  <2>3. CASE n # e
    <3>1. n \in Named(syms) /\ n \in 1..Len(ns) /\ ms[n].publish = ns[n].publish
      BY <2>3
    <3>2. n \in EnteredIn(nest) \/ n \in ab \/ ns[n].publish = "private"
      BY <3>1 DEF PublishOK
    <3> QED BY <2>1, <3>1, <3>2
  <2> QED BY <2>2, <2>3
<1>2. ASSUME NEW n \in 1..Len(ms), ms[n].publish = "private"
      PROVE  n \in Named(more) /\ (ExtendsAround \/ n \notin EnteredIn(deeper) \cup ab)
  <2>1. CASE n = e
    BY <1>2, <2>1
  <2>2. CASE n # e
    <3>1. n \in 1..Len(ns) /\ ns[n].publish = "private"
      BY <1>2, <2>2
    <3>2. n \in Named(syms) /\ (ExtendsAround \/ n \notin EnteredIn(nest) \cup ab)
      BY <3>1 DEF PublishOK
    <3> QED BY <2>2, <3>2 DEF Enters
  <2> QED BY <2>1, <2>2
<1>3. ExtendsAround \/ Distinct(deeper)
  BY DEF PublishOK, Enters
<1> QED BY <1>1, <1>2, <1>3 DEF PublishOK

LEMMA MoreSymbols ==
  ASSUME NEW syms, NEW k \in Nat, SymbolsOK(syms, k), NEW m \in Nat, k <= m
  PROVE  SymbolsOK(syms, m)
BY DEF SymbolsOK

Level(kind, saved, n, s) == [kind |-> kind, saved |-> saved, entered |-> n, symbol |-> s]

LEMMA LevelIs ==
  ASSUME NEW kind \in Kinds, NEW saved \in Nat, NEW n \in Nat, NEW s \in Nat, NEW l, l = Level(kind, saved, n, s)
  PROVE  l \in LevelType /\ l.kind = kind /\ l.saved = saved /\ l.entered = n /\ l.symbol = s
BY DEF Level, LevelType

\* A namespace is opened, after a declaration, and entered.
LEMMA StartStep ==
  ASSUME ScopeInv, NEW syms, NEW ns, NEW ms, NEW e, ms = Opened(ns, current), e = Len(ns) + 1,
         SymbolsOK(syms, e), SpacesOK(ns, syms), Keeps(symbols, syms), SameScopes(spaces, ns),
         NEW kind \in Kinds, NEW s \in 0..Len(syms),
         kind = "namespace" => /\ s # 0 /\ syms[s].class = "namespace" /\ syms[s].namespace = e
                               /\ Named(syms) = Named(symbols) \cup {e},
         kind # "namespace" => Named(syms) = Named(symbols),
         symbols' = syms, spaces' = ms, nesting' = <<Level(kind, current, e, s)>> \o nesting,
         current' = e, UNCHANGED <<top, abandoned>>
  PROVE  ScopeInv'
<1>1. /\ current \in 1..Len(spaces) /\ Named(symbols) \subseteq 1..Len(spaces) /\ Len(spaces) \in Nat
      /\ spaces \in Seq(SpaceType) /\ symbols \in Seq(SymbolType) /\ Len(ns) = Len(spaces)
      /\ Widens(spaces, ns)
  BY InvIs, HereOK DEF SameScopes
<1>2. /\ SpacesOK(ms, syms) /\ Widens(ns, ms) /\ Len(ms) = e /\ e \in Nat
      /\ ms[e].previous = current /\ ms[e].publish = "public"
  BY <1>1, OpenIs
<1>3. Widens(spaces, ms) /\ Deepens(spaces, ms)
  BY <1>1, <1>2 DEF Widens, Deepens
<1>4. \A n \in 1..Len(spaces) : n # e
  BY <1>1
<1>5. Named(syms) = Named(symbols) \/ Named(syms) = Named(symbols) \cup {e}
  OBVIOUS
<1>6. NestOK(nesting, current, top, spaces, symbols) /\ PublishOK(nesting, abandoned, spaces, symbols)
  BY DEF ScopeInv
<1>7. NestOK(nesting, current, top, ms, syms)
  <2>1. \A n \in 1..Len(spaces) : n \in Named(syms) => n \in Named(symbols)
    BY <1>4, <1>5
  <2> QED BY <1>1, <1>3, <1>6, <2>1, NestStays
<1>8. PICK l : l = Level(kind, current, e, s)
  OBVIOUS
<1>9. l \in LevelType /\ l.kind = kind /\ l.saved = current /\ l.entered = e /\ l.symbol = s
  <2>1. current \in Nat /\ s \in Nat
    BY <1>1, SymbolIs DEF Keeps
  <2> QED BY <1>2, <1>8, <2>1, LevelIs
<1>10. e \in 1..Len(ms) /\ e \notin Named(symbols)
  BY <1>1, <1>2, <1>4
<1>11. LevelOK(l, current, ms, syms)
  BY <1>2, <1>9, <1>10 DEF LevelOK
<1>12. PICK deeper : deeper = <<l>> \o nesting
  OBVIOUS
<1>13. NestOK(deeper, e, top, ms, syms) /\ Enters(nesting, e, deeper)
  <2>1. NestOK(deeper, l.entered, top, ms, syms) /\ Enters(nesting, l.entered, deeper)
    BY <1>7, <1>9, <1>11, <1>12, PushIs
  <2> QED BY <1>9, <2>1
<1>14. PublishOK(deeper, abandoned, ms, syms)
  <2>1. \A n \in 1..Len(spaces) : n = e \/ ms[n].publish = spaces[n].publish
    BY <1>3 DEF Widens
  <2>2. \A n \in 1..Len(ms) : n \in 1..Len(spaces) \/ ms[n].publish = "public"
    BY <1>1, <1>2
  <2>3. e \notin EnteredIn(nesting)
    BY <1>4, <1>6, EnteredIs
  <2>4. ms[e].publish # "private"
    BY <1>2
  <2>5. Named(symbols) \subseteq Named(syms) /\ Named(syms) \subseteq Named(symbols) \cup {e}
    BY <1>5
  <2>6. /\ ExtendsAround \/ e \notin EnteredIn(nesting)
        /\ ms[e].publish = "private" => ExtendsAround /\ e \in Named(syms)
    BY <2>3, <2>4
  <2> QED BY ONLY <1>1, <1>6, <1>13, <2>1, <2>2, <2>5, <2>6, PublishEnters
<1> QED BY <1>2, <1>8, <1>12, <1>13, <1>14 DEF ScopeInv

LEMMA BlockStartStep ==
  ASSUME ScopeInv, BlockStart
  PROVE  ScopeInv'
<1>1. PICK ms, e : ms = Opened(spaces, current) /\ e = Len(spaces) + 1
  OBVIOUS
<1>2. /\ SymbolsOK(symbols, Len(spaces)) /\ SpacesOK(spaces, symbols) /\ Keeps(symbols, symbols)
      /\ SameScopes(spaces, spaces) /\ Len(symbols) \in Nat /\ Len(spaces) \in Nat
      /\ current \in 1..Len(spaces)
  BY InvIs, HereOK
<1>3. SymbolsOK(symbols, e)
  <2>1. PICK k \in Nat : k = Len(spaces)
    BY <1>2
  <2>2. e \in Nat /\ k <= e
    BY <1>1, <2>1
  <2> QED BY <1>2, <2>1, <2>2, MoreSymbols
<1>4. symbols' = symbols /\ spaces' = ms
  BY <1>1 DEF BlockStart, Become, Tables, Opened
<1>5. Len(ms) = e
  BY <1>1, <1>2, OpenIs
<1>6. /\ nesting' = <<Level("block", current, e, 0)>> \o nesting /\ current' = e
      /\ UNCHANGED <<top, abandoned>>
  BY <1>4, <1>5 DEF BlockStart, Into, Level
<1>7. 0 \in 0..Len(symbols) /\ "block" \in Kinds /\ "block" # "namespace"
  BY <1>2 DEF Kinds
<1> QED BY <1>1, <1>2, <1>3, <1>4, <1>6, <1>7, StartStep

LEMMA FunctionStartStep ==
  ASSUME ScopeInv, NEW name \in Names, NEW publish \in Publishes, NEW same \in BOOLEAN,
         FunctionStart(name, publish, same)
  PROVE  ScopeInv'
<1>1. PICK f : f = ParseFunction(name, publish, same)
  OBVIOUS
<1>2. Parsed(f)
  BY <1>1, InvIs, ParsedFunction
<1>3. PICK s, syms, ns : s = f.symbol /\ syms = f.symbols /\ ns = f.spaces
  OBVIOUS
<1>4. PICK ms, e : ms = Opened(ns, current) /\ e = Len(ns) + 1
  OBVIOUS
<1>5. /\ SymbolsOK(syms, Len(spaces)) /\ SpacesOK(ns, syms) /\ Keeps(symbols, syms)
      /\ SameScopes(spaces, ns) /\ Len(ns) = Len(spaces) /\ Named(syms) = Named(symbols)
      /\ s \in 0..Len(syms)
  BY <1>2, <1>3 DEF Parsed, Declared, SameScopes
<1>6. Len(spaces) \in Nat /\ current \in 1..Len(spaces)
  BY InvIs, HereOK
<1>7. SymbolsOK(syms, e)
  <2>1. PICK k \in Nat : k = Len(spaces)
    BY <1>6
  <2>2. e \in Nat /\ k <= e
    BY <1>4, <1>5, <2>1
  <2> QED BY <1>5, <2>1, <2>2, MoreSymbols
<1>8. symbols' = syms /\ spaces' = ms
  <2>1. f = [symbols |-> syms, spaces |-> ns, symbol |-> s]
    <3>1. \E x, y, z : f = Tables(x, y, z)
      BY <1>1, Zenon DEF ParseFunction, ParseNewSymbol
    <3> QED BY <1>3, <3>1 DEF Tables
  <2>2. PICK t : t = [f EXCEPT !.spaces = Append(@, NewNamespace(current))]
    OBVIOUS
  <2>3. t = [f EXCEPT !.spaces = ms]
    BY <1>3, <1>4, <2>2 DEF Opened
  <2>4. t.symbols = syms /\ t.spaces = ms
    BY <2>1, <2>3
  <2>5. Become(t)
    BY <1>1, <2>2 DEF FunctionStart
  <2> QED BY <2>4, <2>5 DEF Become
<1>9. Len(ms) = e
  BY <1>4, <1>5, <1>6, OpenIs
<1>10. /\ nesting' = <<Level("function", current, e, s)>> \o nesting /\ current' = e
       /\ UNCHANGED <<top, abandoned>>
  BY <1>1, <1>3, <1>8, <1>9 DEF FunctionStart, Into, Level
<1>11. "function" \in Kinds /\ "function" # "namespace"
  BY DEF Kinds
<1> QED BY <1>4, <1>5, <1>7, <1>8, <1>10, <1>11, StartStep

LEMMA NamespaceStartStep ==
  ASSUME ScopeInv, NEW name \in Names, NEW publish \in Publishes, NamespaceStart(name, publish)
  PROVE  ScopeInv'
<1>1. PICK e : e = Len(spaces) + 1
  OBVIOUS
<1>2. PICK x : x = NewSymbol(name, "namespace", TRUE, e, publish)
  OBVIOUS
<1>3. PICK f : f = ParseNewSymbol(x, publish)
  OBVIOUS
<1>4. Len(spaces) \in Nat /\ current \in 1..Len(spaces) /\ e \in Nat /\ Len(spaces) <= e /\ SpacesHere
  BY <1>1, InvIs, HereOK
<1>5. /\ x \in SymbolType /\ x.class = "namespace" /\ x.namespace = e /\ x.home = current
      /\ x.declared = publish
  <2>1. "namespace" \in Classes
    BY DEF Classes
  <2>2. PICK yes \in BOOLEAN : yes = TRUE
    OBVIOUS
  <2>3. x = NewSymbol(name, "namespace", yes, e, publish)
    BY <1>2, <2>2
  <2>4. IsNew(x, name, "namespace", e, publish)
    BY <1>4, <2>1, <2>2, <2>3, NewSymbolIs
  <2> QED BY <2>4 DEF IsNew
<1>6. SymbolFits(x, e)
  BY <1>1, <1>4, <1>5 DEF SymbolFits
<1>7. PICK s, syms, ns : s = f.symbol /\ syms = f.symbols /\ ns = f.spaces
  OBVIOUS
<1>8. /\ Declared(f, e) /\ s # 0 /\ syms[s] = x /\ Named(syms) = Named(symbols) \cup {e}
  <2>1. /\ Declared(f, e) /\ f.symbol # 0 /\ f.symbols[f.symbol] = x
        /\ Named(f.symbols) = Named(symbols) \cup (IF x.class = "namespace" THEN {x.namespace} ELSE {})
    BY <1>3, <1>4, <1>5, <1>6, NewIs
  <2> QED BY <1>5, <1>7, <2>1
<1>9. /\ SymbolsOK(syms, e) /\ SpacesOK(ns, syms) /\ Keeps(symbols, syms)
      /\ SameScopes(spaces, ns) /\ Len(ns) = Len(spaces) /\ s \in 0..Len(syms)
  BY <1>7, <1>8 DEF Declared, SameScopes
<1>10. PICK ms : ms = Opened(ns, current)
  OBVIOUS
<1>11. symbols' = syms /\ spaces' = ms
  <2>1. f = [symbols |-> syms, spaces |-> ns, symbol |-> s]
    <3>1. \E u, v, w : f = Tables(u, v, w)
      BY <1>3, Zenon DEF ParseNewSymbol
    <3> QED BY <1>7, <3>1 DEF Tables
  <2>2. PICK t : t = [f EXCEPT !.spaces = Append(@, NewNamespace(current))]
    OBVIOUS
  <2>3. t = [f EXCEPT !.spaces = ms]
    BY <1>7, <1>10, <2>2 DEF Opened
  <2>4. t.symbols = syms /\ t.spaces = ms
    BY <2>1, <2>3
  <2>5. Become(t)
    BY <1>1, <1>2, <1>3, <2>2 DEF NamespaceStart
  <2> QED BY <2>4, <2>5 DEF Become
<1>12. /\ nesting' = <<Level("namespace", current, e, s)>> \o nesting /\ current' = e
       /\ UNCHANGED <<top, abandoned>>
  BY <1>1, <1>2, <1>3, <1>7 DEF NamespaceStart, Into, Level
<1>13. "namespace" \in Kinds
  BY DEF Kinds
<1> QED BY <1>1, <1>5, <1>8, <1>9, <1>10, <1>11, <1>12, <1>13, StartStep

Republished(ns, ms, n, publish, syms) ==
  /\ SpacesOK(ms, syms) /\ Deepens(ns, ms) /\ Len(ms) = Len(ns)
  /\ \A m \in 1..Len(ns) : ms[m].publish = IF m = n THEN publish ELSE ns[m].publish

LEMMA RepublishIs ==
  ASSUME NEW syms, NEW ns, SpacesOK(ns, syms), NEW n \in 1..Len(ns), NEW publish \in Publishes,
         NEW ms, ms = [ns EXCEPT ![n].publish = publish]
  PROVE  Republished(ns, ms, n, publish, syms)
<1>1. /\ ns \in Seq(SpaceType)
      /\ \A m \in 1..Len(ns) : ns[m].previous < m /\ NamesOK(ns[m].names, m, syms)
  BY DEF SpacesOK
<1>2. Len(ns) \in Nat /\ DOMAIN ns = 1..Len(ns) /\ ns[n] \in SpaceType
  BY <1>1, SpaceIs
<1>3. PICK x : x = [ns[n] EXCEPT !.publish = publish]
  OBVIOUS
<1>4. x \in SpaceType /\ x.names = ns[n].names /\ x.previous = ns[n].previous /\ x.publish = publish
  BY <1>2, <1>3 DEF SpaceType
<1>5. ms = [ns EXCEPT ![n] = x]
  BY <1>3
<1>6. /\ ms \in Seq(SpaceType) /\ Len(ms) = Len(ns)
      /\ \A m \in 1..Len(ns) : ms[m] = IF m = n THEN x ELSE ns[m]
  <2>1. /\ [ns EXCEPT ![n] = x] \in Seq(SpaceType) /\ Len([ns EXCEPT ![n] = x]) = Len(ns)
        /\ \A m \in 1..Len(ns) : [ns EXCEPT ![n] = x][m] = IF m = n THEN x ELSE ns[m]
    BY ONLY <1>1, <1>4, n \in 1..Len(ns), ExceptSeq
  <2> QED BY <1>5, <2>1
<1>7. Deepens(ns, ms)
  BY <1>2, <1>4, <1>6 DEF Deepens
<1>8. \A m \in 1..Len(ns) : ms[m].previous < m /\ NamesOK(ms[m].names, m, syms)
  <2> TAKE m \in 1..Len(ns)
  <2>1. CASE m = n
    BY <1>1, <1>4, <1>6, <2>1
  <2>2. CASE m # n
    BY <1>1, <1>6, <2>2
  <2> QED BY <2>1, <2>2
<1>9. SpacesOK(ms, syms)
  BY <1>6, <1>8 DEF SpacesOK
<1> QED BY <1>4, <1>6, <1>7, <1>9 DEF Republished

\* The namespace of a symbol.
LEMMA StandsFor ==
  ASSUME ScopeInv, NEW s \in 1..Len(symbols), symbols[s].class = "namespace",
         NEW n, n = symbols[s].namespace
  PROVE  n \in 1..Len(spaces) /\ n \in Named(symbols)
<1>1. n \in 1..Len(spaces)
  BY DEF ScopeInv, SymbolsOK
<1>2. n \in Nat
  BY <1>1, InvIs DEF SpacesHere
<1> QED BY <1>1, <1>2 DEF Named

LEMMA ExtendStep ==
  ASSUME ScopeInv, NEW name \in Names, ExtendStart(name)
  PROVE  ScopeInv'
<1>1. PICK s : s = NamespaceFindName(current, name, TRUE)
  OBVIOUS
<1>2. PICK n : n = symbols[s].namespace
  OBVIOUS
<1>3. PICK publish : publish = IF n # current THEN "public" ELSE spaces[n].publish
  OBVIOUS
<1>4. /\ IsNamespace(s)
      /\ ExtendsAround \/ n \notin Entered
      /\ spaces' = [spaces EXCEPT ![n].publish = publish]
      /\ nesting' = <<Level("namespace", current, n, s)>> \o nesting /\ current' = n
      /\ UNCHANGED <<symbols, top, abandoned>>
  BY <1>1, <1>2, <1>3 DEF ExtendStart, Into, Level
<1>5. /\ SpacesHere /\ Len(spaces) \in Nat /\ current \in 1..Len(spaces) /\ nesting \in Seq(LevelType)
      /\ spaces \in Seq(SpaceType) /\ symbols \in Seq(SymbolType) /\ Len(symbols) \in Nat
      /\ SymbolsOK(symbols, Len(spaces)) /\ SpacesOK(spaces, symbols) /\ Keeps(symbols, symbols)
      /\ Named(symbols) \subseteq 1..Len(spaces)
  BY InvIs, HereOK
<1>6. s \in 1..Len(symbols) /\ symbols[s].class = "namespace" /\ s # 0
  <2>1. PICK yes \in BOOLEAN : yes = TRUE
    OBVIOUS
  <2>2. current \in 0..Len(spaces) /\ s = NamespaceFindName(current, name, yes)
    BY <1>1, <1>5, <2>1
  <2>3. s \in 0..Len(symbols)
    BY <1>5, <2>1, <2>2, FindNameIs
  <2> QED BY <1>4, <1>5, <2>3 DEF IsNamespace
<1>7. n \in 1..Len(spaces) /\ n \in Named(symbols)
  BY <1>2, <1>6, StandsFor
<1>8. publish \in Publishes
  BY <1>3, <1>5, <1>7, SpaceIs DEF Publishes
<1>9. PICK ms : ms = spaces'
  OBVIOUS
<1>10. /\ SpacesOK(ms, symbols) /\ Deepens(spaces, ms) /\ Len(ms) = Len(spaces)
       /\ \A m \in 1..Len(spaces) : ms[m].publish = IF m = n THEN publish ELSE spaces[m].publish
  <2>1. ms = [spaces EXCEPT ![n].publish = publish]
    BY <1>4, <1>9
  <2>2. Republished(spaces, ms, n, publish, symbols)
    BY <1>5, <1>7, <1>8, <2>1, RepublishIs
  <2> QED BY <2>2 DEF Republished
<1>11. NestOK(nesting, current, top, spaces, symbols) /\ PublishOK(nesting, abandoned, spaces, symbols)
  BY DEF ScopeInv
<1>12. NestOK(nesting, current, top, ms, symbols)
  BY <1>5, <1>10, <1>11, NestStays
<1>13. PICK l : l = Level("namespace", current, n, s)
  OBVIOUS
<1>14. l \in LevelType /\ l.kind = "namespace" /\ l.saved = current /\ l.entered = n /\ l.symbol = s
  <2>1. current \in Nat /\ n \in Nat /\ s \in Nat /\ "namespace" \in Kinds
    BY <1>5, <1>6, <1>7 DEF Kinds
  <2> QED BY <1>13, <2>1, LevelIs
<1>15. LevelOK(l, current, ms, symbols)
  BY <1>2, <1>5, <1>6, <1>7, <1>10, <1>14 DEF LevelOK
<1>16. PICK deeper : deeper = <<l>> \o nesting
  OBVIOUS
<1>17. NestOK(deeper, n, top, ms, symbols) /\ Enters(nesting, n, deeper)
  <2>1. NestOK(deeper, l.entered, top, ms, symbols) /\ Enters(nesting, l.entered, deeper)
    BY <1>12, <1>14, <1>15, <1>16, PushIs
  <2> QED BY <1>14, <2>1
<1>18. Entered = EnteredIn(nesting)
  BY <1>5, NestIs DEF Entered, EnteredIn
<1>19. PublishOK(deeper, abandoned, ms, symbols)
  <2>1. \A m \in 1..Len(spaces) : m = n \/ ms[m].publish = spaces[m].publish
    BY <1>10
  <2>2. \A m \in 1..Len(ms) : m \in 1..Len(spaces) \/ ms[m].publish = "public"
    BY <1>10
  <2>3. ExtendsAround \/ n \notin EnteredIn(nesting)
    BY <1>4, <1>18
  <2>4. ms[n].publish = "private" => ExtendsAround /\ n \in Named(symbols)
    <3> SUFFICES ASSUME ms[n].publish = "private"  PROVE ExtendsAround
      BY <1>7
    <3>1. n = current /\ spaces[n].publish = "private"
      BY <1>3, <1>7, <1>10
    <3>2. n \in EnteredIn(nesting)
      <4>1. current = (IF nesting = <<>> THEN top ELSE nesting[1].entered) /\ top \notin Named(symbols)
        BY <1>11 DEF NestOK
      <4>2. nesting # <<>> /\ n = nesting[1].entered /\ n \in Nat
        BY <1>5, <1>7, <3>1, <4>1
      <4>3. 1 \in 1..Len(nesting)
        BY <1>5, <4>2, NestIs
      <4> QED BY <4>2, <4>3 DEF EnteredIn
    <3> QED BY <1>7, <1>11, <3>1, <3>2 DEF PublishOK
  <2>5. Named(symbols) \subseteq Named(symbols) /\ Named(symbols) \subseteq Named(symbols) \cup {n}
    OBVIOUS
  <2> QED BY ONLY <1>5, <1>11, <1>17, <2>1, <2>2, <2>3, <2>4, <2>5, PublishEnters
<1>20. spaces' = ms /\ symbols' = symbols /\ nesting' = deeper /\ current' = n /\ top' = top /\ abandoned' = abandoned
  BY <1>4, <1>9, <1>13, <1>16
<1> QED BY <1>5, <1>10, <1>17, <1>19, <1>20 DEF ScopeInv

\* The parser leaves a namespace that has no name, or one that it is in anyway.
LEMMA PublishLeaves ==
  ASSUME NEW nest, NEW ab, NEW ns, NEW syms, PublishOK(nest, ab, ns, syms),
         NEW n, NEW rest, Leaves(nest, n, rest), n \notin Named(syms) \/ n \in EnteredIn(rest)
  PROVE  PublishOK(rest, ab, ns, syms)
<1>1. EnteredIn(nest) = EnteredIn(rest) \cup {n} /\ (Distinct(nest) => Distinct(rest))
  BY DEF Leaves
<1>2. \A m \in Named(syms) : m \in EnteredIn(rest) \/ m \in ab \/ ns[m].publish = "private"
  BY <1>1 DEF PublishOK
<1>3. \A m \in 1..Len(ns) : ns[m].publish = "private" =>
        m \in Named(syms) /\ (ExtendsAround \/ m \notin EnteredIn(rest) \cup ab)
  BY <1>1 DEF PublishOK
<1>4. ExtendsAround \/ Distinct(rest)
  BY <1>1 DEF PublishOK
<1> QED BY <1>2, <1>3, <1>4 DEF PublishOK

\* It leaves one that is closed thereby.
LEMMA PublishCloses ==
  ASSUME NEW nest, NEW ab, NEW ns, NEW syms, PublishOK(nest, ab, ns, syms),
         NEW n, NEW rest, Leaves(nest, n, rest), n \in Named(syms), Named(syms) \subseteq 1..Len(ns),
         NEW ms, Len(ms) = Len(ns),
         \A m \in 1..Len(ns) : ms[m].publish = IF m = n THEN "private" ELSE ns[m].publish
  PROVE  PublishOK(rest, ab \ {n}, ms, syms)
<1>1. /\ EnteredIn(nest) = EnteredIn(rest) \cup {n}
      /\ Distinct(nest) => Distinct(rest) /\ n \notin EnteredIn(rest)
  BY DEF Leaves
<1>2. \A m \in Named(syms) : m \in EnteredIn(rest) \/ m \in ab \ {n} \/ ms[m].publish = "private"
  BY <1>1 DEF PublishOK
<1>3. ASSUME NEW m \in 1..Len(ms), ms[m].publish = "private"
      PROVE  m \in Named(syms) /\ (ExtendsAround \/ m \notin EnteredIn(rest) \cup (ab \ {n}))
  <2>1. CASE m = n
    BY <1>1, <2>1 DEF PublishOK
  <2>2. CASE m # n
    BY <1>1, <1>3, <2>2 DEF PublishOK
  <2> QED BY <2>1, <2>2
<1>4. ExtendsAround \/ Distinct(rest)
  BY <1>1 DEF PublishOK
<1> QED BY <1>2, <1>3, <1>4 DEF PublishOK

\* The end of a block or a function: the namespace around it is the one that was saved.
LEMMA EndStep ==
  ASSUME ScopeInv, nesting # <<>>, Head(nesting).kind # "namespace",
         Redefines(symbols, symbols', Len(spaces)),
         nesting' = Tail(nesting), current' = spaces[current].previous,
         UNCHANGED <<spaces, top, abandoned>>
  PROVE  ScopeInv'
<1>1. PICK l, rest, more : l = Head(nesting) /\ rest = Tail(nesting) /\ more = symbols'
  OBVIOUS
<1>2. NestOK(nesting, current, top, spaces, symbols) /\ PublishOK(nesting, abandoned, spaces, symbols)
  BY DEF ScopeInv
<1>3. /\ SymbolsOK(more, Len(spaces)) /\ Keeps(symbols, more) /\ Named(more) = Named(symbols)
  BY <1>1 DEF Redefines
<1>4. /\ current = l.entered /\ LevelOK(l, l.saved, spaces, symbols)
      /\ NestOK(rest, l.saved, top, spaces, symbols) /\ Leaves(nesting, current, rest)
  BY <1>1, <1>2, PopIs
<1>5. spaces[current].previous = l.saved /\ current \notin Named(symbols)
  BY <1>1, <1>4 DEF LevelOK
<1>6. /\ spaces \in Seq(SpaceType) /\ symbols \in Seq(SymbolType) /\ SpacesOK(spaces, symbols)
      /\ Named(symbols) \subseteq 1..Len(spaces)
  BY InvIs, HereOK DEF SpacesHere
<1>7. Deepens(spaces, spaces) /\ Widens(spaces, spaces)
  BY <1>6, SpaceIs DEF Deepens, Widens
<1>8. NestOK(rest, l.saved, top, spaces, more)
  BY <1>3, <1>4, <1>6, <1>7, NestStays
<1>9. PublishOK(rest, abandoned, spaces, more)
  <2>1. PublishOK(rest, abandoned, spaces, symbols)
    BY <1>2, <1>4, <1>5, PublishLeaves
  <2> QED BY <1>3, <1>6, <1>7, <2>1, PublishStays
<1>10. SpacesOK(spaces, more)
  BY <1>3, <1>6, SpacesKeep
<1>11. /\ spaces' = spaces /\ symbols' = more /\ nesting' = rest /\ current' = l.saved
       /\ top' = top /\ abandoned' = abandoned
  BY <1>1, <1>5
<1> QED BY <1>3, <1>8, <1>9, <1>10, <1>11 DEF ScopeInv

LEMMA RedefinesSelf ==
  ASSUME NEW syms, NEW k, SymbolsOK(syms, k)
  PROVE  Redefines(syms, syms, k)
BY SymbolIs DEF Redefines, Keeps, SymbolsOK

LEMMA BlockEndStep ==
  ASSUME ScopeInv, BlockEnd
  PROVE  ScopeInv'
<1>1. /\ nesting # <<>> /\ Head(nesting).kind # "namespace"
      /\ nesting' = Tail(nesting) /\ current' = spaces[current].previous
      /\ UNCHANGED <<spaces, symbols, top, abandoned>>
  BY DEF BlockEnd, In, Back
<1>2. Redefines(symbols, symbols', Len(spaces))
  BY <1>1, RedefinesSelf DEF ScopeInv
<1> QED BY <1>1, <1>2, EndStep

LEMMA FunctionEndStep ==
  ASSUME ScopeInv, FunctionEnd
  PROVE  ScopeInv'
<1>1. PICK s : s = Head(nesting).symbol
  OBVIOUS
<1>2. /\ nesting # <<>> /\ Head(nesting).kind # "namespace"
      /\ nesting' = Tail(nesting) /\ current' = spaces[current].previous
      /\ symbols' = IF s = 0 THEN symbols ELSE [symbols EXCEPT ![s].defined = TRUE]
      /\ UNCHANGED <<spaces, top, abandoned>>
  BY <1>1 DEF FunctionEnd, In, Back
<1>3. SymbolsOK(symbols, Len(spaces)) /\ Len(spaces) \in Nat /\ Len(symbols) \in Nat
  BY InvIs, HereOK DEF ScopeInv
<1>4. s \in 0..Len(symbols)
  <2>1. PICK l, rest : l = Head(nesting) /\ rest = Tail(nesting)
    OBVIOUS
  <2>2. LevelOK(l, l.saved, spaces, symbols)
    BY <1>2, <2>1, PopIs DEF ScopeInv
  <2> QED BY <1>1, <2>1, <2>2 DEF LevelOK
<1>5. Redefines(symbols, symbols', Len(spaces))
  <2>1. CASE s = 0
    BY <1>2, <1>3, <2>1, RedefinesSelf
  <2>2. CASE s # 0
    <3>1. PICK k \in Nat, yes \in BOOLEAN : k = Len(spaces) /\ yes = TRUE
      BY <1>3
    <3>2. s \in 1..Len(symbols)
      BY <1>3, <1>4, <2>2
    <3>3. symbols' = [symbols EXCEPT ![s].defined = yes] /\ SymbolsOK(symbols, k)
      BY <1>2, <1>3, <2>2, <3>1
    <3>4. Redefines(symbols, symbols', k)
      BY <3>1, <3>2, <3>3, DefineIs
    <3> QED BY <3>1, <3>4
  <2> QED BY <2>1, <2>2
<1> QED BY <1>2, <1>5, EndStep

LEMMA NamespaceEndStep ==
  ASSUME ScopeInv, NamespaceEnd
  PROVE  ScopeInv'
<1>1. PICK l, rest : l = Head(nesting) /\ rest = Tail(nesting)
  OBVIOUS
<1>2. /\ nesting # <<>> /\ l.kind = "namespace" /\ nesting' = rest /\ current' = l.saved
      /\ symbols' = symbols /\ top' = top
      /\ \/ /\ current # l.saved /\ spaces' = [spaces EXCEPT ![current].publish = "private"]
            /\ abandoned' = abandoned \ {current}
         \/ current = l.saved /\ spaces' = spaces /\ abandoned' = abandoned
  BY <1>1 DEF NamespaceEnd, In, Back
<1>3. /\ NestOK(nesting, current, top, spaces, symbols) /\ PublishOK(nesting, abandoned, spaces, symbols)
      /\ SymbolsOK(symbols, Len(spaces)) /\ SpacesOK(spaces, symbols)
  BY DEF ScopeInv
<1>4. /\ current = l.entered /\ LevelOK(l, l.saved, spaces, symbols)
      /\ NestOK(rest, l.saved, top, spaces, symbols) /\ Leaves(nesting, current, rest)
  <2>1. nesting # <<>> /\ NestOK(nesting, current, top, spaces, symbols)
    BY <1>2, <1>3
  <2> QED BY <1>1, <2>1, PopIs
<1>5. /\ spaces \in Seq(SpaceType) /\ symbols \in Seq(SymbolType) /\ current \in 1..Len(spaces)
      /\ Named(symbols) \subseteq 1..Len(spaces) /\ Len(symbols) \in Nat /\ Len(spaces) \in Nat
      /\ Keeps(symbols, symbols)
  BY InvIs, HereOK
<1>6. current \in Named(symbols)
  <2>1. l.symbol \in 0..Len(symbols) /\ l.symbol # 0 /\ symbols[l.symbol].class = "namespace"
        /\ current = symbols[l.symbol].namespace
    BY <1>2, <1>4 DEF LevelOK
  <2>2. l.symbol \in 1..Len(symbols)
    BY <1>5, <2>1
  <2> QED BY <2>1, <2>2, StandsFor
<1>7. CASE current # l.saved
  <2>1. PICK ms, private : ms = spaces' /\ private = "private"
    OBVIOUS
  <2>2. private \in Publishes
    BY <2>1 DEF Publishes
  <2>3. ms = [spaces EXCEPT ![current].publish = private]
    BY <1>2, <1>7, <2>1
  <2>4. /\ SpacesOK(ms, symbols) /\ Deepens(spaces, ms) /\ Len(ms) = Len(spaces)
        /\ \A m \in 1..Len(spaces) : ms[m].publish = IF m = current THEN private ELSE spaces[m].publish
    <3>1. Republished(spaces, ms, current, private, symbols)
      BY <1>3, <1>5, <2>2, <2>3, RepublishIs
    <3> QED BY <3>1 DEF Republished
  <2>5. NestOK(rest, l.saved, top, ms, symbols)
    BY <1>4, <1>5, <2>4, NestStays
  <2>6. PublishOK(rest, abandoned \ {current}, ms, symbols)
    BY <1>3, <1>4, <1>5, <1>6, <2>1, <2>4, PublishCloses
  <2>7. /\ spaces' = ms /\ symbols' = symbols /\ nesting' = rest /\ current' = l.saved /\ top' = top
        /\ abandoned' = abandoned \ {current}
    BY <1>2, <1>7, <2>1
  <2> QED BY <1>3, <2>4, <2>5, <2>6, <2>7 DEF ScopeInv
<1>8. CASE current = l.saved
  <2>1. rest # <<>> /\ current = rest[1].entered /\ rest \in Seq(LevelType)
    BY <1>4, <1>6, <1>8 DEF NestOK
  <2>2. 1 \in 1..Len(rest) /\ current \in Nat
    BY <1>5, <2>1, NestIs
  <2>3. current \in EnteredIn(rest)
    BY <2>1, <2>2 DEF EnteredIn
  <2>4. PublishOK(rest, abandoned, spaces, symbols)
    BY <1>3, <1>4, <2>3, PublishLeaves
  <2>5. /\ spaces' = spaces /\ symbols' = symbols /\ nesting' = rest /\ current' = l.saved
        /\ top' = top /\ abandoned' = abandoned
    BY <1>2, <1>8
  <2> QED BY <1>3, <1>4, <2>4, <2>5 DEF ScopeInv
<1> QED BY <1>2, <1>7, <1>8

LEMMA NoNest ==
  ASSUME NEW tp, NEW ns, NEW syms, tp \in 1..Len(ns), tp \notin Named(syms), Global \notin Named(syms)
  PROVE  NestOK(<<>>, tp, tp, ns, syms) /\ EnteredIn(<<>>) = {} /\ Distinct(<<>>)
<1>1. <<>> \in Seq(LevelType) /\ Len(<<>>) = 0 /\ \A i \in 1..0 : FALSE
  BY EmptySeq
<1> QED BY <1>1 DEF NestOK, EnteredIn, Distinct

\* The lists of names change, and the parser stays where it is.
LEMMA SameStep ==
  ASSUME ScopeInv, spaces' \in Good(spaces, symbols), UNCHANGED <<symbols, current, top, nesting, abandoned>>
  PROVE  ScopeInv'
<1>1. PICK ms : ms = spaces'
  OBVIOUS
<1>2. SpacesOK(ms, symbols) /\ Widens(spaces, ms) /\ Len(ms) = Len(spaces)
  BY <1>1 DEF Good, SameScopes
<1>3. /\ SymbolsOK(symbols, Len(spaces)) /\ spaces \in Seq(SpaceType) /\ symbols \in Seq(SymbolType)
      /\ Keeps(symbols, symbols) /\ Named(symbols) \subseteq 1..Len(spaces)
  BY InvIs, HereOK
<1>4. Deepens(spaces, ms)
  BY <1>2 DEF Widens, Deepens
<1>5. NestOK(nesting, current, top, spaces, symbols) /\ PublishOK(nesting, abandoned, spaces, symbols)
  BY DEF ScopeInv
<1>6. NestOK(nesting, current, top, ms, symbols)
  BY <1>3, <1>4, <1>5, NestStays
<1>7. PublishOK(nesting, abandoned, ms, symbols)
  BY <1>2, <1>3, <1>5, PublishStays
<1>8. /\ spaces' = ms /\ symbols' = symbols /\ nesting' = nesting /\ current' = current
      /\ top' = top /\ abandoned' = abandoned
  BY <1>1
<1> QED BY <1>2, <1>3, <1>6, <1>7, <1>8 DEF ScopeInv

\* The parser forgets the namespaces it was in: those that have a name stay open.
LEMMA ResetStep ==
  ASSUME ScopeInv, spaces' \in Good(spaces, symbols), UNCHANGED <<symbols, top>>, ResetParser
  PROVE  ScopeInv'
<1>1. PICK ms, ab : ms = spaces' /\ ab = abandoned'
  OBVIOUS
<1>2. SpacesOK(ms, symbols) /\ Widens(spaces, ms) /\ Len(ms) = Len(spaces)
  BY <1>1 DEF Good, SameScopes
<1>3. /\ SymbolsOK(symbols, Len(spaces)) /\ spaces \in Seq(SpaceType)
      /\ Named(symbols) \subseteq 1..Len(spaces) /\ Global \notin Named(symbols)
      /\ nesting \in Seq(LevelType)
  BY InvIs, HereOK
<1>4. NestOK(nesting, current, top, spaces, symbols) /\ PublishOK(nesting, abandoned, spaces, symbols)
  BY DEF ScopeInv
<1>5. nesting' = <<>> /\ current' = top /\ top' = top /\ symbols' = symbols /\ spaces' = ms
  BY <1>1 DEF ResetParser
<1>6. top \in 1..Len(ms) /\ top \notin Named(symbols)
  BY <1>2, <1>4 DEF NestOK
<1>7. NestOK(<<>>, top, top, ms, symbols) /\ EnteredIn(<<>>) = {} /\ Distinct(<<>>)
  BY <1>3, <1>6, NoNest
<1>8. /\ DOMAIN nesting = 1..Len(nesting)
      /\ \A i \in 1..Len(nesting) : nesting[i].entered \in Nat
  BY <1>3, NestIs
<1>9. \A n : n \in ab <=> \/ n \in abandoned
                          \/ \E i \in 1..Len(nesting) : nesting[i].kind = "namespace" /\ nesting[i].entered = n
  BY <1>1, <1>8 DEF ResetParser
<1>10. \A n \in Named(symbols) : n \in EnteredIn(nesting) => n \in ab
  <2> TAKE n \in Named(symbols)
  <2> SUFFICES ASSUME n \in EnteredIn(nesting)  PROVE n \in ab
    OBVIOUS
  <2>1. PICK i \in 1..Len(nesting) : nesting[i].entered = n
    BY DEF EnteredIn
  <2>2. LevelOK(nesting[i], Outer(nesting, top, i), spaces, symbols)
    BY <1>4, <2>1 DEF NestOK
  <2>3. nesting[i].kind = "namespace"
    BY <2>1, <2>2 DEF LevelOK
  <2> QED BY <1>9, <2>1, <2>3
<1>11. ab \subseteq abandoned \cup EnteredIn(nesting) /\ abandoned \subseteq ab
  BY <1>8, <1>9 DEF EnteredIn
<1>12. \A n \in 1..Len(spaces) : ms[n].publish = spaces[n].publish
  BY <1>2 DEF Widens
<1>13. PublishOK(<<>>, ab, ms, symbols)
  <2>1. \A n \in Named(symbols) : n \in ab \/ ms[n].publish = "private"
    BY <1>3, <1>4, <1>10, <1>11, <1>12 DEF PublishOK
  <2>2. \A n \in 1..Len(ms) : ms[n].publish = "private" =>
          n \in Named(symbols) /\ (ExtendsAround \/ n \notin {} \cup ab)
    BY <1>2, <1>4, <1>11, <1>12 DEF PublishOK
  <2> QED BY <1>7, <2>1, <2>2 DEF PublishOK
<1> QED BY <1>1, <1>2, <1>3, <1>5, <1>7, <1>13 DEF ScopeInv

LEMMA ParseErrorStep ==
  ASSUME ScopeInv, ParseError
  PROVE  ScopeInv'
<1>1. spaces \in Good(spaces, symbols)
  BY InvIs, HereOK, GoodSelf
<1> QED BY <1>1, ResetStep DEF ParseError

LEMMA ImportInvStep ==
  ASSUME ScopeInv, NEW paths \in Imports, NEW publish \in Publishes, Import(paths, publish)
  PROVE  ScopeInv'
<1>1. SpacesHere /\ current \in 1..Len(spaces)
  BY InvIs
<1>2. /\ spaces' \in Good(spaces, symbols) /\ UNCHANGED <<symbols, top>>
      /\ UNCHANGED <<current, nesting, abandoned>> \/ ResetParser
  BY <1>1, ImportStep
<1> QED BY <1>2, SameStep, ResetStep

LEMMA UndefineStep ==
  ASSUME ScopeInv, NEW path, Undefine(path)
  PROVE  ScopeInv'
<1>1. PICK n, name : n = NamespaceLocate(path).namespace /\ name = symbols[NamespaceLocate(path).symbol].name
  OBVIOUS
<1>2. /\ spaces' = [spaces EXCEPT ![n].names = NamespaceRemoveName(@, name, symbols)]
      /\ UNCHANGED <<symbols, current, top, nesting, abandoned>>
  BY <1>1 DEF Undefine
<1>3. SpacesOK(spaces, symbols) /\ spaces \in Seq(SpaceType) /\ DOMAIN spaces = 1..Len(spaces)
  BY InvIs, HereOK DEF SpacesHere
<1>4. spaces' \in Good(spaces, symbols)
  <2>1. CASE n \in 1..Len(spaces)
    <3>1. PICK names : names = NamespaceRemoveName(spaces[n].names, name, symbols)
      OBVIOUS
    <3>2. PICK old : old = spaces[n].names
      OBVIOUS
    <3>3. old \in Seq(EntryType) /\ NamesOK(old, n, symbols)
      BY <1>3, <2>1, <3>2, SpaceIs DEF SpacesOK
    <3>4. names = NamespaceRemoveName(old, name, symbols)
      BY <3>1, <3>2
    <3>5. names \in Seq(EntryType) /\ NamesOK(names, n, symbols)
      BY <3>3, <3>4, RemoveIs
    <3>6. PICK ms : ms = spaces'
      OBVIOUS
    <3>7. ms = [spaces EXCEPT ![n].names = names]
      BY <1>2, <3>1, <3>6
    <3>8. SpacesOK(ms, symbols) /\ SameScopes(spaces, ms)
      BY <1>3, <2>1, <3>5, <3>7, RenamesIs
    <3> QED BY <3>6, <3>8 DEF Good, SpacesOK
  <2>2. CASE n \notin 1..Len(spaces)
    <3>1. spaces' = spaces
      BY <1>2, <1>3, <2>2
    <3> QED BY <1>3, <3>1, GoodSelf
  <2> QED BY <2>1, <2>2
<1> QED BY <1>2, <1>4, SameStep

LEMMA DebugSetFrameStep ==
  ASSUME ScopeInv, NEW n \in DOMAIN spaces, DebugSetFrame(n)
  PROVE  ScopeInv'
<1>1. PICK ms, e : ms = Opened(spaces, n) /\ e = Len(spaces) + 1
  OBVIOUS
<1>2. /\ SymbolsOK(symbols, Len(spaces)) /\ SpacesOK(spaces, symbols) /\ spaces \in Seq(SpaceType)
      /\ symbols \in Seq(SymbolType) /\ Len(spaces) \in Nat /\ n \in 1..Len(spaces)
      /\ Named(symbols) \subseteq 1..Len(spaces) /\ Global \notin Named(symbols)
  BY InvIs, HereOK DEF SpacesHere
<1>3. SpacesOK(ms, symbols) /\ Widens(spaces, ms) /\ Len(ms) = e /\ ms[e].publish = "public"
  BY <1>1, <1>2, OpenIs
<1>4. /\ nesting = <<>> /\ nesting' = <<>> /\ spaces' = ms /\ symbols' = symbols
      /\ current' = e /\ top' = e /\ abandoned' = abandoned
  BY <1>1, <1>3 DEF DebugSetFrame, Become, Tables, Opened
<1>5. SymbolsOK(symbols, e)
  <2>1. PICK k \in Nat : k = Len(spaces)
    BY <1>2
  <2>2. e \in Nat /\ k <= e
    BY <1>1, <2>1
  <2> QED BY <1>2, <2>1, <2>2, MoreSymbols
<1>6. NestOK(<<>>, e, e, ms, symbols)
  <2>1. e \in 1..Len(ms) /\ e \notin Named(symbols)
    BY <1>1, <1>2, <1>3
  <2> QED BY <1>2, <2>1, NoNest
<1>7. PublishOK(<<>>, abandoned, ms, symbols)
  <2>1. \A m \in 1..Len(ms) : m \in 1..Len(spaces) \/ ms[m].publish = "public"
    BY <1>1, <1>2, <1>3
  <2>2. PublishOK(<<>>, abandoned, spaces, symbols)
    BY <1>4 DEF ScopeInv
  <2> QED BY <1>2, <1>3, <2>1, <2>2, PublishStays
<1> QED BY <1>3, <1>4, <1>5, <1>6, <1>7 DEF ScopeInv

LEMMA DebugDoneStep ==
  ASSUME ScopeInv, DebugDone
  PROVE  ScopeInv'
<1>1. /\ nesting = <<>> /\ nesting' = <<>> /\ current' = Global /\ top' = Global
      /\ spaces' = spaces /\ symbols' = symbols /\ abandoned' = abandoned
  BY DEF DebugDone
<1>2. Global \in 1..Len(spaces) /\ Global \notin Named(symbols)
  BY InvIs
<1>3. NestOK(<<>>, Global, Global, spaces, symbols)
  BY <1>2, NoNest
<1> QED BY <1>1, <1>3 DEF ScopeInv

LEMMA InitInv ==
  ASSUME ScopeInit
  PROVE  ScopeInv
<1>1. PICK x : x = NewNamespace(0)
  OBVIOUS
<1>2. /\ spaces = <<x>> /\ symbols = <<>> /\ current = Global /\ top = Global
      /\ nesting = <<>> /\ abandoned = {}
  BY <1>1 DEF ScopeInit
<1>3. <<>> \in Seq(EntryType) /\ <<>> \in Seq(SymbolType) /\ Len(<<>>) = 0 /\ \A i \in 1..0 : FALSE
  BY EmptySeq
<1>4. x \in SpaceType /\ x.previous = 0 /\ x.names = <<>> /\ x.publish = "public"
  <2>1. "public" \in Publishes /\ 0 \in Nat
    BY DEF Publishes
  <2> QED BY <1>1, <1>3, <2>1 DEF NewNamespace, SpaceType
<1>5. /\ spaces \in Seq(SpaceType) /\ Len(spaces) = 1 /\ spaces[1] = x
      /\ \A n \in 1..Len(spaces) : n = 1
  BY <1>2, <1>4
<1>6. SymbolsOK(symbols, Len(spaces))
  BY <1>2, <1>3 DEF SymbolsOK
<1>7. SpacesOK(spaces, symbols)
  BY <1>3, <1>4, <1>5 DEF SpacesOK, NamesOK
<1>8. Named(symbols) = {}
  BY <1>2, <1>3 DEF Named
<1>9. NestOK(<<>>, Global, Global, spaces, symbols) /\ Distinct(<<>>)
  <2>1. Global \in 1..Len(spaces) /\ Global \notin Named(symbols)
    BY <1>5, <1>8 DEF Global
  <2> QED BY <2>1, NoNest
<1>10. PublishOK(<<>>, {}, spaces, symbols)
  BY <1>4, <1>5, <1>8, <1>9 DEF PublishOK
<1> QED BY <1>2, <1>6, <1>7, <1>9, <1>10 DEF ScopeInv

\* Every statement and command keeps the invariant.
LEMMA NextInv ==
  ASSUME ScopeInv, ScopeNext
  PROVE  ScopeInv'
<1>1. ASSUME NEW d \in Declarations
      PROVE  d.name \in Names /\ d.publish \in Publishes
  BY <1>1, ScopesConstants DEF Publishes
<1>2. ASSUME NEW d \in Declarations,
             \/ d.kind = "value" /\ Declare(d.name, d.publish)
             \/ d.kind = "namespace" /\ NamespaceStart(d.name, d.publish)
             \/ \E typed \in BOOLEAN : d.kind = "typedef" /\ Typedef(d.name, d.publish, typed)
             \/ \E sameType \in BOOLEAN :
                  /\ d.kind = "function"
                  /\ \/ Prototype(d.name, d.publish, sameType)
                     \/ FunctionStart(d.name, d.publish, sameType)
      PROVE  ScopeInv'
  <2>1. PICK name \in Names, publish \in Publishes : name = d.name /\ publish = d.publish
    BY <1>1
  <2>2. CASE Declare(name, publish)
    BY <2>2, DeclareStep
  <2>3. CASE NamespaceStart(name, publish)
    BY <2>3, NamespaceStartStep
  <2>4. CASE \E typed \in BOOLEAN : Typedef(name, publish, typed)
    BY <2>4, TypedefStep
  <2>5. CASE \E same \in BOOLEAN : Prototype(name, publish, same)
    BY <2>5, PrototypeStep
  <2>6. CASE \E same \in BOOLEAN : FunctionStart(name, publish, same)
    BY <2>6, FunctionStartStep
  <2> QED BY <1>2, <2>1, <2>2, <2>3, <2>4, <2>5, <2>6, Zenon
<1>3. ASSUME NEW name \in Names, ExtendStart(name)  PROVE ScopeInv'
  BY <1>3, ExtendStep
<1>4. ASSUME NEW paths \in Imports, NEW publish \in Publishes, Import(paths, publish)  PROVE ScopeInv'
  BY <1>4, ImportInvStep
<1>5. ASSUME NEW path \in Paths, Undefine(path)  PROVE ScopeInv'
  BY <1>5, UndefineStep
<1>6. ASSUME NEW n \in DOMAIN spaces, DebugSetFrame(n)  PROVE ScopeInv'
  BY <1>6, DebugSetFrameStep
<1>7. ASSUME BlockStart \/ BlockEnd \/ FunctionEnd \/ NamespaceEnd \/ ParseError \/ DebugDone
      PROVE  ScopeInv'
  BY <1>7, BlockStartStep, BlockEndStep, FunctionEndStep, NamespaceEndStep, ParseErrorStep, DebugDoneStep
<1> QED BY <1>2, <1>3, <1>4, <1>5, <1>6, <1>7, Zenon DEF ScopeNext

LEMMA Invariant == ScopeSpec => []ScopeInv
<1>1. ScopeInv /\ UNCHANGED scopeVars => ScopeInv'
  BY DEF ScopeInv, scopeVars
<1> QED BY <1>1, InitInv, NextInv, PTL DEF ScopeSpec

-----------------------------------------------------------------------------
(* The properties *)

LEMMA ClosedIs ==
  ASSUME ScopeInv
  PROVE  Entered = EnteredIn(nesting) /\ Closed = Named(symbols) \ (EnteredIn(nesting) \cup abandoned)
<1>1. /\ nesting \in Seq(LevelType) /\ symbols \in Seq(SymbolType) /\ Len(spaces) \in Nat
      /\ Named(symbols) \subseteq 1..Len(spaces)
  BY InvIs, HereOK
<1>2. Entered = EnteredIn(nesting)
  BY <1>1, NestIs DEF Entered, EnteredIn
<1>3. DOMAIN symbols = 1..Len(symbols) /\ Len(symbols) \in Nat
  BY <1>1, SymbolIs
<1>4. \A s \in DOMAIN symbols : IsNamespace(s) <=> symbols[s].class = "namespace"
  BY <1>3 DEF IsNamespace
<1>5. {symbols[s].namespace : s \in {t \in DOMAIN symbols : IsNamespace(t)}} = Named(symbols)
  <2> DEFINE A == {symbols[s].namespace : s \in {t \in DOMAIN symbols : IsNamespace(t)}}
  <2>1. ASSUME NEW n \in A  PROVE n \in Named(symbols)
    <3>1. PICK s \in DOMAIN symbols : IsNamespace(s) /\ n = symbols[s].namespace
      OBVIOUS
    <3> QED BY <1>3, <1>4, <3>1, StandsFor
  <2>2. ASSUME NEW n \in Named(symbols)  PROVE n \in A
    <3>1. PICK s \in 1..Len(symbols) : symbols[s].class = "namespace" /\ symbols[s].namespace = n
      BY DEF Named
    <3> QED BY <1>3, <1>4, <3>1
  <2> QED BY <2>1, <2>2
<1> QED BY <1>2, <1>5 DEF Closed

\* What the parser is not in, and has not lost in an error, is closed to lookups.
LEMMA ClosedIsPrivate ==
  ASSUME ScopeInv, NEW n \in Closed
  PROVE  n \in 1..Len(spaces) /\ spaces[n].publish = "private"
<1>1. n \in Named(symbols) /\ n \notin EnteredIn(nesting) /\ n \notin abandoned
  BY ClosedIs
<1> QED BY <1>1, InvIs DEF ScopeInv, PublishOK

LEMMA NarrowIs ==
  ASSUME NEW S, NEW q, NEW T, q \in Seq(S), \A i \in 1..Len(q) : q[i] \in T
  PROVE  q \in Seq(T)
<1>1. Len(q) \in Nat /\ q = [i \in 1..Len(q) |-> q[i]]
  BY LenProperties
<1>2. q \in [1..Len(q) -> T]
  BY <1>1
<1> QED BY <1>1, <1>2, SeqDef

LEMMA InvTypes == ScopeInv => ScopesTypeOK
<1> SUFFICES ASSUME ScopeInv  PROVE ScopesTypeOK
  OBVIOUS
<1> DEFINE E == [symbol : DOMAIN symbols, publish : Publishes]
           T == [previous : Nat, publish : Publishes, names : Seq(E)]
<1>1. /\ SymbolsOK(symbols, Len(spaces)) /\ symbols \in Seq(SymbolType) /\ SpacesOK(spaces, symbols)
      /\ spaces \in Seq(SpaceType) /\ DOMAIN spaces = 1..Len(spaces)
      /\ {current, top} \subseteq 1..Len(spaces)
  BY InvIs, HereOK DEF SpacesHere
<1>2. /\ DOMAIN symbols = 1..Len(symbols)
      /\ \A s \in 1..Len(symbols) : symbols[s] \in SymbolType /\ s # 0
  BY <1>1, SymbolIs
<1>3. ASSUME NEW n \in 1..Len(spaces)  PROVE spaces[n] \in T
  <2>1. PICK names : names = spaces[n].names
    OBVIOUS
  <2>2. names \in Seq(EntryType) /\ NamesOK(names, n, symbols) /\ spaces[n] \in SpaceType
    BY <1>1, <2>1, SpaceIs DEF SpacesOK
  <2>3. ASSUME NEW i \in 1..Len(names)  PROVE names[i] \in E
    <3>1. names[i] \in EntryType
      BY <2>2, NamesIs
    <3>2. names[i].symbol \in 1..Len(symbols)
      BY <2>2 DEF NamesOK
    <3> QED BY <1>2, <3>1, <3>2 DEF EntryType
  <2>4. names \in Seq(E)
    <3> HIDE DEF E
    <3> QED BY <2>2, <2>3, NarrowIs
  <2> HIDE DEF E
  <2> QED BY <2>1, <2>2, <2>4 DEF SpaceType
<1>4. spaces \in Seq(T)
  <2> HIDE DEF T
  <2> QED BY <1>1, <1>3, NarrowIs
<1>5. ASSUME NEW s \in DOMAIN symbols
      PROVE  /\ symbols[s].class \in {"value", "typedef", "namespace"}
             /\ symbols[s].namespace \in (IF IsNamespace(s) THEN DOMAIN spaces ELSE {0})
  <2>1. symbols[s] \in SymbolType /\ s # 0 /\ s \in 1..Len(symbols)
    BY <1>2
  <2>2. symbols[s].class \in Classes
    BY <2>1 DEF SymbolType
  <2>3. symbols[s].namespace \in (IF symbols[s].class = "namespace" THEN 1..Len(spaces) ELSE {0})
    BY <1>1, <2>1 DEF SymbolsOK
  <2> QED BY <1>1, <2>1, <2>2, <2>3 DEF Classes, IsNamespace
<1> QED BY <1>1, <1>4, <1>5 DEF ScopesTypeOK

LEMMA InvSound == ScopeInv => ScopesSound
<1> SUFFICES ASSUME ScopeInv  PROVE ScopesSound
  OBVIOUS
<1>1. ScopesTypeOK
  BY InvTypes
<1>2. /\ nesting \in Seq(LevelType) /\ SpacesOK(spaces, symbols) /\ spaces \in Seq(SpaceType)
      /\ DOMAIN spaces = 1..Len(spaces)
  BY InvIs, HereOK DEF SpacesHere
<1>3. current = (IF nesting = <<>> THEN top ELSE Head(nesting).entered)
  <2>1. nesting # <<>> => Head(nesting) = nesting[1]
    BY <1>2
  <2> QED BY <2>1 DEF ScopeInv, NestOK
<1>4. ASSUME NEW n \in DOMAIN spaces
      PROVE  /\ spaces[n].previous < n
             /\ \A i, j \in DOMAIN spaces[n].names :
                  Listed(n, i).name = Listed(n, j).name => i = j
  <2>1. spaces[n].previous < n /\ NamesOK(spaces[n].names, n, symbols) /\ spaces[n].names \in Seq(EntryType)
    BY <1>2, SpaceIs DEF SpacesOK
  <2>2. DOMAIN spaces[n].names = 1..Len(spaces[n].names)
    BY <2>1, NamesIs
  <2> QED BY <2>1, <2>2 DEF NamesOK, Listed
<1>5. ASSUME NEW n \in DOMAIN spaces
      PROVE  /\ n \in Closed => spaces[n].publish = "private"
             /\ spaces[n].publish = "private" => n \in Closed \/ ExtendsAround
  <2>1. n \in Closed => spaces[n].publish = "private"
    BY ClosedIsPrivate
  <2>2. spaces[n].publish = "private" => n \in Closed \/ ExtendsAround
    BY <1>2, ClosedIs DEF ScopeInv, PublishOK
  <2> QED BY <2>1, <2>2
<1> QED BY <1>1, <1>3, <1>4, <1>5 DEF ScopesSound

LEMMA InvHidden == ScopeInv => PrivateHidden
<1> SUFFICES ASSUME ScopeInv  PROVE PrivateHidden
  OBVIOUS
<1>1. /\ SpacesHere /\ current \in 1..Len(spaces) /\ SpacesOK(spaces, symbols)
      /\ spaces \in Seq(SpaceType) /\ DOMAIN spaces = 1..Len(spaces)
  BY InvIs, HereOK DEF SpacesHere
<1>2. \A n \in 1..Len(spaces) : /\ NamesOK(spaces[n].names, n, symbols)
                                /\ DOMAIN spaces[n].names = 1..Len(spaces[n].names)
  BY <1>1, SpaceIs, NamesIs DEF SpacesOK
<1>3. ASSUME NEW n \in DOMAIN spaces, NEW i \in DOMAIN spaces[n].names, Listed(n, i).declared # "public"
      PROVE  n = Listed(n, i).home
  BY <1>1, <1>2, <1>3 DEF NamesOK, Listed
<1>4. ASSUME NEW p \in Paths, NEW s, s = BuildFullname(p), s # 0, symbols[s].declared = "private"
      PROVE  symbols[s].home \notin Closed
  <2>1. Shown(s, p[Len(p)], FALSE)
    BY <1>1, <1>4, MeaningIs
  <2>2. PICK n \in 1..Len(spaces) : \E i \in 1..Len(spaces[n].names) :
          /\ s = spaces[n].names[i].symbol
          /\ spaces[n].publish # "private" \/ spaces[n].names[i].publish # "private"
    BY <1>4, <2>1 DEF Shown
  <2>3. PICK i \in 1..Len(spaces[n].names) :
          /\ s = spaces[n].names[i].symbol
          /\ spaces[n].publish # "private" \/ spaces[n].names[i].publish # "private"
    BY <2>2
  <2>4. symbols[s].home = n /\ spaces[n].names[i].publish = "private"
    BY <1>2, <1>4, <2>3 DEF NamesOK
  <2> QED BY <2>3, <2>4, ClosedIsPrivate
<1> QED BY <1>3, <1>4 DEF PrivateHidden

LEMMA InvAgree == ScopeInv => CommandsAgree
<1>1. ASSUME ScopeInv, nesting = <<>>, top = Global, NEW p \in Paths,
             NEW s, s = BuildFullname(p), s # 0, NEW at, at = NamespaceLocate(p)
      PROVE  at.symbol = s /\ Alone(at.namespace, s)
  <2>1. /\ SpacesHere /\ current \in 1..Len(spaces) /\ SpacesOK(spaces, symbols)
        /\ spaces \in Seq(SpaceType)
    BY <1>1, InvIs, HereOK
  <2>2. current = 1
    BY <1>1 DEF ScopeInv, NestOK, Global
  <2>3. spaces[current].previous = 0
    <3>1. spaces[current].previous \in Nat /\ spaces[current].previous < current
      BY <2>1, SpaceIs DEF SpacesOK
    <3> QED BY <2>2, <3>1
  <2>4. Len(p) \in Nat \ {0}
    BY PathIs
  <2> QED BY <1>1, <2>1, <2>3, <2>4, PathsAgree
<1> SUFFICES ASSUME ScopeInv, nesting = <<>>, top = Global, NEW p \in Paths,
                    BuildFullname(p) # 0
             PROVE  /\ NamespaceLocate(p).symbol = BuildFullname(p)
                    /\ Alone(NamespaceLocate(p).namespace, BuildFullname(p))
  BY Zenon DEF CommandsAgree, Alone
<1> QED BY <1>1

\* The lists of names, the parser's stack of namespaces and which of them are open to
\* lookups stay sound through any program: declarations, blocks, functions and namespaces
\* in any order, imports, syntax errors anywhere, commands and the debugger in between
\* (scope.c and the actions of gram.y).
THEOREM ScopesStaySound == ScopeSpec => []ScopesSound
<1> QED BY Invariant, InvSound, PTL

\* A name that is not public is never listed anywhere but where it was declared, and
\* no path leads the compiler to a private name of a namespace that is closed.
THEOREM PrivateStaysHidden == ScopeSpec => []PrivateHidden
<1> QED BY Invariant, InvHidden, PTL

\* Whenever commands may run outside of the debugger, what the compiler takes a path for is
\* what NamespaceLocate finds for the commands (command.5c's undefine, edit and print), and
\* it is the one entry of its name in the namespace that NamespaceLocate tells.
THEOREM CommandsAlwaysAgree == ScopeSpec => []CommandsAgree
<1> QED BY Invariant, InvAgree, PTL

=============================================================================
