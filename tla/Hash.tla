-------------------------------- MODULE Hash --------------------------------
(***************************************************************************)
(* The hash tables of nickle (hash.c): open addressing with double         *)
(* hashing, deleted entries that stay in the chains, and tables that grow  *)
(* through the rows of hashSets. A reference to an element (HashRef) is a  *)
(* pointer into the box of the entries; assignment goes through one.       *)
(***************************************************************************)
EXTENDS Integers, Sequences, FiniteSets

CONSTANTS
  Keys,
  HashOf,       \* ValueHash of each key
  Values,
  Void, None,   \* the void value, and the null pointer
  HashSets,     \* the first rows of hashSets
  ReadsGrow,    \* whether a missing key is read from a full table
  Interleaved   \* whether the table is used between HashRef and the assignment

ASSUME HashConstants ==
  /\ HashOf \in [Keys -> Nat]
  /\ HashSets \in Seq([entries : Nat \ {0}, size : Nat \ {0}, rehash : Nat \ {0}]) \ {<<>>}
  /\ None \notin Keys \cup Values \cup {Void} \cup [key : Keys, elt : Nat, live : BOOLEAN]
  /\ ReadsGrow \in BOOLEAN /\ Interleaved \in BOOLEAN

\* The rows of hash.c: sizes are prime and have room for more than the entries, and
\* each row takes more entries than the one before.
ASSUME HashRows ==
  \A i \in DOMAIN HashSets :
    LET s == HashSets[i] IN
    /\ s.entries < s.size /\ s.rehash <= s.size
    /\ \A a, b \in 1 .. s.size - 1 : (a * b) % s.size # 0
    /\ i + 1 \in DOMAIN HashSets => s.entries < HashSets[i + 1].entries

\* There are not more keys than the last row takes entries: 2^31, too many for the
\* values of a box, which an int counts.
ASSUME HashKeysFit == IsFiniteSet(Keys) /\ Cardinality(Keys) <= HashSets[Len(HashSets)].entries

VARIABLES
  row,      \* ht->hashSet
  elts,     \* ht->elts
  count,    \* ht->count
  def,      \* ht->def
  ref,      \* a reference [key, elt, live] that the program holds, or None
  result    \* what the last operation returned, as a set; {} if it raised

vars == <<row, elts, count, def, ref, result>>

Slot(k, v) == [key |-> k, value |-> v]

Empty == Slot(None, None)

Slots(r) == 0..(HashSets[r].size - 1)

Valid(e, i) == e[i].key # None

Deleted(e, i) == e[i].key = None /\ e[i].value # None

ValidSlots(e) == {i \in DOMAIN e : Valid(e, i)}

First(S) == CHOOSE i \in S : \A j \in S : i <= j

\* The slots that a search for k visits in the row r, in their order.
Chain ==
  [r \in DOMAIN HashSets |-> [k \in Keys |->
     LET step == HashOf[k] % HashSets[r].rehash
     IN  [i \in Slots(r) |->
            (HashOf[k] + i * (IF step = 0 THEN 1 ELSE step)) % HashSets[r].size]]]

\* Mutant: the search ends at the first deleted entry.
Find_AtDeleted(e, r, k) ==
  LET chain == Chain[r][k]
  IN  chain[First({i \in Slots(r) : e[chain[i]].key \in {k, None}})]

\* Find: the entry of k, or else the first deleted or empty one of its chain.
Find(e, r, k) ==
  LET chain == Chain[r][k]
      ends  == {i \in Slots(r) : e[chain[i]].key = k \/ e[chain[i]] = Empty}
      end   == First(ends)
      dels  == {i \in Slots(r) : Deleted(e, chain[i]) /\ (ends = {} \/ i < end)}
  IN  IF dels = {} \/ (ends # {} /\ e[chain[end]].key = k) THEN chain[end]
      ELSE chain[First(dels)]

\* Rehash: the entries of e move to an empty table, in the order of their slots.
Rehash(e, r) ==
  LET n == Cardinality(DOMAIN e)
      Moved[m \in 0..n] ==
        IF m = 0 THEN [i \in Slots(r) |-> Empty]
        ELSE LET new == Moved[m - 1]
             IN  IF Valid(e, m - 1) THEN [new EXCEPT ![Find(new, r, e[m - 1].key)] = e[m - 1]]
                 ELSE new
  IN  Moved[n]

Full(n) == n >= HashSets[row].entries /\ row < Len(HashSets)

\* The table an insertion works on, after the Resize it starts with.
Grown(full) ==
  IF full
  THEN [row |-> row + 1, elts |-> Rehash(elts, row + 1),
        count |-> Cardinality(ValidSlots(elts))]
  ELSE [row |-> row, elts |-> elts, count |-> count]

Becomes(t) == row' = t.row /\ elts' = t.elts /\ count' = t.count

\* References into the box of the entries, once it has been replaced.
Outdated(full) == IF full /\ ref # None THEN [ref EXCEPT !.live = FALSE] ELSE ref

Added(t, i) == IF Valid(t.elts, i) THEN t.count ELSE t.count + 1

-----------------------------------------------------------------------------
Idle == ref = None \/ Interleaved

\* HashGet: the entry it fills in is one of the table before Resize.
HashGet(k) ==
  /\ Idle
  /\ LET i == Find(elts, row, k) IN
     \/ /\ Valid(elts, i)
        /\ result' = {elts[i].value} \ {None}
        /\ UNCHANGED <<row, elts, count, ref>>
     \/ /\ ~Valid(elts, i) /\ def = None
        /\ result' = {}
        /\ UNCHANGED <<row, elts, count, ref>>
     \/ /\ ~Valid(elts, i) /\ def # None
        /\ ReadsGrow \/ ~Full(count)
        /\ Becomes(LET t == Grown(Full(count)) IN
             IF Full(count) THEN [t EXCEPT !.count = @ + 1]
             ELSE [t EXCEPT !.count = @ + 1, !.elts[i] = Slot(k, def)])
        /\ ref' = Outdated(Full(count))
        /\ result' = {def}
  /\ UNCHANGED def

HashSet(k, v) ==
  /\ Idle
  /\ LET t == Grown(Full(count))
         i == Find(t.elts, t.row, k)
     IN  Becomes([t EXCEPT !.elts[i] = Slot(k, v), !.count = Added(t, i)])
  /\ ref' = Outdated(Full(count))
  /\ result' = {}
  /\ UNCHANGED def

HashSetDef(v) ==
  /\ Idle
  /\ def' = v
  /\ result' = {}
  /\ UNCHANGED <<row, elts, count, ref>>

\* HashRef: a new entry keeps the value of the slot if there is no default.
HashRef(k) ==
  /\ ref = None
  /\ LET full == Full(count) /\ count = HashSets[row].entries
         t == Grown(full)
         i == Find(t.elts, t.row, k)
         v == IF Valid(t.elts, i) \/ def = None THEN t.elts[i].value ELSE def
     IN  /\ Becomes([t EXCEPT !.elts[i] = Slot(k, v), !.count = Added(t, i)])
         /\ ref' = [key |-> k, elt |-> i, live |-> TRUE]
  /\ result' = {}
  /\ UNCHANGED def

\* RefValueSet through the reference.
Assign(v) ==
  /\ ref # None
  /\ elts' = IF ref.live THEN [elts EXCEPT ![ref.elt].value = v] ELSE elts
  /\ ref' = None
  /\ result' = {}
  /\ UNCHANGED <<row, count, def>>

HashTest(k) ==
  /\ Idle
  /\ result' = IF Valid(elts, Find(elts, row, k)) THEN {k} ELSE {}
  /\ UNCHANGED <<row, elts, count, def, ref>>

\* Mutant: the slot becomes empty.
HashDelete_Empties(k) ==
  /\ Idle
  /\ LET i == Find(elts, row, k) IN
       IF Valid(elts, i)
       THEN elts' = [elts EXCEPT ![i] = Empty] /\ count' = count - 1
       ELSE UNCHANGED <<elts, count>>
  /\ result' = {}
  /\ UNCHANGED <<row, def, ref>>

HashDelete(k) ==
  /\ Idle
  /\ LET i == Find(elts, row, k) IN
       IF Valid(elts, i)
       THEN elts' = [elts EXCEPT ![i] = Slot(None, Void)] /\ count' = count - 1
       ELSE UNCHANGED <<elts, count>>
  /\ result' = {}
  /\ UNCHANGED <<row, def, ref>>

HashKeys ==
  /\ Idle
  /\ result' = {elts[i].key : i \in ValidSlots(elts)}
  /\ UNCHANGED <<row, elts, count, def, ref>>

\* The program goes on with a copy.
HashCopy ==
  /\ ref = None
  /\ elts' = Rehash(elts, row)
  /\ count' = Cardinality(ValidSlots(elts))
  /\ UNCHANGED <<row, def, ref, result>>

\* NewHash
Init ==
  /\ row = 1 /\ elts = [i \in Slots(1) |-> Empty] /\ count = 0
  /\ def = None /\ ref = None /\ result = {}

Next ==
  \/ \E k \in Keys : HashGet(k) \/ HashRef(k) \/ HashTest(k) \/ HashDelete(k)
  \/ \E v \in Values : HashSetDef(v) \/ Assign(v) \/ \E k \in Keys : HashSet(k, v)
  \/ HashKeys \/ HashCopy

Spec == Init /\ [][Next]_vars

-----------------------------------------------------------------------------
(* Properties *)

\* The count never passes the entries of the row, fewer than its slots, so that
\* the search for a missing key ends: its chain has a slot that is not in use.
HashTypeOK ==
  /\ row \in DOMAIN HashSets
  /\ elts \in [Slots(row) -> [key : Keys \cup {None}, value : Values \cup {Void, None}]]
  /\ count \in 0..HashSets[row].entries
  /\ def \in Values \cup {None} /\ (ref # None => ref.key \in Keys)
  /\ Cardinality(ValidSlots(elts)) < HashSets[row].size

\* Every entry is found under its key, through the deleted entries of its chain
\* and after every Rehash; so no key has two.
\* HashEqual takes tables of different count to differ: count is exact.
EntriesFound ==
  /\ \A i \in ValidSlots(elts) : Find(elts, row, elts[i].key) = i
  /\ count = Cardinality(ValidSlots(elts))

\* The table is never too full to be searched, and is searched and counted right.
HashSound == HashTypeOK /\ EntriesFound

\* The table as a mapping.
Mapping ==
  LET valid == ValidSlots(elts)
  IN  [k \in {elts[i].key : i \in valid} |->
         elts[CHOOSE i \in valid : elts[i].key = k].value]

Promise == INSTANCE Map
  WITH map <- Mapping, default <- def,
       pointer <- IF ref = None THEN None ELSE ref.key

\* "Hashes provide an associative mapping from arbitrary keys to values"
\* (tutorial): every operation does to the table what it does to a mapping,
\* whatever has been deleted before and wherever the table grows.
ImplementsMap == Promise!Spec

\* "the default value -- used to instantiate newly created elements" (tutorial):
\* an element that has been read is in the table.
GetInstantiates ==
  [][\A k \in Keys : HashGet(k) /\ def # None => k \in DOMAIN Mapping']_vars

=============================================================================
