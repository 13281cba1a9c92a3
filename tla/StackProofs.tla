---------------------------- MODULE StackProofs ----------------------------
(***************************************************************************)
(* Proofs about Stack: its types, that every stack pointer ENTER has saved *)
(* stays a place in the chain of chunks, and that the chunks are the stack *)
(* that Lifo describes, for chunks of any size.                            *)
(***************************************************************************)
EXTENDS Stack, SequenceTheorems, TLAPS

ElementsType == [Chunks -> [Offsets -> StackValues]]
MarksType == Seq(Chunks \X (0..EntriesPerChunk))

\* A list of chunks, each of them once.
ChainOK(base) ==
  /\ base \in Seq(Chunks) /\ base # <<>>
  /\ \A p, q \in 1..Len(base) : base[p] = base[q] => p = q

SaveOK(base, saved) ==
  /\ saved \in Chunks \cup {NoChunk}
  /\ \A p \in 1..Len(base) : base[p] # saved

\* MarksStay of any chain, top and marks.
Placed(base, off, ms) ==
  /\ \A m \in 1..Len(ms) : \E p \in 1..Len(base) :
       base[p] = ms[m][1] /\ (p = Len(base) => off <= ms[m][2])
  /\ \A m, n \in 1..Len(ms) : \A p, q \in 1..Len(base) :
       m < n /\ base[p] = ms[m][1] /\ base[q] = ms[n][1]
         => p < q \/ (p = q /\ ms[n][2] <= ms[m][2])

LEMMA SoundIs ==
  StackSound <=> /\ ChainOK(chain) /\ SaveOK(chain, save) /\ elements \in ElementsType
                 /\ top \in 0..EntriesPerChunk /\ marks \in MarksType
                 /\ Placed(chain, top, marks)
BY DEF StackSound, StackTypeOK, MarksStay, ChainOK, SaveOK, ElementsType, MarksType, Placed

-----------------------------------------------------------------------------
(* Chunks and heights *)

\* The first chunks of a chain are a chain.
LEMMA SubChain ==
  ASSUME NEW base, ChainOK(base), NEW keep \in 1..Len(base)
  PROVE  /\ ChainOK(SubSeq(base, 1, keep)) /\ Len(SubSeq(base, 1, keep)) = keep
         /\ \A p \in 1..keep : SubSeq(base, 1, keep)[p] = base[p]
         /\ Len(base) \in Nat \ {0}
<1>1. /\ base \in Seq(Chunks) /\ Len(base) \in Nat
      /\ \A p \in 1..Len(base) : base[p] \in Chunks
  BY LenProperties, ElementOfSeq DEF ChainOK
<1>2. \A p \in 1..keep : base[p] \in Chunks
  BY <1>1
<1>3. /\ SubSeq(base, 1, keep) \in Seq(Chunks)
      /\ Len(SubSeq(base, 1, keep)) = IF 1 <= keep THEN keep - 1 + 1 ELSE 0
      /\ \A i \in 1..(keep - 1 + 1) : SubSeq(base, 1, keep)[i] = base[1 + i - 1]
  BY <1>1, <1>2, SubSeqProperties
<1>4. Len(SubSeq(base, 1, keep)) = keep /\ \A p \in 1..keep : SubSeq(base, 1, keep)[p] = base[p]
  BY <1>1, <1>3
<1>5. SubSeq(base, 1, keep) # <<>>
  BY <1>1, <1>4
<1> QED BY <1>1, <1>3, <1>4, <1>5 DEF ChainOK

LEMMA HeldType ==
  ASSUME elements \in ElementsType, NEW base
  PROVE  Held(base) \in ElementsType
<1>1. (CHOOSE v \in StackValues : TRUE) \in StackValues
  BY StackConstants
<1>2. Junk \in [Offsets -> StackValues]
  BY <1>1 DEF Junk
<1> QED BY <1>2 DEF Held, ElementsType

\* A lower chunk ends below the start of a higher one: a height that is not above another one is
\* in the same chunk, not above it in there, or in a lower one.
LEMMA Lower ==
  ASSUME NEW p \in Nat, NEW q \in Nat,
         NEW m \in 0..EntriesPerChunk, NEW n \in 1..EntriesPerChunk,
         HeightAt(p, m) <= HeightAt(q, n)
  PROVE  p <= q /\ (p = q => n <= m)
<1> DEFINE E == EntriesPerChunk
<1>1. E \in Nat
  BY StackConstants
<1>2. (p - 1) * E + (E - m) <= (q - 1) * E + (E - n)
  BY DEF HeightAt
<1>3. ASSUME q < p  PROVE FALSE
  <2>1. (q - 1) * E + E <= (p - 1) * E
    BY <1>1, <1>3, SMT
  <2> QED BY <1>1, <1>2, <2>1
<1> QED BY <1>1, <1>2, <1>3

-----------------------------------------------------------------------------
(* Marks *)

\* The innermost mark is a place, and its height is a number.
LEMMA MarkPlace ==
  ASSUME StackSound, marks # <<>>
  PROVE  /\ Len(marks) \in Nat \ {0} /\ Mark \in Chunks \X (0..EntriesPerChunk)
         /\ PositionOf(Mark[1]) \in 1..Len(chain) /\ chain[PositionOf(Mark[1])] = Mark[1]
         /\ PositionOf(Mark[1]) = Len(chain) => top <= Mark[2]
<1>1. Len(marks) \in Nat \ {0} /\ Mark \in Chunks \X (0..EntriesPerChunk)
  BY SoundIs, LenProperties, ElementOfSeq, EmptySeq DEF MarksType, Mark
<1>2. PICK p \in 1..Len(chain) : chain[p] = Mark[1] /\ (p = Len(chain) => top <= Mark[2])
  BY <1>1, SoundIs DEF Placed, Mark
<1>3. PositionOf(Mark[1]) = p
  BY <1>2, SoundIs DEF PositionOf, ChainOK
<1> QED BY <1>1, <1>2, <1>3

\* The marks outside of one that is left.
LEMMA Outer ==
  ASSUME marks \in MarksType, marks # <<>>
  PROVE  /\ Unmarked \in MarksType /\ Len(Unmarked) = Len(marks) - 1
         /\ \A m \in 1..Len(Unmarked) : Unmarked[m] = marks[m] /\ m \in 1..Len(marks) /\ m < Len(marks)
<1> DEFINE S == Chunks \X (0..EntriesPerChunk)
<1>1. Len(marks) \in Nat \ {0} /\ \A m \in 1..Len(marks) : marks[m] \in S
  BY LenProperties, ElementOfSeq, EmptySeq DEF MarksType
<1>2. \A m \in 1..(Len(marks) - 1) : marks[m] \in S
  BY <1>1
<1>3. /\ SubSeq(marks, 1, Len(marks) - 1) \in Seq(S)
      /\ Len(SubSeq(marks, 1, Len(marks) - 1)) = IF 1 <= Len(marks) - 1 THEN Len(marks) - 1 - 1 + 1 ELSE 0
      /\ \A i \in 1..(Len(marks) - 1 - 1 + 1) : SubSeq(marks, 1, Len(marks) - 1)[i] = marks[1 + i - 1]
  <2> HIDE DEF S
  <2> QED BY <1>1, <1>2, SubSeqProperties
<1>4. Unmarked \in MarksType /\ Len(Unmarked) = Len(marks) - 1
  <2>1. Len(Unmarked) = IF 1 <= Len(marks) - 1 THEN Len(marks) - 1 - 1 + 1 ELSE 0
    BY <1>3 DEF Unmarked
  <2>2. Len(marks) \in Nat \ {0}
    BY <1>1
  <2>3. \A n \in Nat \ {0} : (IF 1 <= n - 1 THEN n - 1 - 1 + 1 ELSE 0) = n - 1
    OBVIOUS
  <2>4. Len(Unmarked) = Len(marks) - 1
    BY <2>1, <2>2, <2>3, Zenon
  <2> QED BY <1>3, <2>4 DEF Unmarked, MarksType
<1>5. \A m \in 1..Len(Unmarked) : m \in 1..(Len(marks) - 1 - 1 + 1) /\ m \in 1..Len(marks) /\ m < Len(marks)
                                 /\ 1 + m - 1 = m
  <2>1. Len(marks) \in Nat \ {0} /\ Len(Unmarked) = Len(marks) - 1
    BY <1>1, <1>4
  <2> QED BY ONLY <2>1
<1>6. \A m \in 1..Len(Unmarked) : Unmarked[m] = marks[m]
  BY <1>3, <1>5 DEF Unmarked
<1> QED BY <1>4, <1>5, <1>6

\* What is marked stays in its place when the stack gets lower, but not lower than the innermost
\* mark.
LEMMA LowerPlaced ==
  ASSUME StackSound, NEW keep \in 1..Len(chain), NEW low \in 1..EntriesPerChunk,
         marks # <<>> => HeightAt(PositionOf(Mark[1]), Mark[2]) <= HeightAt(keep, low)
  PROVE  Placed(SubSeq(chain, 1, keep), low, marks)
<1>1. /\ ChainOK(chain) /\ marks \in MarksType /\ Placed(chain, top, marks)
      /\ Len(chain) \in Nat \ {0}
      /\ Len(SubSeq(chain, 1, keep)) = keep /\ \A p \in 1..keep : SubSeq(chain, 1, keep)[p] = chain[p]
  BY SoundIs, SubChain
<1>2. /\ Len(marks) \in Nat
      /\ \A m \in 1..Len(marks) : marks[m] \in Chunks \X (0..EntriesPerChunk)
  BY <1>1, LenProperties, ElementOfSeq DEF MarksType
<1>3. ASSUME NEW m \in 1..Len(marks)
      PROVE  \E p \in 1..keep : chain[p] = marks[m][1] /\ (p = keep => low <= marks[m][2])
  <2> DEFINE last == PositionOf(Mark[1])
  <2>1. /\ last \in 1..Len(chain) /\ chain[last] = Mark[1] /\ Mark \in Chunks \X (0..EntriesPerChunk)
        /\ Len(marks) \in 1..Len(marks)
    BY <1>2, MarkPlace
  <2>2. last <= keep /\ (last = keep => low <= Mark[2])
    <3>1. last \in Nat /\ keep \in Nat /\ Mark[2] \in 0..EntriesPerChunk /\ marks # <<>>
      BY <1>1, <1>2, <2>1
    <3> HIDE DEF last
    <3> QED BY <3>1, Lower DEF last
  <2>3. PICK p \in 1..Len(chain) : chain[p] = marks[m][1]
    BY <1>1 DEF Placed
  <2>4. m < Len(marks) => p < last \/ (p = last /\ Mark[2] <= marks[m][2])
    BY <1>1, <2>1, <2>3 DEF Placed, Mark
  <2>5. m = Len(marks) => p = last
    BY <1>1, <2>1, <2>3 DEF ChainOK, Mark
  <2>6. p \in 1..keep
    BY <1>1, <1>2, <2>1, <2>2, <2>4, <2>5
  <2>7. p = keep => low <= marks[m][2]
    <3>1. marks[m][2] \in Int /\ Mark[2] \in Int /\ low \in Int
      BY <1>2, <2>1
    <3> HIDE DEF last
    <3>2. CASE m < Len(marks)
      BY <1>1, <2>1, <2>2, <2>4, <3>1, <3>2
    <3>3. CASE m = Len(marks)
      BY <2>2, <2>5, <3>3 DEF Mark
    <3> QED BY <1>2, <3>2, <3>3
  <2> QED BY <2>3, <2>6, <2>7
<1>4. \A m, n \in 1..Len(marks) : \A p, q \in 1..keep :
        m < n /\ chain[p] = marks[m][1] /\ chain[q] = marks[n][1]
          => p < q \/ (p = q /\ marks[n][2] <= marks[m][2])
  BY <1>1 DEF Placed
<1> QED BY <1>1, <1>3, <1>4 DEF Placed

\* The walk of StackReset ends at the innermost mark, and what is left is a place for the others.
LEMMA ResetPlaced ==
  ASSUME StackSound, marks # <<>>, NEW keep \in Stops(Mark)
  PROVE  /\ keep \in 1..Len(chain) /\ Mark[2] \in 0..EntriesPerChunk
         /\ Placed(SubSeq(chain, 1, keep), Mark[2], Unmarked)
<1>1. /\ ChainOK(chain) /\ marks \in MarksType /\ Placed(chain, top, marks) /\ keep \in 1..Len(chain)
      /\ Len(SubSeq(chain, 1, keep)) = keep /\ \A p \in 1..keep : SubSeq(chain, 1, keep)[p] = chain[p]
      /\ Len(chain) \in Nat \ {0} /\ chain[keep] = Mark[1]
  BY SoundIs, SubChain DEF Stops
<1>2. /\ Len(marks) \in Nat \ {0} /\ Len(marks) \in 1..Len(marks) /\ Mark = marks[Len(marks)]
      /\ Mark \in Chunks \X (0..EntriesPerChunk)
  BY MarkPlace DEF Mark
<1>3. /\ Unmarked \in MarksType
      /\ \A m \in 1..Len(Unmarked) : Unmarked[m] = marks[m] /\ m \in 1..Len(marks) /\ m < Len(marks)
  BY <1>1, Outer
<1>4. ASSUME NEW m \in 1..Len(Unmarked)
      PROVE  \E p \in 1..keep : chain[p] = Unmarked[m][1] /\ (p = keep => Mark[2] <= Unmarked[m][2])
  <2>1. PICK p \in 1..Len(chain) : chain[p] = marks[m][1]
    BY <1>1, <1>3 DEF Placed
  <2>2. p < keep \/ (p = keep /\ Mark[2] <= marks[m][2])
    <3>1. \A i, j \in 1..Len(marks) : \A r, q \in 1..Len(chain) :
            i < j /\ chain[r] = marks[i][1] /\ chain[q] = marks[j][1]
              => r < q \/ (r = q /\ marks[j][2] <= marks[i][2])
      BY <1>1 DEF Placed
    <3>2. m \in 1..Len(marks) /\ m < Len(marks)
      BY <1>3
    <3> QED BY <1>1, <1>2, <2>1, <3>1, <3>2
  <2> QED BY <1>1, <1>3, <2>1, <2>2
<1>5. \A m, n \in 1..Len(Unmarked) : \A p, q \in 1..keep :
        m < n /\ chain[p] = Unmarked[m][1] /\ chain[q] = Unmarked[n][1]
          => p < q \/ (p = q /\ Unmarked[n][2] <= Unmarked[m][2])
  <2>1. \A i, j \in 1..Len(marks) : \A r, q \in 1..Len(chain) :
          i < j /\ chain[r] = marks[i][1] /\ chain[q] = marks[j][1]
            => r < q \/ (r = q /\ marks[j][2] <= marks[i][2])
    BY <1>1 DEF Placed
  <2>2. \A p \in 1..keep : p \in 1..Len(chain)
    BY <1>1
  <2>3. \A m \in 1..Len(Unmarked) : Unmarked[m] = marks[m] /\ m \in 1..Len(marks)
    BY <1>3
  <2> QED BY <2>1, <2>2, <2>3
<1> QED BY <1>1, <1>2, <1>4, <1>5 DEF Placed

-----------------------------------------------------------------------------
(* What the operations have in common *)

\* The chunks that are left are out of use, but for one that is kept back.
LEMMA CutSave ==
  ASSUME StackSound, NEW keep \in 1..Len(chain)
  PROVE  SaveOK(SubSeq(chain, 1, keep), IF keep < Len(chain) /\ save = NoChunk THEN Current ELSE save)
<1>1. /\ ChainOK(chain) /\ SaveOK(chain, save) /\ Len(chain) \in Nat \ {0} /\ Current = chain[Len(chain)]
      /\ Len(SubSeq(chain, 1, keep)) = keep /\ \A p \in 1..keep : SubSeq(chain, 1, keep)[p] = chain[p]
  BY SoundIs, SubChain DEF Current
<1>2. Current \in Chunks /\ Len(chain) \in 1..Len(chain)
  BY <1>1, ElementOfSeq DEF ChainOK
<1>3. keep < Len(chain) => \A p \in 1..keep : chain[p] # Current
  BY <1>1, <1>2 DEF ChainOK
<1> QED BY <1>1, <1>2, <1>3 DEF SaveOK

LEMMA CutSound ==
  ASSUME StackSound, NEW keep \in 1..Len(chain), Cut(keep),
         top' \in 0..EntriesPerChunk, marks' \in MarksType,
         Placed(SubSeq(chain, 1, keep), top', marks')
  PROVE  StackSound'
<1>1. ChainOK(chain) /\ elements \in ElementsType
  BY SoundIs
<1>2. ChainOK(chain') /\ elements' \in ElementsType /\ SaveOK(chain', save')
  BY <1>1, SubChain, HeldType, CutSave DEF Cut
<1>3. Placed(chain', top', marks')
  BY DEF Cut
<1>4. StackSound' <=> /\ ChainOK(chain') /\ SaveOK(chain', save') /\ elements' \in ElementsType
                      /\ top' \in 0..EntriesPerChunk /\ marks' \in MarksType
                      /\ Placed(chain', top', marks')
  BY DEF StackSound, StackTypeOK, MarksStay, ChainOK, SaveOK, ElementsType, MarksType, Placed
<1> QED BY <1>2, <1>3, <1>4

\* A push on a stack that is sound, whatever it was before a reset.
LEMMA PushSound ==
  ASSUME elements \in ElementsType, NEW base, ChainOK(base), NEW off \in 0..EntriesPerChunk,
         NEW saved, SaveOK(base, saved), NEW v \in StackValues,
         marks' \in MarksType, Placed(base, off, marks'), StackPush(base, off, saved, v)
  PROVE  StackSound'
<1>1. Len(base) \in Nat \ {0} /\ EntriesPerChunk \in Nat \ {0}
  BY EmptySeq, StackConstants DEF ChainOK
<1>2. Held(base) \in ElementsType
  BY HeldType
<1>3. /\ Len(marks') \in Nat
      /\ \A m \in 1..Len(marks') : marks'[m] \in Chunks \X (0..EntriesPerChunk)
  BY LenProperties, ElementOfSeq DEF MarksType
<1>4. StackSound' <=> /\ ChainOK(chain') /\ SaveOK(chain', save') /\ elements' \in ElementsType
                      /\ top' \in 0..EntriesPerChunk /\ marks' \in MarksType
                      /\ Placed(chain', top', marks')
  BY DEF StackSound, StackTypeOK, MarksStay, ChainOK, SaveOK, ElementsType, MarksType, Placed
<1>5. CASE off > 0
  <2>1. /\ chain' = base /\ save' = saved /\ top' = off - 1
        /\ elements' = [Held(base) EXCEPT ![base[Len(base)]][off - 1] = v]
    BY <1>5 DEF StackPush
  <2>2. top' \in Offsets /\ top' \in 0..EntriesPerChunk
    BY <1>1, <1>5, <2>1 DEF Offsets
  <2>3. elements' \in ElementsType
    BY <1>2, <2>1, <2>2 DEF ElementsType
  <2>4. Placed(base, off - 1, marks')
    <3>1. \A m \in 1..Len(marks') : off <= marks'[m][2] => off - 1 <= marks'[m][2]
      BY <1>3
    <3> QED BY <3>1 DEF Placed
  <2> QED BY <1>4, <2>1, <2>2, <2>3, <2>4
<1>6. CASE ~ (off > 0)
  <2>1. PICK c \in IF saved # NoChunk THEN {saved} ELSE Chunks \ {base[p] : p \in 1..Len(base)} :
          /\ chain' = Append(base, c) /\ save' = NoChunk
          /\ top' = EntriesPerChunk - 1
          /\ elements' = [Held(base) EXCEPT ![c][EntriesPerChunk - 1] = v]
    BY <1>6 DEF StackPush
  <2>2. c \in Chunks /\ \A p \in 1..Len(base) : base[p] # c
    BY <2>1 DEF SaveOK
  <2>3. /\ chain' \in Seq(Chunks) /\ Len(chain') = Len(base) + 1 /\ chain'[Len(base) + 1] = c
        /\ \A p \in 1..Len(base) : chain'[p] = base[p]
    BY <2>1, <2>2 DEF ChainOK
  <2>4. ChainOK(chain')
    <3>1. \A p, q \in 1..Len(chain') : chain'[p] = chain'[q] => p = q
      BY <1>1, <2>2, <2>3 DEF ChainOK
    <3>2. chain' # <<>>
      BY <1>1, <2>3, EmptySeq
    <3> QED BY <2>3, <3>1, <3>2 DEF ChainOK
  <2>5. SaveOK(chain', save')
    <3>1. \A p \in 1..Len(chain') : chain'[p] \in Chunks
      BY <2>3, ElementOfSeq
    <3> QED BY <2>1, <3>1, StackConstants DEF SaveOK
  <2>6. top' \in Offsets /\ top' \in 0..EntriesPerChunk
    BY <1>1, <2>1 DEF Offsets
  <2>7. elements' \in ElementsType
    BY <1>2, <2>1, <2>2, <2>6 DEF ElementsType
  <2>8. Placed(chain', top', marks')
    <3>1. ASSUME NEW m \in 1..Len(marks')
          PROVE  \E p \in 1..Len(chain') : chain'[p] = marks'[m][1] /\ (p = Len(chain') => top' <= marks'[m][2])
      <4>1. PICK p \in 1..Len(base) : base[p] = marks'[m][1]
        BY DEF Placed
      <4>2. p \in 1..Len(chain') /\ p # Len(chain') /\ chain'[p] = marks'[m][1]
        BY <1>1, <2>3, <4>1
      <4> QED BY <4>2
    <3>2. ASSUME NEW m \in 1..Len(marks'), NEW p \in 1..Len(chain'), chain'[p] = marks'[m][1]
          PROVE  p \in 1..Len(base)
      <4>1. PICK r \in 1..Len(base) : base[r] = marks'[m][1]
        BY DEF Placed
      <4> QED BY <1>1, <2>2, <2>3, <3>2, <4>1
    <3>3. \A m, n \in 1..Len(marks') : \A p, q \in 1..Len(chain') :
            m < n /\ chain'[p] = marks'[m][1] /\ chain'[q] = marks'[n][1]
              => p < q \/ (p = q /\ marks'[n][2] <= marks'[m][2])
      <4>1. SUFFICES ASSUME NEW m \in 1..Len(marks'), NEW n \in 1..Len(marks'),
                            NEW p \in 1..Len(chain'), NEW q \in 1..Len(chain'),
                            m < n, chain'[p] = marks'[m][1], chain'[q] = marks'[n][1]
                     PROVE  p < q \/ (p = q /\ marks'[n][2] <= marks'[m][2])
        OBVIOUS
      <4>2. p \in 1..Len(base) /\ q \in 1..Len(base)
        BY <3>2, <4>1
      <4>3. base[p] = marks'[m][1] /\ base[q] = marks'[n][1]
        BY <2>3, <4>1, <4>2
      <4> QED BY <4>1, <4>2, <4>3 DEF Placed
    <3> QED BY <3>1, <3>3 DEF Placed
  <2> QED BY <1>4, <2>4, <2>5, <2>6, <2>7, <2>8
<1> QED BY <1>5, <1>6

-----------------------------------------------------------------------------
(* Operations that make the stack lower *)

LEMMA HeightNat ==
  ASSUME NEW p \in Nat \ {0}, NEW off \in 0..EntriesPerChunk
  PROVE  HeightAt(p, off) \in Nat
<1>1. EntriesPerChunk \in Nat /\ p - 1 \in Nat
  BY StackConstants
<1>2. (p - 1) * EntriesPerChunk \in Nat
  BY <1>1, SMT
<1> QED BY <1>1, <1>2 DEF HeightAt

LEMMA AboveMark ==
  ASSUME StackSound
  PROVE  /\ Height \in Nat /\ Above \in Int /\ Above <= Height
         /\ marks # <<>> => HeightAt(PositionOf(Mark[1]), Mark[2]) = Height - Above
<1>1. Len(chain) \in Nat \ {0} /\ top \in 0..EntriesPerChunk
  BY SoundIs, EmptySeq DEF ChainOK
<1>2. Height \in Nat
  BY <1>1, HeightNat DEF Height
<1>3. CASE marks = <<>>
  BY <1>2, <1>3 DEF Above
<1>4. CASE marks # <<>>
  <2>1. PositionOf(Mark[1]) \in Nat \ {0} /\ Mark[2] \in 0..EntriesPerChunk
    BY <1>1, <1>4, MarkPlace
  <2>2. HeightAt(PositionOf(Mark[1]), Mark[2]) \in Nat
    BY <2>1, HeightNat
  <2>3. Above = Height - HeightAt(PositionOf(Mark[1]), Mark[2])
    BY <1>4 DEF Above
  <2> HIDE DEF Above
  <2> QED BY <1>2, <2>2, <2>3
<1> QED BY <1>3, <1>4

\* The top is left at a position that is not lower than what may be taken off.
LEMMA LowerSound ==
  ASSUME StackSound, NEW keep \in 1..Len(chain), Cut(keep), top' \in 1..EntriesPerChunk,
         NEW i \in Nat, i <= Above, HeightAt(keep, top') = Height - i, marks' = marks
  PROVE  StackSound'
<1>1. marks # <<>> => HeightAt(PositionOf(Mark[1]), Mark[2]) <= HeightAt(keep, top')
  <2>1. /\ Height \in Nat /\ Above \in Int
        /\ marks # <<>> => HeightAt(PositionOf(Mark[1]), Mark[2]) = Height - Above
    BY AboveMark
  <2> QED BY <2>1
<1>2. PICK low \in 1..EntriesPerChunk : low = top'
  OBVIOUS
<1>3. marks # <<>> => HeightAt(PositionOf(Mark[1]), Mark[2]) <= HeightAt(keep, low)
  BY <1>1, <1>2
<1>4. Placed(SubSeq(chain, 1, keep), low, marks)
  BY <1>3, LowerPlaced
<1>5. low \in 0..EntriesPerChunk
  BY StackConstants
<1>6. marks \in MarksType
  BY SoundIs
<1> QED BY <1>2, <1>4, <1>5, <1>6, CutSound

\* A pop ends one value lower, in the same chunk or in the one below.
LEMMA PopPlace ==
  ASSUME StackSound, StackPop
  PROVE  /\ Above \in Int /\ 1 <= Above /\ marks' = marks /\ top' \in 1..EntriesPerChunk
         /\ top = EntriesPerChunk => /\ Len(chain) - 1 \in 1..Len(chain) /\ Cut(Len(chain) - 1)
                                     /\ HeightAt(Len(chain) - 1, top') = Height - 1
         /\ top # EntriesPerChunk => /\ chain' = chain /\ save' = save /\ elements' = elements
                                     /\ HeightAt(Len(chain), top') = Height - 1
<1>1. Len(chain) \in Nat \ {0} /\ top \in 0..EntriesPerChunk /\ EntriesPerChunk \in Nat \ {0}
  BY SoundIs, EmptySeq, StackConstants DEF ChainOK
<1>2. Height \in Nat /\ Above \in Int /\ Above <= Height /\ 1 <= Above
  <2>1. Above > 0
    BY DEF StackPop
  <2> QED BY <2>1, AboveMark
<1>3. CASE top = EntriesPerChunk
  <2>1. Height = (Len(chain) - 1) * EntriesPerChunk
    BY <1>1, <1>3, SMT DEF Height, HeightAt
  <2>2. Len(chain) - 1 \in 1..Len(chain)
    <3>1. (1 - 1) * EntriesPerChunk = 0
      BY <1>1
    <3>2. Height # 0
      BY <1>2
    <3>3. Len(chain) # 1
      BY <2>1, <3>1, <3>2, Zenon
    <3>4. \A n \in Nat \ {0} : n # 1 => n - 1 \in 1..n
      OBVIOUS
    <3> QED BY <1>1, <3>3, <3>4
  <2>3. Cut(Len(chain) - 1) /\ top' = 1 /\ marks' = marks
    BY <1>3 DEF StackPop
  <2>4. HeightAt(Len(chain) - 1, top') = Height - 1
    <3>1. HeightAt(Len(chain) - 1, top') = (Len(chain) - 1 - 1) * EntriesPerChunk + (EntriesPerChunk - 1)
      BY <2>3 DEF HeightAt
    <3>2. \A n \in Nat : (n - 1) * EntriesPerChunk + (EntriesPerChunk - 1) = n * EntriesPerChunk - 1
      BY <1>1, SMT
    <3>3. Len(chain) - 1 \in Nat
      BY <1>1
    <3> QED BY <2>1, <3>1, <3>2, <3>3
  <2>5. top' \in 1..EntriesPerChunk
    BY <1>1, <2>3
  <2> QED BY <1>2, <1>3, <2>2, <2>3, <2>4, <2>5
<1>4. CASE top # EntriesPerChunk
  <2>1. top' = top + 1 /\ chain' = chain /\ save' = save /\ elements' = elements /\ marks' = marks
    BY <1>4 DEF StackPop
  <2>2. top' \in 1..EntriesPerChunk
    BY <1>1, <1>4, <2>1
  <2>3. HeightAt(Len(chain), top') = Height - 1
    <3>1. PICK h \in Int : h = (Len(chain) - 1) * EntriesPerChunk
      BY <1>1, SMT
    <3>2. HeightAt(Len(chain), top') = h + (EntriesPerChunk - (top + 1)) /\ Height = h + (EntriesPerChunk - top)
      BY <2>1, <3>1, Zenon DEF Height, HeightAt
    <3> QED BY <1>1, <3>2
  <2> QED BY <1>2, <1>4, <2>1, <2>2, <2>3
<1> QED BY <1>3, <1>4

LEMMA PopSound ==
  ASSUME StackSound, StackPop
  PROVE  StackSound'
<1>1. /\ Len(chain) \in Nat \ {0} /\ EntriesPerChunk \in Nat \ {0}
      /\ SubSeq(chain, 1, Len(chain)) = chain
  BY SoundIs, EmptySeq, SubSeqFull, StackConstants DEF ChainOK
<1>2. Height \in Nat /\ Above \in Int /\ 1 <= Above /\ marks' = marks /\ top' \in 1..EntriesPerChunk
  BY AboveMark, PopPlace
<1>3. CASE top = EntriesPerChunk
  BY <1>2, <1>3, PopPlace, LowerSound
<1>4. CASE top # EntriesPerChunk
  <2>1. /\ chain' = chain /\ save' = save /\ elements' = elements
        /\ HeightAt(Len(chain), top') = Height - 1
    BY <1>4, PopPlace
  <2>2. PICK low \in 1..EntriesPerChunk : low = top'
    BY <1>2
  <2>3. marks # <<>> => HeightAt(PositionOf(Mark[1]), Mark[2]) <= HeightAt(Len(chain), low)
    <3>1. marks # <<>> => HeightAt(PositionOf(Mark[1]), Mark[2]) = Height - Above
      BY AboveMark
    <3> QED BY <1>2, <2>1, <2>2, <3>1
  <2>4. Placed(SubSeq(chain, 1, Len(chain)), low, marks)
    <3>1. Len(chain) \in 1..Len(chain)
      BY <1>1
    <3> QED BY <2>3, <3>1, LowerPlaced
  <2>5. Placed(chain, top', marks)
    BY <1>1, <2>2, <2>4
  <2>6. /\ ChainOK(chain) /\ SaveOK(chain, save) /\ elements \in ElementsType /\ marks \in MarksType
        /\ top' \in 0..EntriesPerChunk
    BY <1>1, <1>2, SoundIs
  <2> QED BY <1>2, <2>1, <2>5, <2>6
          DEF StackSound, StackTypeOK, MarksStay, ChainOK, SaveOK, ElementsType, MarksType, Placed
<1> QED BY <1>3, <1>4

\* A drop ends as many values lower as it takes off, in whatever chunk that is.
LEMMA DropPlace ==
  ASSUME StackSound, NEW i \in Nat \ {0}, StackDrop(i)
  PROVE  /\ i <= Above /\ marks' = marks /\ top' \in 1..EntriesPerChunk
         /\ \E keep \in 1..Len(chain) : Cut(keep) /\ HeightAt(keep, top') = Height - i
<1> DEFINE E == EntriesPerChunk
           L == Len(chain)
           rest == i - (E - top)
           left == IF rest <= 0 THEN 0 ELSE (rest + E - 1) \div E
<1>1. L \in Nat \ {0} /\ top \in 0..E /\ E \in Nat \ {0} /\ rest \in Int
  <2>1. L \in Nat \ {0} /\ top \in 0..E /\ E \in Nat \ {0}
    BY SoundIs, EmptySeq, StackConstants DEF ChainOK
  <2> QED BY <2>1
<1>2. Height \in Nat /\ Above \in Int /\ Above <= Height /\ i <= Above
  BY AboveMark DEF StackDrop
<1>3. Cut(L - left) /\ top' = (IF left = 0 THEN top + i ELSE rest - (left - 1) * E) /\ marks' = marks
  BY DEF StackDrop
<1>4. Height = (L - 1) * E + (E - top)
  BY DEF Height, HeightAt
<1>5. CASE rest <= 0
  <2>1. left = 0 /\ top' = top + i
    BY <1>3, <1>5
  <2>2. top + i \in 1..E
    BY <1>1, <1>5
  <2>3. L - left = L /\ L \in 1..L
    BY <1>1, <2>1
  <2>4. HeightAt(L, top + i) = Height - i
    <3>1. (L - 1) * E \in Int
      BY <1>1, SMT
    <3> QED BY <1>1, <1>4, <3>1 DEF HeightAt
  <2> QED BY <1>2, <1>3, <2>1, <2>2, <2>3, <2>4
<1>6. CASE rest > 0
  <2>1. left = (rest + E - 1) \div E
    BY <1>1, <1>6
  <2>2. left \in Int /\ left * E <= rest + E - 1 /\ rest + E - 1 < left * E + E
    <3>1. \A n \in Nat : /\ n \div E \in Int /\ (n \div E) * E <= n /\ n < (n \div E) * E + E
      BY <1>1, SMT
    <3>2. rest + E - 1 \in Nat
      BY <1>1, <1>6
    <3> HIDE DEF rest
    <3> QED BY <2>1, <3>1, <3>2
  <2> HIDE DEF left
  <2>3. rest <= (L - 1) * E
    <3>1. (L - 1) * E \in Int
      BY <1>1, SMT
    <3> QED BY <1>1, <1>2, <1>4, <3>1
  <2> HIDE DEF rest
  <2>4. left >= 1
    <3>1. left <= 0 => left * E <= 0
      BY <1>1, <2>2, SMT
    <3>2. left * E \in Int
      BY <1>1, <2>2
    <3> QED BY <1>1, <1>6, <2>2, <3>1, <3>2
  <2>5. left <= L - 1
    <3>1. left >= L => left * E >= L * E
      BY <1>1, <2>2, SMT
    <3>2. (L - 1) * E = L * E - E /\ L * E \in Int /\ left * E \in Int
      BY <1>1, <2>2, SMT
    <3> QED BY <1>1, <2>2, <2>3, <3>1, <3>2
  <2>6. top' = rest - (left - 1) * E /\ (left - 1) * E = left * E - E /\ left * E \in Int
    BY <1>1, <1>3, <2>2, <2>4, SMT
  <2>7. top' \in 1..E
    BY <1>1, <2>2, <2>6
  <2>8. L - left \in 1..L
    BY <1>1, <2>2, <2>4, <2>5
  <2>9. HeightAt(L - left, top') = Height - i
    <3>1. HeightAt(L - left, top') = (L - left - 1) * E + (E - top')
      BY DEF HeightAt
    <3>2. (L - left - 1) * E = (L - 1) * E - left * E /\ (L - 1) * E \in Int
      BY <1>1, <2>2, SMT
    <3>3. rest = i - (E - top)
      BY DEF rest
    <3> QED BY <1>1, <1>4, <2>6, <3>1, <3>2, <3>3
  <2> QED BY <1>2, <1>3, <2>7, <2>8, <2>9
<1> QED BY <1>1, <1>5, <1>6

LEMMA DropSound ==
  ASSUME StackSound, NEW i \in Nat \ {0}, StackDrop(i)
  PROVE  StackSound'
<1>1. PICK keep \in 1..Len(chain) : Cut(keep) /\ HeightAt(keep, top') = Height - i
  BY DropPlace
<1> QED BY <1>1, DropPlace, LowerSound

-----------------------------------------------------------------------------
(* The steps *)

LEMMA EnterSound ==
  ASSUME StackSound, Enter
  PROVE  StackSound'
<1> DEFINE sp == <<Current, top>>
<1>1. /\ ChainOK(chain) /\ SaveOK(chain, save) /\ elements \in ElementsType
      /\ top \in 0..EntriesPerChunk /\ marks \in MarksType /\ Placed(chain, top, marks)
      /\ Len(chain) \in Nat \ {0} /\ Current = chain[Len(chain)]
  BY SoundIs, EmptySeq DEF ChainOK, Current
<1>2. Current \in Chunks /\ Len(chain) \in 1..Len(chain)
  BY <1>1, ElementOfSeq DEF ChainOK
<1>3. /\ marks' \in MarksType /\ Len(marks') = Len(marks) + 1 /\ marks'[Len(marks) + 1] = sp
      /\ Len(marks) \in Nat /\ \A m \in 1..Len(marks) : marks'[m] = marks[m]
  BY <1>1, <1>2 DEF Enter, MarksType
<1>4. chain' = chain /\ save' = save /\ elements' = elements /\ top' = top
  BY DEF Enter
<1>5. ASSUME NEW m \in 1..Len(marks')
      PROVE  \E p \in 1..Len(chain) : chain[p] = marks'[m][1] /\ (p = Len(chain) => top <= marks'[m][2])
  <2>1. CASE m \in 1..Len(marks)
    BY <1>1, <1>3, <2>1 DEF Placed
  <2>2. CASE m = Len(marks) + 1
    BY <1>1, <1>2, <1>3, <2>2
  <2> QED BY <1>3, <2>1, <2>2
<1>6. ASSUME NEW m \in 1..Len(marks'), NEW n \in 1..Len(marks'), NEW p \in 1..Len(chain), NEW q \in 1..Len(chain),
             m < n, chain[p] = marks'[m][1], chain[q] = marks'[n][1]
      PROVE  p < q \/ (p = q /\ marks'[n][2] <= marks'[m][2])
  <2>1. m \in 1..Len(marks)
    BY <1>3, <1>6
  <2>2. CASE n \in 1..Len(marks)
    <3>1. \A i, j \in 1..Len(marks) : \A r, o \in 1..Len(chain) :
            i < j /\ chain[r] = marks[i][1] /\ chain[o] = marks[j][1]
              => r < o \/ (r = o /\ marks[j][2] <= marks[i][2])
      BY <1>1 DEF Placed
    <3>2. marks'[m] = marks[m] /\ marks'[n] = marks[n]
      BY <1>3, <2>1, <2>2
    <3> QED BY <1>6, <2>1, <2>2, <3>1, <3>2
  <2>3. CASE n = Len(marks) + 1
    <3>1. chain[q] = chain[Len(chain)] /\ marks'[n][2] = top
      BY <1>1, <1>3, <1>6, <2>3
    <3>2. q = Len(chain)
      BY <1>1, <1>2, <3>1 DEF ChainOK
    <3>3. p = Len(chain) => top <= marks'[m][2]
      BY <1>1, <1>5, <1>6 DEF ChainOK
    <3> QED BY <1>1, <3>1, <3>2, <3>3
  <2> QED BY <1>3, <2>2, <2>3
<1>7. Placed(chain, top, marks')
  BY <1>5, <1>6 DEF Placed
<1> QED BY <1>1, <1>3, <1>4, <1>7
        DEF StackSound, StackTypeOK, MarksStay, ChainOK, SaveOK, ElementsType, MarksType, Placed

LEMMA ForgetSound ==
  ASSUME StackSound, Forget
  PROVE  StackSound'
<1>1. /\ ChainOK(chain) /\ SaveOK(chain, save) /\ elements \in ElementsType
      /\ top \in 0..EntriesPerChunk /\ marks \in MarksType /\ Placed(chain, top, marks)
  BY SoundIs
<1>2. /\ marks' = Unmarked /\ marks # <<>>
      /\ chain' = chain /\ save' = save /\ elements' = elements /\ top' = top
  BY DEF Forget
<1>3. /\ marks' \in MarksType
      /\ \A m \in 1..Len(marks') : marks'[m] = marks[m] /\ m \in 1..Len(marks)
  BY <1>1, <1>2, Outer
<1>4. Placed(chain, top, marks')
  BY <1>1, <1>3 DEF Placed
<1> QED BY <1>1, <1>2, <1>3, <1>4
        DEF StackSound, StackTypeOK, MarksStay, ChainOK, SaveOK, ElementsType, MarksType, Placed

LEMMA ResetSound ==
  ASSUME StackSound, StackReset
  PROVE  StackSound'
<1>1. PICK keep \in Stops(Mark) : Cut(keep)
  BY DEF StackReset
<1>2. marks # <<>> /\ top' = Mark[2] /\ marks' = Unmarked
  BY DEF StackReset
<1>3. marks' \in MarksType
  BY <1>2, Outer, SoundIs
<1>4. keep \in 1..Len(chain) /\ top' \in 0..EntriesPerChunk /\ Placed(SubSeq(chain, 1, keep), top', marks')
  BY <1>2, ResetPlaced
<1> QED BY <1>1, <1>3, <1>4, CutSound

LEMMA ReturnSound ==
  ASSUME StackSound, NEW v \in StackValues, StackReturn(v)
  PROVE  StackSound'
<1>1. PICK keep \in Stops(Mark) :
        StackPush(SubSeq(chain, 1, keep), Mark[2],
                  IF keep < Len(chain) /\ save = NoChunk THEN Current ELSE save, v)
  BY DEF StackReturn
<1>2. marks # <<>> /\ marks' = Unmarked
  BY DEF StackReturn
<1>3. marks' \in MarksType /\ elements \in ElementsType /\ ChainOK(chain)
  BY <1>2, Outer, SoundIs
<1>4. /\ keep \in 1..Len(chain) /\ Mark[2] \in 0..EntriesPerChunk
      /\ Placed(SubSeq(chain, 1, keep), Mark[2], marks')
  BY <1>2, ResetPlaced
<1>5. ChainOK(SubSeq(chain, 1, keep))
  BY <1>3, <1>4, SubChain
<1>6. SaveOK(SubSeq(chain, 1, keep), IF keep < Len(chain) /\ save = NoChunk THEN Current ELSE save)
  BY <1>4, CutSave
<1> QED BY <1>1, <1>3, <1>4, <1>5, <1>6, PushSound

LEMMA CopySound ==
  ASSUME StackSound, StackCopy
  PROVE  StackSound'
<1>1. /\ ChainOK(chain) /\ elements \in ElementsType /\ top \in 0..EntriesPerChunk
      /\ marks \in MarksType /\ Len(chain) \in Nat \ {0}
      /\ \A p \in 1..Len(chain) : chain[p] \in Chunks
  BY SoundIs, EmptySeq, ElementOfSeq DEF ChainOK
<1>2. PICK new \in [1..Len(chain) -> Chunks \ {chain[p] : p \in 1..Len(chain)}] :
        /\ \A p, q \in 1..Len(chain) : p # q => new[p] # new[q]
        /\ chain' = new
        /\ elements' = [c \in Chunks |->
                          IF \E p \in 1..Len(chain) : new[p] = c
                          THEN elements[chain[CHOOSE p \in 1..Len(chain) : new[p] = c]]
                          ELSE Junk]
  BY DEF StackCopy
<1>3. marks = <<>> /\ save' = NoChunk /\ top' = top /\ marks' = marks
  BY DEF StackCopy
<1>4. new \in [1..Len(chain) -> Chunks] /\ new \in Seq(Chunks) /\ Len(new) = Len(chain)
  <2>1. new \in [1..Len(chain) -> Chunks]
    BY <1>2
  <2> QED BY <1>1, <2>1
<1>5. ChainOK(chain')
  <2>1. new # <<>>
    BY <1>1, <1>4, EmptySeq
  <2> QED BY <1>2, <1>4, <2>1 DEF ChainOK
<1>6. SaveOK(chain', save')
  BY <1>2, <1>3, <1>4, StackConstants DEF SaveOK
<1>7. elements' \in ElementsType
  <2>1. Junk \in [Offsets -> StackValues]
    <3>1. (CHOOSE v \in StackValues : TRUE) \in StackValues
      BY StackConstants
    <3> QED BY <3>1 DEF Junk
  <2>2. ASSUME NEW c \in Chunks, \E p \in 1..Len(chain) : new[p] = c
        PROVE  elements[chain[CHOOSE p \in 1..Len(chain) : new[p] = c]] \in [Offsets -> StackValues]
    <3>1. (CHOOSE p \in 1..Len(chain) : new[p] = c) \in 1..Len(chain)
      BY <2>2
    <3> QED BY <1>1, <3>1 DEF ElementsType
  <2> QED BY <1>2, <2>1, <2>2 DEF ElementsType
<1>8. Placed(chain', top', marks')
  <2>1. Len(marks') = 0
    BY <1>3
  <2> QED BY <2>1 DEF Placed
<1> QED BY <1>1, <1>3, <1>5, <1>6, <1>7, <1>8
        DEF StackSound, StackTypeOK, MarksStay, ChainOK, SaveOK, ElementsType, MarksType, Placed

LEMMA InitSound ==
  ASSUME StackInit
  PROVE  StackSound
<1>1. PICK c \in Chunks : chain = <<c>>
  BY DEF StackInit
<1>2. ChainOK(chain) /\ Len(chain) = 1 /\ chain[1] = c
  BY <1>1 DEF ChainOK
<1>3. SaveOK(chain, save)
  BY <1>1, <1>2, StackConstants DEF SaveOK, StackInit
<1>4. elements \in ElementsType
  <2>1. (CHOOSE v \in StackValues : TRUE) \in StackValues
    BY StackConstants
  <2> QED BY <2>1 DEF ElementsType, Junk, StackInit
<1>5. top \in 0..EntriesPerChunk /\ marks = <<>> /\ marks \in MarksType
  BY StackConstants DEF StackInit, MarksType
<1>6. Placed(chain, top, marks)
  <2>1. Len(marks) = 0
    BY <1>5
  <2> QED BY <2>1 DEF Placed
<1> QED BY <1>2, <1>3, <1>4, <1>5, <1>6, SoundIs

LEMMA StepSound ==
  ASSUME StackSound, [StackNext]_stackVars
  PROVE  StackSound'
<1>1. ASSUME NEW v \in StackValues, Push(v)  PROVE StackSound'
  <2>1. StackPush(chain, top, save, v) /\ marks' = marks
    BY <1>1 DEF Push
  <2>2. /\ ChainOK(chain) /\ SaveOK(chain, save) /\ elements \in ElementsType
        /\ top \in 0..EntriesPerChunk /\ marks' \in MarksType /\ Placed(chain, top, marks')
    BY <2>1, SoundIs
  <2> QED BY <2>1, <2>2, PushSound
<1>2. ASSUME NEW i \in 1..MaxHeight, StackDrop(i)  PROVE StackSound'
  BY <1>2, DropSound, StackConstants
<1>3. ASSUME NEW i \in 1..MaxHeight, StackElt(i - 1)  PROVE StackSound'
  <2>1. /\ chain' = chain /\ elements' = elements /\ top' = top /\ save' = save /\ marks' = marks
    BY <1>3 DEF StackElt
  <2> QED BY <2>1 DEF StackSound, StackTypeOK, MarksStay
<1>4. CASE UNCHANGED stackVars
  <2>1. /\ chain' = chain /\ elements' = elements /\ top' = top /\ save' = save /\ marks' = marks
    BY <1>4 DEF stackVars
  <2> QED BY <2>1 DEF StackSound, StackTypeOK, MarksStay
<1>5. ASSUME NEW v \in StackValues, StackReturn(v)  PROVE StackSound'
  BY <1>5, ReturnSound
<1>6. CASE StackPop
  BY <1>6, PopSound
<1>7. CASE Enter
  BY <1>7, EnterSound
<1>8. CASE StackReset
  BY <1>8, ResetSound
<1>9. CASE Forget
  BY <1>9, ForgetSound
<1>10. CASE StackCopy
  BY <1>10, CopySound
<1> QED BY <1>1, <1>2, <1>3, <1>4, <1>5, <1>6, <1>7, <1>8, <1>9, <1>10 DEF StackNext

\* The chunks, the one kept back and the pointers that ENTER saved are in order, for chunks of any
\* size and any number of values and marks.
THEOREM StackStaysSound == StackSpec => []StackSound
<1>1. StackInit => StackSound
  BY InitSound
<1>2. StackSound /\ [StackNext]_stackVars => StackSound'
  BY StepSound
<1> QED BY <1>1, <1>2, PTL DEF StackSpec

\* EXIT and RETURN always find the chunk of the stack pointer they are given: the walk of StackReset
\* does not run off the end, which is the panic "Stack underflow".
THEOREM NoUnderflow == StackSpec => []~ResetUnderflows
<1>1. StackSound => ~ResetUnderflows
  <2>1. SUFFICES ASSUME StackSound, marks # <<>>  PROVE Stops(Mark) # {}
    BY DEF ResetUnderflows
  <2>2. PositionOf(Mark[1]) \in Stops(Mark)
    BY <2>1, MarkPlace DEF Stops
  <2> QED BY <2>2
<1> QED BY <1>1, StackStaysSound, PTL

-----------------------------------------------------------------------------
(* The chunks are the stack that Lifo describes: every operation on them is *)
(* the same operation on a sequence of values.                             *)


\* The refinement mapping, of any chunks and marks.
AtIn(base, els, h) ==
  els[base[(h - 1) \div EntriesPerChunk + 1]][EntriesPerChunk - 1 - ((h - 1) % EntriesPerChunk)]
Contents(base, els, off) == [h \in 1..HeightAt(Len(base), off) |-> AtIn(base, els, h)]
PlaceIn(base, c) == CHOOSE p \in 1..Len(base) : base[p] = c
Heights(base, ms) == [m \in 1..Len(ms) |-> HeightAt(PlaceIn(base, ms[m][1]), ms[m][2])]

\* The elements of the chunks of a chain.
SameElements(base, els, others) == \A p \in 1..Len(base) : others[base[p]] = els[base[p]]

-----------------------------------------------------------------------------
(* Values *)

\* Where the value at a height is: in a chunk of the chain, and in the last one not above the
\* stack pointer.
LEMMA Where ==
  ASSUME NEW L \in Nat \ {0}, NEW off \in 0..EntriesPerChunk, NEW h \in 1..HeightAt(L, off)
  PROVE  LET p == (h - 1) \div EntriesPerChunk + 1
             o == EntriesPerChunk - 1 - ((h - 1) % EntriesPerChunk)
         IN  p \in 1..L /\ o \in Offsets /\ (p = L => off <= o)
<1> DEFINE E == EntriesPerChunk
           q == (h - 1) \div E
           r == (h - 1) % E
<1>1. E \in Nat \ {0}
  BY StackConstants
<1>2. HeightAt(L, off) = (L - 1) * E + (E - off) /\ HeightAt(L, off) \in Nat
  BY HeightNat DEF HeightAt
<1>3. h - 1 \in Nat
  BY <1>2
<1>4. \A n \in Nat : /\ n \div E \in Nat /\ n % E \in 0..(E - 1)
                     /\ n = (n \div E) * E + (n % E)
  BY <1>1, SMT
<1>5. q \in Nat /\ r \in 0..(E - 1) /\ h - 1 = q * E + r
  BY <1>3, <1>4
<1> HIDE DEF q, r
<1>6. q <= L - 1
  <2>1. q >= L => q * E >= L * E
    BY <1>1, <1>5, SMT
  <2>2. (L - 1) * E = L * E - E /\ L * E \in Int /\ q * E \in Int
    BY <1>1, <1>5, SMT
  <2> QED BY <1>1, <1>2, <1>5, <2>1, <2>2
<1>7. q = L - 1 => off <= E - 1 - r
  <2>1. q = L - 1 => q * E = (L - 1) * E
    OBVIOUS
  <2>2. (L - 1) * E \in Int
    BY <1>1, SMT
  <2> QED BY <1>1, <1>2, <1>5, <2>1, <2>2
<1>8. q + 1 \in 1..L /\ E - 1 - r \in Offsets /\ (q + 1 = L => off <= E - 1 - r)
  BY <1>1, <1>5, <1>6, <1>7 DEF Offsets
<1> QED BY <1>8 DEF q, r

LEMMA ContentsSeq ==
  ASSUME NEW base, ChainOK(base), NEW els \in ElementsType, NEW off \in 0..EntriesPerChunk
  PROVE  /\ Contents(base, els, off) \in Seq(StackValues)
         /\ Len(Contents(base, els, off)) = HeightAt(Len(base), off)
         /\ HeightAt(Len(base), off) \in Nat
<1>1. /\ Len(base) \in Nat \ {0} /\ HeightAt(Len(base), off) \in Nat
      /\ \A p \in 1..Len(base) : base[p] \in Chunks
  BY EmptySeq, ElementOfSeq, HeightNat DEF ChainOK
<1>2. ASSUME NEW h \in 1..HeightAt(Len(base), off)  PROVE AtIn(base, els, h) \in StackValues
  <2>1. /\ (h - 1) \div EntriesPerChunk + 1 \in 1..Len(base)
        /\ EntriesPerChunk - 1 - ((h - 1) % EntriesPerChunk) \in Offsets
    BY <1>1, Where
  <2> QED BY <1>1, <2>1 DEF AtIn, ElementsType
<1> QED BY <1>1, <1>2 DEF Contents

\* A chain without its last chunks holds the lowest values.
LEMMA CutContents ==
  ASSUME NEW base, ChainOK(base), NEW els \in ElementsType, NEW off \in 0..EntriesPerChunk,
         NEW keep \in 1..Len(base), NEW low \in 0..EntriesPerChunk,
         NEW others \in ElementsType, SameElements(SubSeq(base, 1, keep), els, others),
         HeightAt(keep, low) <= HeightAt(Len(base), off)
  PROVE  Contents(SubSeq(base, 1, keep), others, low)
           = SubSeq(Contents(base, els, off), 1, HeightAt(keep, low))
<1> DEFINE sub == SubSeq(base, 1, keep)
           n == HeightAt(keep, low)
           all == Contents(base, els, off)
<1>1. ChainOK(sub) /\ Len(sub) = keep /\ \A p \in 1..keep : sub[p] = base[p]
  BY SubChain
<1>2. /\ Contents(sub, others, low) \in Seq(StackValues) /\ Len(Contents(sub, others, low)) = n
      /\ n \in Nat
  <2> HIDE DEF sub
  <2> QED BY <1>1, ContentsSeq
<1>3. all \in Seq(StackValues) /\ Len(all) = HeightAt(Len(base), off) /\ Len(all) \in Nat
  BY ContentsSeq
<1>4. \A h \in 1..n : h \in 1..Len(all) /\ all[h] \in StackValues
  BY <1>2, <1>3
<1>5. /\ SubSeq(all, 1, n) \in Seq(StackValues)
      /\ Len(SubSeq(all, 1, n)) = IF 1 <= n THEN n - 1 + 1 ELSE 0
      /\ \A i \in 1..(n - 1 + 1) : SubSeq(all, 1, n)[i] = all[1 + i - 1]
  <2> HIDE DEF all, n
  <2> QED BY <1>2, <1>4, SubSeqProperties
<1>6. Len(SubSeq(all, 1, n)) = n /\ \A i \in 1..n : SubSeq(all, 1, n)[i] = all[i]
  <2> HIDE DEF all, n
  <2> QED BY <1>2, <1>5
<1>7. ASSUME NEW h \in 1..n  PROVE Contents(sub, others, low)[h] = all[h]
  <2>1. AtIn(sub, others, h) = AtIn(base, els, h)
    <3>1. (h - 1) \div EntriesPerChunk + 1 \in 1..keep
      BY Where, StackConstants
    <3> HIDE DEF sub
    <3> QED BY <1>1, <3>1 DEF AtIn, SameElements, sub
  <2>2. Contents(sub, others, low)[h] = AtIn(sub, others, h)
    BY <1>1 DEF Contents
  <2>3. all[h] = AtIn(base, els, h)
    BY <1>3, <1>4 DEF Contents
  <2> QED BY <2>1, <2>2, <2>3
<1> HIDE DEF sub, all, n
<1>8. Contents(sub, others, low) = SubSeq(all, 1, n)
  BY <1>2, <1>5, <1>6, <1>7, SeqEqual
<1> QED BY <1>8 DEF sub, all, n

\* The value that a stack pointer is at is the highest one.
LEMMA TopPlace ==
  ASSUME NEW p \in Nat \ {0}, NEW off \in Offsets
  PROVE  LET h == HeightAt(p, off)
         IN  /\ h \in Nat \ {0}
             /\ (h - 1) \div EntriesPerChunk + 1 = p
             /\ EntriesPerChunk - 1 - ((h - 1) % EntriesPerChunk) = off
<1> DEFINE E == EntriesPerChunk
           h == HeightAt(p, off)
           n == h - 1
           r == E - 1 - off
<1>1. E \in Nat \ {0} /\ r \in 0..(E - 1) /\ off = E - 1 - r /\ off \in 0..E
  BY StackConstants DEF Offsets
<1>2. h \in Nat /\ (p - 1) * E \in Nat
  <2>1. (p - 1) * E \in Nat
    BY <1>1, SMT
  <2> QED BY <1>1, <2>1, HeightNat
<1>3. n = (p - 1) * E + r
  <2>1. h = (p - 1) * E + (E - off)
    BY DEF HeightAt
  <2> HIDE DEF h
  <2> QED BY <1>1, <1>2, <2>1
<1>4. \A k \in Nat : /\ k \div E \in Nat /\ k % E \in 0..(E - 1)
                     /\ k = (k \div E) * E + (k % E)
  BY <1>1, SMT
<1> HIDE DEF h, r
<1>5. n \in Nat /\ h = n + 1
  BY <1>1, <1>2, <1>3
<1> HIDE DEF n
<1>6. PICK q \in Nat : q = n \div E
  BY <1>4, <1>5
<1>7. PICK s \in 0..(E - 1) : s = n % E
  BY <1>4, <1>5
<1>8. q * E + s = (p - 1) * E + r
  BY <1>3, <1>4, <1>5, <1>6, <1>7
<1>9. q = p - 1
  <2>1. q < p - 1 => q * E + E <= (p - 1) * E
    BY <1>1, SMT
  <2>2. p - 1 < q => (p - 1) * E + E <= q * E
    BY <1>1, SMT
  <2>3. q * E \in Nat
    BY <1>1, SMT
  <2> QED BY <1>1, <1>2, <1>8, <2>1, <2>2, <2>3
<1>10. s = r
  <2>1. q * E = (p - 1) * E
    BY <1>9
  <2> QED BY <1>1, <1>2, <1>7, <1>8, <2>1
<1>11. n \div E + 1 = p /\ E - 1 - (n % E) = off
  BY <1>1, <1>6, <1>7, <1>9, <1>10
<1> QED BY <1>5, <1>11 DEF n, h

\* What a higher stack pointer is above.
LEMMA Higher ==
  ASSUME NEW p \in Nat \ {0}, NEW q \in Nat \ {0},
         NEW m \in 0..EntriesPerChunk, NEW n \in 0..EntriesPerChunk,
         p < q \/ (p = q /\ n <= m)
  PROVE  HeightAt(p, m) <= HeightAt(q, n)
<1> DEFINE E == EntriesPerChunk
<1>1. E \in Nat /\ (p - 1) * E \in Int /\ (q - 1) * E \in Int
  BY StackConstants, SMT
<1>2. p < q => (p - 1) * E + E <= (q - 1) * E
  BY <1>1, SMT
<1> QED BY <1>1, <1>2 DEF HeightAt

\* One more value, at the stack pointer <<more[Len(more)], o>>, over the values of base.
LEMMA OnTop ==
  ASSUME NEW base, ChainOK(base), NEW els \in ElementsType, NEW off \in 0..EntriesPerChunk,
         NEW more, ChainOK(more), NEW others \in ElementsType, NEW o \in Offsets,
         NEW v \in StackValues, others[more[Len(more)]][o] = v,
         HeightAt(Len(more), o) = HeightAt(Len(base), off) + 1,
         \A p \in 1..Len(base), q \in Offsets :
           (p = Len(base) => off <= q) => others[more[p]][q] = els[base[p]][q]
  PROVE  Contents(more, others, o) = Append(Contents(base, els, off), v)
<1> DEFINE E == EntriesPerChunk
           n == HeightAt(Len(base), off)
           below == Contents(base, els, off)
           above == Contents(more, others, o)
<1>1. Len(base) \in Nat \ {0} /\ Len(more) \in Nat \ {0} /\ o \in 0..EntriesPerChunk
  BY EmptySeq, StackConstants DEF ChainOK, Offsets
<1>2. below \in Seq(StackValues) /\ Len(below) = n /\ n \in Nat
  BY ContentsSeq
<1>3. above \in Seq(StackValues) /\ Len(above) = n + 1
  BY <1>1, ContentsSeq
<1>4. /\ \A h \in 1..n : below[h] = AtIn(base, els, h)
      /\ \A h \in 1..(n + 1) : above[h] = AtIn(more, others, h)
  BY DEF Contents
<1>5. ASSUME NEW h \in 1..n  PROVE AtIn(more, others, h) = AtIn(base, els, h)
  <2>1. PICK p, q : p = (h - 1) \div E + 1 /\ q = E - 1 - ((h - 1) % E)
    OBVIOUS
  <2>2. p \in 1..Len(base) /\ q \in Offsets /\ (p = Len(base) => off <= q)
    BY <1>1, <2>1, Where
  <2>3. AtIn(more, others, h) = others[more[p]][q] /\ AtIn(base, els, h) = els[base[p]][q]
    BY <2>1, Zenon DEF AtIn
  <2> QED BY <2>2, <2>3
<1>6. AtIn(more, others, n + 1) = v
  <2>1. /\ (HeightAt(Len(more), o) - 1) \div E + 1 = Len(more)
        /\ E - 1 - ((HeightAt(Len(more), o) - 1) % E) = o
    BY <1>1, TopPlace
  <2>2. AtIn(more, others, HeightAt(Len(more), o)) = others[more[Len(more)]][o]
    BY <2>1, Zenon DEF AtIn
  <2> QED BY <2>2
<1> HIDE DEF above, below, n
<1>7. /\ Append(below, v) \in Seq(StackValues) /\ Len(Append(below, v)) = n + 1
      /\ \A h \in 1..n : Append(below, v)[h] = below[h]
      /\ Append(below, v)[n + 1] = v
  BY <1>2, AppendProperties
<1>8. \A h \in 1..(n + 1) : h \in 1..n \/ h = n + 1
  BY <1>2
<1>9. n + 1 \in 1..(n + 1) /\ \A h \in 1..n : h \in 1..(n + 1)
  BY <1>2
<1>10. \A h \in 1..(n + 1) : above[h] = Append(below, v)[h]
  BY <1>4, <1>5, <1>6, <1>7, <1>8, <1>9
<1>11. above = Append(below, v)
  BY <1>3, <1>7, <1>10, SeqEqual
<1> QED BY <1>11 DEF above, below

LEMMA ChainLength ==
  ASSUME NEW base, ChainOK(base)
  PROVE  Len(base) \in Nat \ {0} /\ Len(base) \in 1..Len(base) /\ \A p \in 1..Len(base) : base[p] \in Chunks
<1>1. Len(base) \in Nat \ {0} /\ \A p \in 1..Len(base) : base[p] \in Chunks
  BY EmptySeq, ElementOfSeq DEF ChainOK
<1> QED BY <1>1

\* The values below a stack pointer are not those that the next push overwrites: pushing on a chain
\* is pushing on its contents, in the same chunk or in a new one.
LEMMA PushContents ==
  ASSUME elements \in ElementsType, NEW base, ChainOK(base), NEW off \in 0..EntriesPerChunk,
         NEW saved, SaveOK(base, saved), NEW v \in StackValues, StackPush(base, off, saved, v)
  PROVE  /\ Contents(chain', elements', top') = Append(Contents(base, elements, off), v)
         /\ ChainOK(chain') /\ Len(base) <= Len(chain') /\ \A p \in 1..Len(base) : chain'[p] = base[p]
<1> DEFINE E == EntriesPerChunk
           L == Len(base)
           n == HeightAt(L, off)
<1>1. L \in Nat \ {0} /\ L \in 1..L /\ E \in Nat \ {0} /\ \A p \in 1..L : base[p] \in Chunks
  BY ChainLength, StackConstants
<1>2. Held(base) \in ElementsType /\ \A p \in 1..L : Held(base)[base[p]] = elements[base[p]]
  BY <1>1, HeldType DEF Held
<1>3. ASSUME NEW c \in Chunks, NEW o \in Offsets, elements' = [Held(base) EXCEPT ![c][o] = v]
      PROVE  /\ elements' \in ElementsType /\ elements'[c][o] = v
             /\ \A p \in 1..L, q \in Offsets :
                  (base[p] # c \/ q # o) => elements'[base[p]][q] = elements[base[p]][q]
  BY <1>1, <1>2, <1>3 DEF ElementsType
<1>4. CASE off > 0
  <2>1. /\ chain' = base /\ top' = off - 1
        /\ elements' = [Held(base) EXCEPT ![base[L]][off - 1] = v]
    BY <1>4 DEF StackPush
  <2>2. off - 1 \in Offsets /\ \A q \in Offsets : off <= q => q # off - 1
    BY <1>1, <1>4 DEF Offsets
  <2>3. HeightAt(L, off - 1) = n + 1
    <3>1. PICK h \in Int : h = (L - 1) * E
      BY <1>1, SMT
    <3>2. HeightAt(L, off - 1) = h + (E - (off - 1)) /\ n = h + (E - off)
      BY <3>1, Zenon DEF HeightAt
    <3> HIDE DEF n
    <3> QED BY <1>1, <3>2
  <2>4. /\ elements' \in ElementsType /\ elements'[base[L]][off - 1] = v
        /\ \A p \in 1..L, q \in Offsets :
             (base[p] # base[L] \/ q # off - 1) => elements'[base[p]][q] = elements[base[p]][q]
    <3>1. base[L] \in Chunks
      BY <1>1
    <3> QED BY <1>3, <2>1, <2>2, <3>1
  <2>5. \A p \in 1..L : base[p] = base[L] => p = L
    BY <1>1 DEF ChainOK
  <2>6. Contents(base, elements', off - 1) = Append(Contents(base, elements, off), v)
    <3>1. PICK others \in ElementsType : others = elements'
      BY <2>4
    <3>2. PICK o \in Offsets : o = off - 1
      BY <2>2
    <3>3. \A p \in 1..L, q \in Offsets : (p = L => off <= q) => others[base[p]][q] = elements[base[p]][q]
      BY <2>2, <2>4, <2>5, <3>1
    <3>4. others[base[L]][o] = v /\ HeightAt(L, o) = HeightAt(L, off) + 1
      BY <2>3, <2>4, <3>1, <3>2
    <3>5. Contents(base, others, o) = Append(Contents(base, elements, off), v)
      BY <3>3, <3>4, OnTop
    <3> QED BY <3>1, <3>2, <3>5
  <2>7. Contents(chain', elements', top') = Append(Contents(base, elements, off), v)
    BY <2>1, <2>6, Zenon
  <2>8. L <= L
    BY <1>1
  <2> QED BY <2>1, <2>7, <2>8
<1>5. CASE ~(off > 0)
  <2>1. PICK c \in IF saved # NoChunk THEN {saved} ELSE Chunks \ {base[p] : p \in 1..L} :
          /\ chain' = Append(base, c) /\ top' = E - 1
          /\ elements' = [Held(base) EXCEPT ![c][E - 1] = v]
    BY <1>5 DEF StackPush
  <2>2. c \in Chunks /\ \A p \in 1..L : base[p] # c
    BY <2>1 DEF SaveOK
  <2>3. PICK more : more = chain'
    OBVIOUS
  <2>4. /\ more \in Seq(Chunks) /\ more # <<>> /\ Len(more) = L + 1 /\ more[L + 1] = c
        /\ \A p \in 1..L : more[p] = base[p]
    BY <2>1, <2>2, <2>3, AppendProperties DEF ChainOK
  <2>5. ChainOK(more)
    <3>1. ASSUME NEW p \in 1..(L + 1), NEW q \in 1..(L + 1), more[p] = more[q]  PROVE p = q
      <4>1. (p \in 1..L \/ p = L + 1) /\ (q \in 1..L \/ q = L + 1)
        BY <1>1
      <4> QED BY <2>2, <2>4, <3>1, <4>1 DEF ChainOK
    <3> QED BY <2>4, <3>1 DEF ChainOK
  <2>6. E - 1 \in Offsets /\ off = 0
    BY <1>1, <1>5 DEF Offsets
  <2>7. HeightAt(L + 1, E - 1) = n + 1
    <3>1. L * E \in Int /\ (L - 1) * E = L * E - E
      BY <1>1, SMT
    <3>2. HeightAt(L + 1, E - 1) = L * E + 1
      BY <1>1, <3>1 DEF HeightAt
    <3>3. n = L * E
      BY <1>1, <2>6, <3>1 DEF HeightAt
    <3> QED BY <3>2, <3>3
  <2>8. PICK others : others = elements'
    OBVIOUS
  <2>9. PICK o \in Offsets : o = E - 1
    BY <2>6
  <2>10. /\ others \in ElementsType /\ others[c][o] = v
         /\ \A p \in 1..L, q \in Offsets : others[base[p]][q] = elements[base[p]][q]
    <3>1. /\ elements' \in ElementsType /\ elements'[c][E - 1] = v
          /\ \A p \in 1..L, q \in Offsets :
               (base[p] # c \/ q # E - 1) => elements'[base[p]][q] = elements[base[p]][q]
      BY <1>3, <2>1, <2>2, <2>6
    <3> QED BY <2>2, <2>8, <2>9, <3>1
  <2>11. Contents(more, others, o) = Append(Contents(base, elements, off), v)
    <3>1. others[more[Len(more)]][o] = v /\ HeightAt(Len(more), o) = HeightAt(L, off) + 1
      BY <2>4, <2>7, <2>9, <2>10
    <3>2. \A p \in 1..L, q \in Offsets : (p = L => off <= q) => others[more[p]][q] = elements[base[p]][q]
      BY <2>4, <2>10
    <3> QED BY <2>5, <2>10, <3>1, <3>2, OnTop
  <2>12. L <= Len(more)
    BY <1>1, <2>4
  <2> QED BY <2>1, <2>3, <2>4, <2>5, <2>8, <2>9, <2>11, <2>12
<1> QED BY <1>4, <1>5

-----------------------------------------------------------------------------
(* Marks *)

\* A chunk has the same position in chains that agree up to there.
LEMMA SamePlace ==
  ASSUME NEW a, ChainOK(a), NEW b, ChainOK(b), NEW k \in Nat, k <= Len(a), k <= Len(b),
         \A p \in 1..k : a[p] = b[p], NEW p \in 1..k
  PROVE  PlaceIn(a, a[p]) = p /\ PlaceIn(b, a[p]) = p
<1>1. Len(a) \in Nat /\ Len(b) \in Nat
  BY LenProperties DEF ChainOK
<1>2. p \in 1..Len(a) /\ p \in 1..Len(b) /\ b[p] = a[p]
  BY <1>1
<1>3. /\ \A q \in 1..Len(a) : a[q] = a[p] => q = p
      /\ \A q \in 1..Len(b) : b[q] = a[p] => q = p
  BY <1>2 DEF ChainOK
<1> QED BY <1>2, <1>3 DEF PlaceIn

\* The heights of marks are the same in all chains that agree on the chunks that are marked.
LEMMA SameHeights ==
  ASSUME NEW a, ChainOK(a), NEW b, ChainOK(b), NEW k \in Nat, k <= Len(a), k <= Len(b),
         \A p \in 1..k : a[p] = b[p], NEW ms \in MarksType,
         \A m \in 1..Len(ms) : \E p \in 1..k : a[p] = ms[m][1]
  PROVE  Heights(a, ms) = Heights(b, ms)
<1>1. ASSUME NEW m \in 1..Len(ms)  PROVE PlaceIn(a, ms[m][1]) = PlaceIn(b, ms[m][1])
  <2>1. PICK p \in 1..k : a[p] = ms[m][1]
    OBVIOUS
  <2> QED BY <2>1, SamePlace
<1> QED BY <1>1 DEF Heights

\* The heights of marks that are in the chain are numbers.
LEMMA HeightsSeq ==
  ASSUME NEW base, ChainOK(base), NEW ms \in MarksType,
         \A m \in 1..Len(ms) : \E p \in 1..Len(base) : base[p] = ms[m][1]
  PROVE  Heights(base, ms) \in Seq(Nat) /\ Len(Heights(base, ms)) = Len(ms) /\ Len(ms) \in Nat
<1>1. Len(ms) \in Nat /\ \A m \in 1..Len(ms) : ms[m] \in Chunks \X (0..EntriesPerChunk)
  BY LenProperties, ElementOfSeq DEF MarksType
<1>2. ASSUME NEW m \in 1..Len(ms)  PROVE HeightAt(PlaceIn(base, ms[m][1]), ms[m][2]) \in Nat
  <2>1. PlaceIn(base, ms[m][1]) \in 1..Len(base) /\ Len(base) \in Nat
    BY ChainLength DEF PlaceIn
  <2>2. PlaceIn(base, ms[m][1]) \in Nat \ {0} /\ ms[m][2] \in 0..EntriesPerChunk
    BY <1>1, <2>1
  <2> QED BY <2>2, HeightNat
<1> QED BY <1>1, <1>2 DEF Heights

-----------------------------------------------------------------------------
(* The operations *)

\* What Lifo sees of the stack.
Con == Contents(chain, elements, top)
Hts == Heights(chain, marks)

LEMMA ConIs ==
  /\ [h \in 1..Height |-> At(h)] = Con
  /\ [m \in 1..Len(marks) |-> HeightAt(PositionOf(marks[m][1]), marks[m][2])] = Hts
BY DEF Con, Hts, Contents, Heights, AtIn, At, Height, PlaceIn, PositionOf

LEMMA ConWas ==
  /\ [h \in 1..Height |-> At(h)]' = Con'
  /\ [m \in 1..Len(marks) |-> HeightAt(PositionOf(marks[m][1]), marks[m][2])]' = Hts'
BY DEF Con, Hts, Contents, Heights, AtIn, At, Height, PlaceIn, PositionOf

\* The state, as Lifo sees it.
LEMMA Seen ==
  ASSUME StackSound
  PROVE  /\ Con \in Seq(StackValues) /\ Len(Con) = Height /\ Height \in Nat
         /\ Hts \in Seq(Nat) /\ Len(Hts) = Len(marks) /\ Len(marks) \in Nat
         /\ marks = <<>> <=> Hts = <<>>
         /\ marks # <<>> => /\ Hts[Len(Hts)] = HeightAt(PositionOf(Mark[1]), Mark[2])
                            /\ Hts[Len(Hts)] = Height - Above
         /\ Abstract!Spare = Above
<1>1. Con \in Seq(StackValues) /\ Len(Con) = Height /\ Height \in Nat
  BY SoundIs, ContentsSeq DEF Con, Height
<1>2. Hts \in Seq(Nat) /\ Len(Hts) = Len(marks) /\ Len(marks) \in Nat
  BY SoundIs, HeightsSeq DEF Hts, Placed
<1>3. marks = <<>> <=> Hts = <<>>
  <2>1. Len(marks) = 0 <=> marks = <<>>
    BY SoundIs, EmptySeq DEF MarksType
  <2>2. Len(Hts) = 0 <=> Hts = <<>>
    BY <1>2, EmptySeq
  <2> QED BY <1>2, <2>1, <2>2
<1>4. marks # <<>> => Hts[Len(Hts)] = HeightAt(PositionOf(Mark[1]), Mark[2])
  <2>1. marks # <<>> => Len(marks) \in 1..Len(marks)
    BY MarkPlace
  <2> QED BY <1>2, <2>1 DEF Hts, Heights, PlaceIn, PositionOf, Mark
<1>5. Abstract!Spare = Len(Con) - (IF Hts = <<>> THEN 0 ELSE Hts[Len(Hts)])
  <2>1. ASSUME NEW cs, cs = [h \in 1..Height |-> At(h)],
               NEW hs, hs = [m \in 1..Len(marks) |-> HeightAt(PositionOf(marks[m][1]), marks[m][2])]
        PROVE  Abstract!Spare = Len(cs) - (IF hs = <<>> THEN 0 ELSE hs[Len(hs)])
    BY <2>1 DEF Abstract!Spare
  <2> QED BY <2>1, ConIs, Zenon
<1>6. Above \in Int /\ (marks = <<>> => Above = Height)
      /\ (marks # <<>> => Hts[Len(Hts)] = Height - Above)
  BY <1>4, AboveMark DEF Above
<1>7. Abstract!Spare = Above
  <2>1. CASE marks = <<>>
    <3>1. Abstract!Spare = Height - 0
      BY <1>1, <1>3, <1>5, <2>1
    <3> QED BY <1>1, <1>6, <2>1, <3>1
  <2>2. CASE marks # <<>>
    <3>1. Abstract!Spare = Height - (Height - Above)
      BY <1>1, <1>3, <1>5, <1>6, <2>2
    <3> QED BY <1>1, <1>6, <3>1
  <2> QED BY <2>1, <2>2
<1> QED BY <1>1, <1>2, <1>3, <1>4, <1>6, <1>7

\* Marks whose chunks stay keep their heights.
LEMMA KeptHeights ==
  ASSUME StackSound, ChainOK(chain'), marks' = marks, NEW k \in 1..Len(chain), k <= Len(chain'),
         \A p \in 1..k : chain'[p] = chain[p],
         \A m \in 1..Len(marks) : \E p \in 1..k : chain[p] = marks[m][1]
  PROVE  Hts' = Hts
<1>1. Heights(chain', marks) = Heights(chain, marks)
  <2>1. PICK next : next = chain'
    OBVIOUS
  <2>2. ChainOK(chain) /\ marks \in MarksType /\ k \in Nat /\ k <= Len(chain)
    BY SoundIs, ChainLength
  <2>3. Heights(chain, marks) = Heights(next, marks)
    BY <2>1, <2>2, SameHeights
  <2> QED BY <2>1, <2>3
<1> QED BY <1>1 DEF Hts

LEMMA PushLifo ==
  ASSUME StackSound, NEW v \in StackValues, Push(v)
  PROVE  Abstract!Push(v)
<1>1. /\ ChainOK(chain) /\ SaveOK(chain, save) /\ elements \in ElementsType
      /\ top \in 0..EntriesPerChunk /\ Placed(chain, top, marks) /\ Len(chain) \in 1..Len(chain)
  BY SoundIs, ChainLength
<1>2. Height < MaxHeight /\ StackPush(chain, top, save, v) /\ returned' = v /\ marks' = marks
  BY DEF Push
<1>3. /\ Con' = Append(Con, v) /\ ChainOK(chain') /\ Len(chain) <= Len(chain')
      /\ \A p \in 1..Len(chain) : chain'[p] = chain[p]
  BY <1>1, <1>2, PushContents DEF Con
<1>4. Hts' = Hts
  BY <1>1, <1>2, <1>3, KeptHeights DEF Placed
<1>5. Len(Con) < MaxHeight
  BY <1>2, Seen
<1> QED BY <1>2, <1>3, <1>4, <1>5, ConIs, ConWas, Zenon DEF Abstract!Push

\* The chunks above a place are left: the values up to there stay.
LEMMA CutSeen ==
  ASSUME StackSound, NEW keep \in 1..Len(chain), Cut(keep), top' \in 0..EntriesPerChunk,
         HeightAt(keep, top') <= Height
  PROVE  Con' = SubSeq(Con, 1, HeightAt(keep, top'))
<1>1. /\ ChainOK(chain) /\ elements \in ElementsType /\ top \in 0..EntriesPerChunk
      /\ ChainOK(SubSeq(chain, 1, keep)) /\ Len(SubSeq(chain, 1, keep)) = keep
  BY SoundIs, SubChain
<1>2. chain' = SubSeq(chain, 1, keep) /\ elements' = Held(SubSeq(chain, 1, keep))
  BY DEF Cut
<1>3. Held(SubSeq(chain, 1, keep)) \in ElementsType
  BY <1>1, HeldType
<1>4. SameElements(SubSeq(chain, 1, keep), elements, Held(SubSeq(chain, 1, keep)))
  BY <1>1, ChainLength DEF SameElements, Held
<1>5. PICK low \in 0..EntriesPerChunk : low = top'
  OBVIOUS
<1>6. Contents(SubSeq(chain, 1, keep), Held(SubSeq(chain, 1, keep)), low)
        = SubSeq(Contents(chain, elements, top), 1, HeightAt(keep, low))
  <2>1. HeightAt(keep, low) <= HeightAt(Len(chain), top)
    BY <1>5 DEF Height
  <2> QED BY <1>1, <1>3, <1>4, <2>1, CutContents
<1> QED BY <1>2, <1>5, <1>6 DEF Con

\* The top goes i values lower, not below the innermost mark.
LEMMA LowerLifo ==
  ASSUME StackSound, NEW keep \in 1..Len(chain), Cut(keep), top' \in 1..EntriesPerChunk,
         NEW i \in Nat, i <= Above, HeightAt(keep, top') = Height - i, marks' = marks
  PROVE  Con' = SubSeq(Con, 1, Len(Con) - i) /\ Hts' = Hts
<1>1. top' \in 0..EntriesPerChunk
  BY StackConstants
<1>2. Height \in Nat /\ Len(Con) = Height
  BY Seen
<1>3. HeightAt(keep, top') <= Height
  BY <1>2
<1>4. Con' = SubSeq(Con, 1, Len(Con) - i)
  BY <1>1, <1>2, <1>3, CutSeen
<1>5. StackSound'
  BY LowerSound
<1>6. ChainOK(chain') /\ Placed(chain', top', marks')
  BY <1>5 DEF StackSound, StackTypeOK, MarksStay, ChainOK, Placed
<1>7. chain' = SubSeq(chain, 1, keep) /\ Len(chain') = keep /\ \A p \in 1..keep : chain'[p] = chain[p]
  BY SoundIs, SubChain DEF Cut
<1>8. \A m \in 1..Len(marks) : \E p \in 1..keep : chain[p] = marks[m][1]
  BY <1>6, <1>7 DEF Placed
<1>9. keep <= Len(chain')
  BY <1>7
<1>10. Hts' = Hts
  BY <1>6, <1>7, <1>8, <1>9, KeptHeights
<1> QED BY <1>4, <1>10

LEMMA DropLifo ==
  ASSUME StackSound, NEW i \in Nat \ {0}, StackDrop(i)
  PROVE  Abstract!Drop(i)
<1>1. PICK keep \in 1..Len(chain) : Cut(keep) /\ HeightAt(keep, top') = Height - i
  BY DropPlace
<1>2. i <= Above /\ marks' = marks /\ top' \in 1..EntriesPerChunk /\ i \in Nat
  BY DropPlace
<1>3. Con' = SubSeq(Con, 1, Len(Con) - i) /\ Hts' = Hts
  BY <1>1, <1>2, LowerLifo
<1>4. returned' = Nothing /\ i <= Abstract!Spare
  BY <1>2, Seen DEF StackDrop
<1>5. Abstract!Nothing = Nothing
  BY DEF Nothing, Abstract!Nothing
<1> QED BY <1>3, <1>4, <1>5, ConIs, ConWas, Zenon DEF Abstract!Drop, Abstract!Without

\* The value at a place of the chain is that of its height.
LEMMA PlaceSeen ==
  ASSUME StackSound, NEW p \in 1..Len(chain), NEW o \in Offsets, HeightAt(p, o) <= Height
  PROVE  Con[HeightAt(p, o)] = elements[chain[p]][o]
<1>1. Len(chain) \in Nat \ {0}
  BY SoundIs, ChainLength
<1>2. p \in Nat \ {0}
  BY <1>1
<1>3. /\ HeightAt(p, o) \in Nat \ {0}
      /\ (HeightAt(p, o) - 1) \div EntriesPerChunk + 1 = p
      /\ EntriesPerChunk - 1 - ((HeightAt(p, o) - 1) % EntriesPerChunk) = o
  BY <1>2, TopPlace
<1>4. AtIn(chain, elements, HeightAt(p, o)) = elements[chain[p]][o]
  BY <1>3, Zenon DEF AtIn
<1>5. Height \in Nat /\ Height = HeightAt(Len(chain), top)
  BY Seen DEF Height
<1>6. PICK h : h = HeightAt(p, o)
  OBVIOUS
<1>7. h \in 1..HeightAt(Len(chain), top)
  BY <1>3, <1>5, <1>6
<1>8. Con[h] = AtIn(chain, elements, h)
  BY <1>7 DEF Con, Contents
<1> QED BY <1>4, <1>6, <1>8

LEMMA PopLifo ==
  ASSUME StackSound, StackPop
  PROVE  Abstract!Pop
<1>1. /\ Len(chain) \in Nat \ {0} /\ top \in 0..EntriesPerChunk /\ EntriesPerChunk \in Nat \ {0}
      /\ SubSeq(chain, 1, Len(chain)) = chain /\ Len(chain) \in 1..Len(chain)
  BY SoundIs, ChainLength, SubSeqFull, StackConstants DEF ChainOK
<1>2. /\ Above \in Int /\ 1 <= Above /\ marks' = marks /\ top' \in 1..EntriesPerChunk
      /\ Height \in Nat /\ Len(Con) = Height /\ Abstract!Spare > 0
  <2>1. Above \in Int /\ 1 <= Above
    BY PopPlace
  <2>2. Abstract!Spare > 0
    BY <2>1, Seen
  <2> QED BY <2>1, <2>2, PopPlace, Seen
<1>3. Con' = SubSeq(Con, 1, Len(Con) - 1) /\ Hts' = Hts /\ returned' = Con[Len(Con)]
  <2>1. CASE top = EntriesPerChunk
    <3>1. /\ Len(chain) - 1 \in 1..Len(chain) /\ Cut(Len(chain) - 1)
          /\ HeightAt(Len(chain) - 1, top') = Height - 1
      BY <2>1, PopPlace
    <3>2. Con' = SubSeq(Con, 1, Len(Con) - 1) /\ Hts' = Hts
      BY <1>2, <3>1, LowerLifo
    <3>3. returned' = elements[chain[Len(chain) - 1]][0]
      BY <2>1 DEF StackPop
    <3>4. 0 \in Offsets
      BY <1>1 DEF Offsets
    <3>5. HeightAt(Len(chain) - 1, 0) = Height
      <4>1. Height = (Len(chain) - 1) * EntriesPerChunk
        BY <1>1, <2>1, SMT DEF Height, HeightAt
      <4>2. HeightAt(Len(chain) - 1, 0) = (Len(chain) - 1 - 1) * EntriesPerChunk + (EntriesPerChunk - 0)
        BY DEF HeightAt
      <4>3. \A n \in Nat : (n - 1) * EntriesPerChunk + (EntriesPerChunk - 0) = n * EntriesPerChunk
        BY <1>1, SMT
      <4>4. Len(chain) - 1 \in Nat
        BY <1>1
      <4> QED BY <4>1, <4>2, <4>3, <4>4
    <3>6. HeightAt(Len(chain) - 1, 0) <= Height
      BY <1>2, <3>5
    <3>7. Con[HeightAt(Len(chain) - 1, 0)] = elements[chain[Len(chain) - 1]][0]
      BY <3>1, <3>4, <3>6, PlaceSeen
    <3> QED BY <1>2, <3>2, <3>3, <3>5, <3>7
  <2>2. CASE top # EntriesPerChunk
    <3>1. /\ chain' = chain /\ elements' = elements /\ HeightAt(Len(chain), top') = Height - 1
      BY <2>2, PopPlace
    <3>2. PICK low \in 0..EntriesPerChunk : low = top'
      BY <1>1, <1>2
    <3>3. Con' = SubSeq(Con, 1, Len(Con) - 1)
      <4>1. HeightAt(Len(chain), low) <= HeightAt(Len(chain), top)
        BY <1>2, <3>1, <3>2 DEF Height
      <4>2. SameElements(SubSeq(chain, 1, Len(chain)), elements, elements)
        BY <1>1 DEF SameElements
      <4>3. ChainOK(chain) /\ elements \in ElementsType
        BY SoundIs
      <4>4. Contents(SubSeq(chain, 1, Len(chain)), elements, low)
              = SubSeq(Contents(chain, elements, top), 1, HeightAt(Len(chain), low))
        BY <1>1, <4>1, <4>2, <4>3, CutContents
      <4>5. Con' = Contents(chain, elements, low)
        BY <3>1, <3>2 DEF Con
      <4> QED BY <1>1, <1>2, <3>1, <3>2, <4>4, <4>5 DEF Con
    <3>4. Hts' = Hts
      BY <1>2, <3>1 DEF Hts
    <3>5. returned' = elements[chain[Len(chain)]][top] /\ top \in Offsets
      BY <1>1, <2>2 DEF StackPop, Current, Offsets
    <3>6. HeightAt(Len(chain), top) = Height /\ Height <= Height
      BY <1>2 DEF Height
    <3> QED BY <1>1, <1>2, <3>3, <3>4, <3>5, <3>6, PlaceSeen
  <2> QED BY <2>1, <2>2
<1> QED BY <1>2, <1>3, ConIs, ConWas, Zenon DEF Abstract!Pop, Abstract!Without

LEMMA EltLifo ==
  ASSUME StackSound, NEW i \in Nat, StackElt(i)
  PROVE  Abstract!Elt(i)
<1> DEFINE E == EntriesPerChunk
           L == Len(chain)
<1>1. L \in Nat \ {0} /\ L \in 1..L /\ top \in 0..E /\ E \in Nat \ {0}
  BY SoundIs, ChainLength, StackConstants
<1>2. Height \in Nat /\ Len(Con) = Height /\ i < Height
  BY Seen DEF StackElt
<1>3. Height = (L - 1) * E + (E - top) /\ (L - 1) * E \in Int
  BY <1>1, SMT DEF Height, HeightAt
<1>4. chain' = chain /\ elements' = elements /\ top' = top /\ marks' = marks
  BY DEF StackElt
<1>5. returned' = Con[Len(Con) - i]
  <2>1. CASE top + i < E
    <3>1. returned' = elements[chain[L]][top + i] /\ top + i \in Offsets
      BY <1>1, <2>1 DEF StackElt, Current, Offsets
    <3>2. HeightAt(L, top + i) = Height - i
      BY <1>1, <1>3 DEF HeightAt
    <3>3. Height - i <= Height
      BY <1>2
    <3> QED BY <1>1, <1>2, <3>1, <3>2, <3>3, PlaceSeen
  <2>2. CASE ~(top + i < E)
    <3> DEFINE j == i - (E - top)
    <3>1. returned' = elements[chain[L - 1 - j \div E]][j % E]
      BY <2>2 DEF StackElt
    <3>2. j \in Nat /\ j < (L - 1) * E /\ Height - i = (L - 1) * E - j
      BY <1>1, <1>2, <1>3, <2>2
    <3> HIDE DEF j
    <3>3. \A n \in Nat : /\ n \div E \in Nat /\ n % E \in 0..(E - 1)
                         /\ n = (n \div E) * E + (n % E)
      BY <1>1, SMT
    <3>4. PICK q \in Nat : q = j \div E
      BY <3>2, <3>3
    <3>5. PICK o \in 0..(E - 1) : o = j % E
      BY <3>2, <3>3
    <3>6. j = q * E + o /\ q * E \in Int
      <4>1. j = (j \div E) * E + (j % E)
        BY <3>2, <3>3
      <4>2. j = q * E + o
        BY <3>4, <3>5, <4>1, Zenon
      <4>3. q * E \in Int
        BY <1>1, SMT
      <4> QED BY <4>2, <4>3
    <3>7. L - 1 - q \in 1..L
      <4>1. q >= L - 1 => q * E >= (L - 1) * E
        BY <1>1, SMT
      <4>2. q < L - 1
        BY <1>1, <1>3, <3>2, <3>6, <4>1
      <4> QED BY <1>1, <4>2
    <3>8. HeightAt(L - 1 - q, o) = Height - i
      <4>1. HeightAt(L - 1 - q, o) = (L - 1 - q - 1) * E + (E - o)
        BY DEF HeightAt
      <4>2. (L - 1 - q - 1) * E = (L - 1) * E - q * E - E
        BY <1>1, SMT
      <4>3. HeightAt(L - 1 - q, o) = (L - 1) * E - q * E - E + (E - o)
        BY <4>1, <4>2
      <4>4. PICK a \in Int : a = (L - 1) * E
        BY <1>3
      <4>5. PICK b \in Int : b = q * E
        BY <3>6
      <4>6. j = b + o /\ Height - i = a - j
        BY <3>2, <3>6, <4>4, <4>5
      <4>7. HeightAt(L - 1 - q, o) = a - b - E + (E - o)
        BY <4>3, <4>4, <4>5
      <4> QED BY <1>1, <3>2, <4>6, <4>7
    <3>9. o \in Offsets /\ Height - i <= Height
      BY <1>2 DEF Offsets
    <3>10. Con[HeightAt(L - 1 - q, o)] = elements[chain[L - 1 - q]][o]
      BY <3>7, <3>8, <3>9, PlaceSeen
    <3> QED BY <1>2, <3>1, <3>4, <3>5, <3>8, <3>10
  <2> QED BY <2>1, <2>2
<1>6. Con' = Con /\ Hts' = Hts
  BY <1>4 DEF Con, Hts
<1>7. i < Len(Con)
  BY <1>2
<1> QED BY <1>5, <1>6, <1>7, ConIs, ConWas, Zenon DEF Abstract!Elt

LEMMA EnterLifo ==
  ASSUME StackSound, Enter
  PROVE  Abstract!Enter
<1> DEFINE sp == <<Current, top>>
<1>1. /\ ChainOK(chain) /\ marks \in MarksType /\ Placed(chain, top, marks)
      /\ Len(chain) \in 1..Len(chain) /\ Len(chain) \in Nat
      /\ sp \in Chunks \X (0..EntriesPerChunk) /\ chain[Len(chain)] = Current
  BY SoundIs, ChainLength DEF Current
<1>2. /\ marks' = Append(marks, sp) /\ returned' = Nothing /\ chain' = chain /\ elements' = elements
      /\ top' = top
  BY DEF Enter
<1>3. /\ marks' \in MarksType /\ Len(marks') = Len(marks) + 1 /\ marks'[Len(marks) + 1] = sp
      /\ \A m \in 1..Len(marks) : marks'[m] = marks[m]
  <2> HIDE DEF sp
  <2> QED BY <1>1, <1>2, AppendProperties DEF MarksType
<1>4. Hts \in Seq(Nat) /\ Len(Hts) = Len(marks) /\ Len(marks) \in Nat /\ Len(Con) = Height /\ Height \in Nat
  BY Seen
<1>5. PlaceIn(chain, Current) = Len(chain)
  <2>1. \A p \in 1..Len(chain) : chain[p] = Current => p = Len(chain)
    BY <1>1 DEF ChainOK
  <2> QED BY <1>1, <2>1 DEF PlaceIn
<1>6. Hts' \in Seq(Nat) /\ Len(Hts') = Len(marks) + 1
  <2>1. PICK ms : ms = marks'
    OBVIOUS
  <2>2. \A m \in 1..Len(ms) : \E p \in 1..Len(chain) : chain[p] = ms[m][1]
    <3>1. \A m \in 1..Len(marks) : \E p \in 1..Len(chain) : chain[p] = marks[m][1]
      BY <1>1 DEF Placed
    <3>2. \A m \in 1..Len(ms) : m \in 1..Len(marks) \/ m = Len(marks) + 1
      BY <1>3, <1>4, <2>1
    <3>3. sp[1] = chain[Len(chain)]
      BY <1>1
    <3> QED BY <1>1, <1>3, <2>1, <3>1, <3>2, <3>3
  <2>3. Heights(chain, ms) \in Seq(Nat) /\ Len(Heights(chain, ms)) = Len(ms)
    BY <1>1, <1>3, <2>1, <2>2, HeightsSeq
  <2> QED BY <1>2, <1>3, <2>1, <2>3 DEF Hts
<1>7. \A m \in 1..(Len(marks) + 1) : Hts'[m] = HeightAt(PlaceIn(chain, marks'[m][1]), marks'[m][2])
  BY <1>2, <1>3 DEF Hts, Heights
<1>8. \A m \in 1..Len(marks) : m \in 1..(Len(marks) + 1) /\ Hts'[m] = Hts[m]
  <2>1. \A m \in 1..Len(marks) : m \in 1..(Len(marks) + 1)
    BY <1>4
  <2>2. \A m \in 1..Len(marks) : Hts[m] = HeightAt(PlaceIn(chain, marks[m][1]), marks[m][2])
    BY DEF Hts, Heights
  <2> QED BY <1>3, <1>7, <2>1, <2>2
<1>9. Hts'[Len(marks) + 1] = Height
  <2>1. Len(marks) + 1 \in 1..(Len(marks) + 1)
    BY <1>4
  <2>2. sp[1] = Current /\ sp[2] = top
    OBVIOUS
  <2> QED BY <1>3, <1>5, <1>7, <2>1, <2>2 DEF Height
<1>10. Hts' = Append(Hts, Len(Con))
  <2>1. /\ Append(Hts, Height) \in Seq(Nat) /\ Len(Append(Hts, Height)) = Len(marks) + 1
        /\ \A m \in 1..Len(marks) : Append(Hts, Height)[m] = Hts[m]
        /\ Append(Hts, Height)[Len(marks) + 1] = Height
    BY <1>4, AppendProperties
  <2>2. \A m \in 1..(Len(marks) + 1) : m \in 1..Len(marks) \/ m = Len(marks) + 1
    BY <1>4
  <2>3. \A m \in 1..(Len(marks) + 1) : Hts'[m] = Append(Hts, Height)[m]
    BY <1>8, <1>9, <2>1, <2>2
  <2>4. Hts' = Append(Hts, Height)
    BY <1>6, <2>1, <2>3, SeqEqual
  <2> QED BY <1>4, <2>4
<1>11. Con' = Con
  BY <1>2 DEF Con
<1>12. Abstract!Nothing = Nothing
  BY DEF Nothing, Abstract!Nothing
<1> QED BY <1>2, <1>10, <1>11, <1>12, ConIs, ConWas, Zenon DEF Abstract!Enter

\* The innermost mark is gone, and the chunks of the others are in the chain.
LEMMA LeftHeights ==
  ASSUME StackSound, marks # <<>>, marks' = Unmarked, ChainOK(chain'),
         NEW k \in 1..Len(chain), k <= Len(chain'), \A p \in 1..k : chain'[p] = chain[p],
         \A m \in 1..Len(Unmarked) : \E p \in 1..k : chain[p] = Unmarked[m][1]
  PROVE  Hts' = SubSeq(Hts, 1, Len(Hts) - 1)
<1>1. /\ ChainOK(chain) /\ marks \in MarksType /\ Len(chain) \in Nat
      /\ k \in Nat /\ k <= Len(chain)
  BY SoundIs, ChainLength
<1>2. /\ Unmarked \in MarksType /\ Len(Unmarked) = Len(marks) - 1
      /\ \A m \in 1..Len(Unmarked) : Unmarked[m] = marks[m] /\ m \in 1..Len(marks)
  BY <1>1, Outer
<1>3. Heights(chain', Unmarked) = Heights(chain, Unmarked)
  <2>1. PICK next : next = chain'
    OBVIOUS
  <2>2. Heights(chain, Unmarked) = Heights(next, Unmarked)
    BY <1>1, <1>2, <2>1, SameHeights
  <2> QED BY <2>1, <2>2
<1>4. Hts \in Seq(Nat) /\ Len(Hts) = Len(marks) /\ Len(marks) \in Nat \ {0}
  BY Seen, MarkPlace
<1>5. Heights(chain, Unmarked) \in Seq(Nat) /\ Len(Heights(chain, Unmarked)) = Len(Unmarked)
  <2>1. \A m \in 1..Len(Unmarked) : \E p \in 1..Len(chain) : chain[p] = Unmarked[m][1]
    BY <1>1
  <2> QED BY <1>1, <1>2, <2>1, HeightsSeq
<1>6. \A m \in 1..Len(Unmarked) : Heights(chain, Unmarked)[m] = Hts[m]
  <2>1. \A m \in 1..Len(Unmarked) :
          Heights(chain, Unmarked)[m] = HeightAt(PlaceIn(chain, Unmarked[m][1]), Unmarked[m][2])
    BY DEF Heights
  <2>2. \A m \in 1..Len(marks) : Hts[m] = HeightAt(PlaceIn(chain, marks[m][1]), marks[m][2])
    BY DEF Hts, Heights
  <2> QED BY <1>2, <2>1, <2>2
<1>7. PICK n \in Nat : n = Len(Hts) - 1 /\ n = Len(Unmarked)
  BY <1>2, <1>4
<1>8. /\ SubSeq(Hts, 1, n) \in Seq(Nat) /\ Len(SubSeq(Hts, 1, n)) = n
      /\ \A m \in 1..n : SubSeq(Hts, 1, n)[m] = Hts[m]
  <2>1. \A m \in 1..n : Hts[m] \in Nat
    <3>1. \A m \in 1..n : m \in 1..Len(Hts)
      BY <1>4, <1>7
    <3> QED BY <1>4, <3>1, ElementOfSeq
  <2>2. /\ SubSeq(Hts, 1, n) \in Seq(Nat)
        /\ Len(SubSeq(Hts, 1, n)) = IF 1 <= n THEN n - 1 + 1 ELSE 0
        /\ \A i \in 1..(n - 1 + 1) : SubSeq(Hts, 1, n)[i] = Hts[1 + i - 1]
    BY <2>1, SubSeqProperties
  <2> QED BY <2>2
<1>9. Heights(chain, Unmarked) = SubSeq(Hts, 1, n)
  BY <1>5, <1>6, <1>7, <1>8, SeqEqual
<1> QED BY <1>3, <1>7, <1>9 DEF Hts

\* The place of the innermost mark.
LEMMA MarkSeen ==
  ASSUME StackSound, marks # <<>>, NEW keep \in Stops(Mark)
  PROVE  /\ keep \in 1..Len(chain) /\ Mark[2] \in 0..EntriesPerChunk
         /\ HeightAt(keep, Mark[2]) = Hts[Len(Hts)] /\ HeightAt(keep, Mark[2]) <= Height
         /\ Placed(SubSeq(chain, 1, keep), Mark[2], Unmarked)
         /\ \A m \in 1..Len(Unmarked) : \E p \in 1..keep : chain[p] = Unmarked[m][1]
<1>1. /\ keep \in 1..Len(chain) /\ chain[keep] = Mark[1] /\ (keep = Len(chain) => top <= Mark[2])
      /\ ChainOK(chain) /\ Len(chain) \in Nat \ {0} /\ top \in 0..EntriesPerChunk
  BY SoundIs, ChainLength DEF Stops
<1>2. /\ Mark[2] \in 0..EntriesPerChunk
      /\ Placed(SubSeq(chain, 1, keep), Mark[2], Unmarked)
  BY ResetPlaced
<1>3. PositionOf(Mark[1]) = keep
  BY <1>1 DEF PositionOf, ChainOK
<1>4. HeightAt(keep, Mark[2]) = Hts[Len(Hts)]
  BY <1>3, Seen
<1>5. HeightAt(keep, Mark[2]) <= HeightAt(Len(chain), top)
  <2>1. keep \in Nat \ {0} /\ (keep < Len(chain) \/ (keep = Len(chain) /\ top <= Mark[2]))
    BY <1>1
  <2> QED BY <1>1, <1>2, <2>1, Higher
<1>6. \A m \in 1..Len(Unmarked) : \E p \in 1..keep : chain[p] = Unmarked[m][1]
  <2>1. Len(SubSeq(chain, 1, keep)) = keep /\ \A p \in 1..keep : SubSeq(chain, 1, keep)[p] = chain[p]
    BY <1>1, SubChain
  <2> QED BY <1>2, <2>1 DEF Placed
<1> QED BY <1>1, <1>2, <1>4, <1>5, <1>6 DEF Height

LEMMA ResetLifo ==
  ASSUME StackSound, StackReset
  PROVE  Abstract!Leave(StackValues)
<1>1. PICK keep \in Stops(Mark) : Cut(keep)
  BY DEF StackReset
<1>2. marks # <<>> /\ top' = Mark[2] /\ marks' = Unmarked /\ returned' = Nothing
  BY DEF StackReset
<1>3. keep \in 1..Len(chain) /\ ChainOK(chain) /\ keep \in Nat
  BY <1>2, MarkSeen, SoundIs
<1>4. /\ ChainOK(chain') /\ Len(chain') = keep /\ \A p \in 1..keep : chain'[p] = chain[p]
  BY <1>1, <1>3, SubChain DEF Cut
<1>5. Con' = SubSeq(Con, 1, Hts[Len(Hts)])
  <2>1. /\ top' \in 0..EntriesPerChunk /\ HeightAt(keep, top') <= Height
        /\ HeightAt(keep, top') = Hts[Len(Hts)]
    BY <1>2, MarkSeen
  <2>2. Con' = SubSeq(Con, 1, HeightAt(keep, top'))
    BY <1>1, <1>3, <2>1, CutSeen
  <2> QED BY <2>1, <2>2
<1>6. Hts' = SubSeq(Hts, 1, Len(Hts) - 1)
  <2>1. keep <= Len(chain')
    BY <1>3, <1>4
  <2> QED BY <1>2, <1>3, <1>4, <2>1, MarkSeen, LeftHeights
<1>7. Hts # <<>>
  BY <1>2, Seen
<1>8. Abstract!Nothing = Nothing
  BY DEF Nothing, Abstract!Nothing
<1> QED BY <1>2, <1>5, <1>6, <1>7, <1>8, ConIs, ConWas, Zenon DEF Abstract!Leave

LEMMA ReturnLifo ==
  ASSUME StackSound, NEW v \in StackValues, StackReturn(v)
  PROVE  Abstract!Leave(StackValues)
<1> DEFINE saved(keep) == IF keep < Len(chain) /\ save = NoChunk THEN Current ELSE save
<1>1. PICK keep \in Stops(Mark) : StackPush(SubSeq(chain, 1, keep), Mark[2], saved(keep), v)
  BY DEF StackReturn
<1>2. marks # <<>> /\ marks' = Unmarked /\ returned' = v
  BY DEF StackReturn
<1>3. /\ keep \in 1..Len(chain) /\ keep \in Nat /\ ChainOK(chain) /\ elements \in ElementsType
      /\ Mark[2] \in 0..EntriesPerChunk /\ top \in 0..EntriesPerChunk
  BY <1>2, MarkSeen, SoundIs
<1>4. PICK base : base = SubSeq(chain, 1, keep)
  OBVIOUS
<1>5. /\ ChainOK(base) /\ Len(base) = keep /\ \A p \in 1..keep : base[p] = chain[p]
      /\ SaveOK(base, saved(keep))
  BY <1>3, <1>4, SubChain, CutSave
<1>6. /\ Contents(chain', elements', top') = Append(Contents(base, elements, Mark[2]), v)
      /\ ChainOK(chain') /\ Len(base) <= Len(chain') /\ \A p \in 1..Len(base) : chain'[p] = base[p]
  <2> HIDE DEF saved
  <2> QED BY <1>1, <1>3, <1>4, <1>5, PushContents
<1>7. Contents(base, elements, Mark[2]) = SubSeq(Con, 1, Hts[Len(Hts)])
  <2>1. HeightAt(keep, Mark[2]) = Hts[Len(Hts)] /\ HeightAt(keep, Mark[2]) <= HeightAt(Len(chain), top)
    BY <1>2, MarkSeen DEF Height
  <2>2. SameElements(SubSeq(chain, 1, keep), elements, elements)
    BY DEF SameElements
  <2>3. Contents(SubSeq(chain, 1, keep), elements, Mark[2])
          = SubSeq(Contents(chain, elements, top), 1, HeightAt(keep, Mark[2]))
    BY <1>3, <2>1, <2>2, CutContents
  <2> QED BY <1>4, <2>1, <2>3 DEF Con
<1>8. Con' = Append(SubSeq(Con, 1, Hts[Len(Hts)]), v)
  BY <1>6, <1>7 DEF Con
<1>9. Hts' = SubSeq(Hts, 1, Len(Hts) - 1)
  <2>1. keep <= Len(chain') /\ \A p \in 1..keep : chain'[p] = chain[p]
    BY <1>5, <1>6
  <2> QED BY <1>2, <1>3, <1>6, <2>1, MarkSeen, LeftHeights
<1>10. Hts # <<>>
  BY <1>2, Seen
<1> QED BY <1>2, <1>8, <1>9, <1>10, ConIs, ConWas, Zenon DEF Abstract!Leave

LEMMA ForgetLifo ==
  ASSUME StackSound, Forget
  PROVE  Abstract!Leave(StackValues)
<1>1. /\ marks # <<>> /\ marks' = Unmarked /\ returned' = Nothing
      /\ chain' = chain /\ elements' = elements /\ top' = top
  BY DEF Forget
<1>2. /\ ChainOK(chain) /\ Placed(chain, top, marks) /\ marks \in MarksType
      /\ Len(chain) \in 1..Len(chain) /\ Len(chain) <= Len(chain)
  BY SoundIs, ChainLength
<1>3. \A m \in 1..Len(Unmarked) : Unmarked[m] = marks[m] /\ m \in 1..Len(marks)
  BY <1>1, <1>2, Outer
<1>4. \A m \in 1..Len(Unmarked) : \E p \in 1..Len(chain) : chain[p] = Unmarked[m][1]
  BY <1>2, <1>3 DEF Placed
<1>5. Hts' = SubSeq(Hts, 1, Len(Hts) - 1)
  <2>1. ChainOK(chain') /\ Len(chain) <= Len(chain') /\ \A p \in 1..Len(chain) : chain'[p] = chain[p]
    BY <1>1, <1>2
  <2> QED BY <1>1, <1>2, <1>4, <2>1, LeftHeights
<1>6. Hts # <<>> /\ Con' = Con
  BY <1>1, Seen DEF Con
<1>7. Abstract!Nothing = Nothing
  BY DEF Nothing, Abstract!Nothing
<1> QED BY <1>1, <1>5, <1>6, <1>7, ConIs, ConWas, Zenon DEF Abstract!Leave

LEMMA CopyLifo ==
  ASSUME StackSound, StackCopy
  PROVE  Abstract!Copy
<1>1. /\ ChainOK(chain) /\ elements \in ElementsType /\ top \in 0..EntriesPerChunk
      /\ Len(chain) \in Nat \ {0} /\ \A p \in 1..Len(chain) : chain[p] \in Chunks
  BY SoundIs, ChainLength
<1>2. PICK new \in [1..Len(chain) -> Chunks \ {chain[p] : p \in 1..Len(chain)}] :
        /\ \A p, q \in 1..Len(chain) : p # q => new[p] # new[q]
        /\ chain' = new
        /\ elements' = [c \in Chunks |->
                          IF \E p \in 1..Len(chain) : new[p] = c
                          THEN elements[chain[CHOOSE p \in 1..Len(chain) : new[p] = c]]
                          ELSE Junk]
  BY DEF StackCopy
<1>3. marks = <<>> /\ returned' = Nothing /\ top' = top /\ marks' = marks
  BY DEF StackCopy
<1>4. new \in Seq(Chunks) /\ Len(new) = Len(chain) /\ \A p \in 1..Len(chain) : new[p] \in Chunks
  BY <1>1, <1>2
<1>5. \A p \in 1..Len(chain) : elements'[new[p]] = elements[chain[p]]
  <2>1. SUFFICES ASSUME NEW p \in 1..Len(chain)  PROVE elements'[new[p]] = elements[chain[p]]
    OBVIOUS
  <2>2. (CHOOSE q \in 1..Len(chain) : new[q] = new[p]) = p
    BY <1>2
  <2> QED BY <1>2, <1>4, <2>2
<1>6. Con' = Con
  <2>1. \A h \in 1..HeightAt(Len(chain), top) : AtIn(new, elements', h) = AtIn(chain, elements, h)
    <3>1. SUFFICES ASSUME NEW h \in 1..HeightAt(Len(chain), top)
                   PROVE  AtIn(new, elements', h) = AtIn(chain, elements, h)
      OBVIOUS
    <3>2. PICK p : p = (h - 1) \div EntriesPerChunk + 1
      OBVIOUS
    <3>3. p \in 1..Len(chain)
      BY <1>1, <3>2, Where
    <3>4. elements'[new[p]] = elements[chain[p]]
      BY <1>5, <3>3
    <3> QED BY <3>2, <3>4 DEF AtIn
  <2>2. Contents(new, elements', top) = Contents(chain, elements, top)
    BY <1>4, <2>1 DEF Contents
  <2> QED BY <1>2, <1>3, <2>2 DEF Con
<1>7. Hts = <<>>
  BY <1>3, Seen
<1>8. Hts' = Hts
  <2>1. Len(marks) = 0
    BY <1>3
  <2>2. Heights(chain', marks) = Heights(chain, marks)
    BY <2>1 DEF Heights
  <2> QED BY <1>3, <2>2 DEF Hts
<1>9. Abstract!Nothing = Nothing
  BY DEF Nothing, Abstract!Nothing
<1> QED BY <1>3, <1>6, <1>7, <1>8, <1>9, ConIs, ConWas, Zenon DEF Abstract!Copy

LEMMA InitLifo ==
  ASSUME StackInit
  PROVE  Abstract!LifoInit
<1>1. PICK c \in Chunks : chain = <<c>>
  BY DEF StackInit
<1>2. Len(chain) = 1 /\ top = EntriesPerChunk /\ marks = <<>> /\ returned = Nothing
  BY <1>1 DEF StackInit
<1>3. StackSound
  BY InitSound
<1>4. Con = <<>>
  <2>1. Height = 0
    BY <1>2, StackConstants DEF Height, HeightAt
  <2>2. Con \in Seq(StackValues) /\ Len(Con) = 0
    BY <1>3, <2>1, Seen
  <2> QED BY <2>2, EmptySeq
<1>5. Hts = <<>>
  BY <1>2, <1>3, Seen
<1>6. Abstract!Nothing = Nothing
  BY DEF Nothing, Abstract!Nothing
<1> QED BY <1>2, <1>4, <1>5, <1>6, ConIs, Zenon DEF Abstract!LifoInit

LEMMA StepLifo ==
  ASSUME StackSound, [StackNext]_stackVars
  PROVE  [Abstract!LifoNext]_Abstract!lifoVars
<1>1. ASSUME NEW v \in StackValues, Push(v)  PROVE Abstract!LifoNext
  BY <1>1, PushLifo DEF Abstract!LifoNext
<1>2. ASSUME NEW v \in StackValues, StackReturn(v)  PROVE Abstract!LifoNext
  BY <1>2, ReturnLifo DEF Abstract!LifoNext
<1>3. ASSUME NEW i \in 1..MaxHeight, StackDrop(i)  PROVE Abstract!LifoNext
  <2>1. Abstract!Drop(i)
    BY <1>3, DropLifo, StackConstants
  <2> QED BY <2>1 DEF Abstract!LifoNext
<1>4. ASSUME NEW i \in 1..MaxHeight, StackElt(i - 1)  PROVE Abstract!LifoNext
  <2>1. Abstract!Elt(i - 1)
    <3>1. i - 1 \in Nat
      BY StackConstants
    <3> QED BY <1>4, <3>1, EltLifo
  <2> QED BY <2>1 DEF Abstract!LifoNext
<1>5. CASE StackPop
  BY <1>5, PopLifo DEF Abstract!LifoNext
<1>6. CASE Enter
  BY <1>6, EnterLifo DEF Abstract!LifoNext
<1>7. CASE StackReset
  BY <1>7, ResetLifo DEF Abstract!LifoNext
<1>8. CASE Forget
  BY <1>8, ForgetLifo DEF Abstract!LifoNext
<1>9. CASE StackCopy
  BY <1>9, CopyLifo DEF Abstract!LifoNext
<1>10. CASE UNCHANGED stackVars
  <2>1. Con' = Con /\ Hts' = Hts /\ returned' = returned
    BY <1>10 DEF stackVars, Con, Hts
  <2> QED BY <2>1, ConIs, ConWas, Zenon DEF Abstract!lifoVars
<1> QED BY <1>1, <1>2, <1>3, <1>4, <1>5, <1>6, <1>7, <1>8, <1>9, <1>10 DEF StackNext

\* The chunks implement the stack of values that stack.h promises, for chunks of any size: what
\* every operation returns, and what it leaves, is what it is for a sequence of values.
THEOREM StackIsLifo == StackSpec => ImplementsLifo
<1>1. StackInit => Abstract!LifoInit
  BY InitLifo
<1>2. StackSound /\ [StackNext]_stackVars => [Abstract!LifoNext]_Abstract!lifoVars
  BY StepLifo
<1> QED BY <1>1, <1>2, StackStaysSound, PTL DEF StackSpec, ImplementsLifo, Abstract!LifoSpec

=============================================================================
