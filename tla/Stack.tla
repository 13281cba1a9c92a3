-------------------------------- MODULE Stack -------------------------------
(***************************************************************************)
(* The stack of stack.c: chunks of EntriesPerChunk elements linked through *)
(* previous, filled from their high end to their low end, and one chunk    *)
(* kept back in save. A stack pointer is an address: a chunk and an offset *)
(* in it, from 0 (CHUNK_MIN, full) to EntriesPerChunk (CHUNK_MAX, empty).  *)
(*                                                                         *)
(* chain is the linked list, the current chunk last. A chunk that is in    *)
(* neither chain nor save is garbage, and its address is used again.       *)
(***************************************************************************)
EXTENDS Integers, Sequences

CONSTANTS EntriesPerChunk, Chunks, StackValues,
          NoChunk,                   \* a null save pointer
          MaxHeight, MaxMarks        \* bounds: values on the stack, nested ENTERs

ASSUME StackConstants ==
  /\ EntriesPerChunk \in Nat \ {0} /\ MaxHeight \in Nat /\ MaxMarks \in Nat
  /\ NoChunk \notin Chunks /\ StackValues # {}

VARIABLES chain, elements, top, save,
          marks,       \* the stack pointers that ENTER has saved, oldest first
          returned     \* what the last operation returned

stackVars == <<chain, elements, top, save, marks, returned>>

Offsets == 0 .. EntriesPerChunk - 1
Nothing == "nothing"

\* Values on the stack below the stack pointer <<c, off>> of the chunk at
\* position p of the chain: all chunks but the current one are full.
HeightAt(p, off) == (p - 1) * EntriesPerChunk + (EntriesPerChunk - off)
Height == HeightAt(Len(chain), top)

\* The value at height h, counted from the bottom.
At(h) == elements[chain[(h - 1) \div EntriesPerChunk + 1]]
                 [EntriesPerChunk - 1 - ((h - 1) % EntriesPerChunk)]

\* What a chunk that is not in the chain holds is overwritten before it is read.
Junk == [o \in Offsets |-> CHOOSE v \in StackValues : TRUE]
Held(base) == [c \in Chunks |-> IF \E p \in 1..Len(base) : base[p] = c THEN elements[c] ELSE Junk]

Current == chain[Len(chain)]

StackInit ==
  /\ \E c \in Chunks : chain = <<c>>
  /\ elements = [c \in Chunks |-> Junk]
  /\ top = EntriesPerChunk /\ save = NoChunk
  /\ marks = <<>> /\ returned = Nothing

\* Mutant: the first chunk that is left is not kept back but the last one.
Cut_SaveLast(keep) ==
  /\ chain' = SubSeq(chain, 1, keep) /\ elements' = Held(SubSeq(chain, 1, keep))
  /\ save' = IF keep < Len(chain) /\ save = NoChunk THEN chain[keep] ELSE save

\* The chunks above position keep are left; the first one is kept back if
\* there is no such chunk yet, the others become garbage.
Cut(keep) ==
  /\ chain' = SubSeq(chain, 1, keep) /\ elements' = Held(SubSeq(chain, 1, keep))
  /\ save' = IF keep < Len(chain) /\ save = NoChunk THEN Current ELSE save

\* addChunk, if the current chunk is full, then the store below the stack
\* pointer. The new chunk is the saved one, or any garbage address.
StackPush(base, off, saved, v) ==
  IF off > 0
  THEN /\ chain' = base /\ save' = saved /\ top' = off - 1
       /\ elements' = [Held(base) EXCEPT ![base[Len(base)]][off - 1] = v]
  ELSE \E c \in IF saved # NoChunk THEN {saved}
                ELSE Chunks \ {base[p] : p \in 1..Len(base)} :
         /\ chain' = Append(base, c) /\ save' = NoChunk
         /\ top' = EntriesPerChunk - 1
         /\ elements' = [Held(base) EXCEPT ![c][EntriesPerChunk - 1] = v]

Push(v) ==
  /\ Height < MaxHeight
  /\ StackPush(chain, top, save, v)
  /\ returned' = v /\ UNCHANGED marks

\* Values that the program may take off: those above the innermost mark.
PositionOf(c) == CHOOSE p \in 1..Len(chain) : chain[p] = c
Mark == marks[Len(marks)]
Above == IF marks = <<>> THEN Height
         ELSE Height - HeightAt(PositionOf(Mark[1]), Mark[2])

\* A chunk is left when the next value is wanted, not when its last one is taken.
StackPop ==
  /\ Above > 0
  /\ IF top = EntriesPerChunk
     THEN /\ Cut(Len(chain) - 1) /\ top' = 1
          /\ returned' = elements[chain[Len(chain) - 1]][0]
     ELSE /\ top' = top + 1 /\ UNCHANGED <<chain, save, elements>>
          /\ returned' = elements[Current][top]
  /\ UNCHANGED marks

\* Mutant: a drop that ends exactly at the end of a chunk goes on to the next.
StackDrop_Eager(i) ==
  /\ i <= Above
  /\ LET rest == i - (EntriesPerChunk - top)
         left == IF rest < 0 THEN 0 ELSE rest \div EntriesPerChunk + 1
     IN  /\ left < Len(chain)
         /\ Cut(Len(chain) - left)
         /\ top' = IF left = 0 THEN top + i ELSE rest - (left - 1) * EntriesPerChunk + 1
  /\ returned' = Nothing /\ UNCHANGED marks

\* The loop leaves a chunk as long as more is to be dropped than it holds.
StackDrop(i) ==
  /\ i <= Above
  /\ LET rest == i - (EntriesPerChunk - top)
         left == IF rest <= 0 THEN 0
                 ELSE (rest + EntriesPerChunk - 1) \div EntriesPerChunk
     IN  /\ Cut(Len(chain) - left)
         /\ top' = IF left = 0 THEN top + i ELSE rest - (left - 1) * EntriesPerChunk
  /\ returned' = Nothing /\ UNCHANGED marks

\* STACK_ELT: index i from the stack pointer, through the chunks below.
StackElt(i) ==
  /\ i < Height
  /\ returned' = IF top + i < EntriesPerChunk THEN elements[Current][top + i]
                 ELSE LET j == i - (EntriesPerChunk - top)
                          p == Len(chain) - 1 - j \div EntriesPerChunk
                      IN  elements[chain[p]][j % EntriesPerChunk]
  /\ UNCHANGED <<chain, elements, top, save, marks>>

\* The positions at which the walk of StackReset stops for the stack pointer
\* sp: in the current chunk it must not be above the top.
Stops(sp) == {p \in 1..Len(chain) :
                chain[p] = sp[1] /\ (p = Len(chain) => top <= sp[2])}

\* Without one the walk runs off the end of the chain: "Stack underflow".
ResetUnderflows == marks # <<>> /\ Stops(Mark) = {}

\* ENTER
Enter ==
  /\ Len(marks) < MaxMarks
  /\ marks' = Append(marks, <<Current, top>>)
  /\ returned' = Nothing /\ UNCHANGED <<chain, elements, top, save>>

Unmarked == SubSeq(marks, 1, Len(marks) - 1)

\* EXIT
StackReset ==
  /\ marks # <<>>
  /\ \E keep \in Stops(Mark) : Cut(keep)
  /\ top' = Mark[2] /\ marks' = Unmarked
  /\ returned' = Nothing

\* RETURN: reset and push of the result. The chunk that the reset kept back may
\* be the one the push needs.
StackReturn(v) ==
  /\ marks # <<>>
  /\ \E keep \in Stops(Mark) :
       StackPush(SubSeq(chain, 1, keep), Mark[2],
                 IF keep < Len(chain) /\ save = NoChunk THEN Current ELSE save, v)
  /\ marks' = Unmarked /\ returned' = v

\* A C function that returns without EXIT leaves its references to its caller.
Forget ==
  /\ marks # <<>>
  /\ marks' = Unmarked /\ returned' = Nothing
  /\ UNCHANGED <<chain, elements, top, save>>

\* StackCopy: new chunks with the same elements; the program goes on with the
\* copy, as longjmp does. Only stacks of threads are copied, which nobody marks.
StackCopy ==
  /\ marks = <<>>
  /\ \E new \in [1..Len(chain) -> Chunks \ {chain[p] : p \in 1..Len(chain)}] :
       /\ \A p, q \in 1..Len(chain) : p # q => new[p] # new[q]
       /\ chain' = new
       /\ elements' = [c \in Chunks |->
                         IF \E p \in 1..Len(chain) : new[p] = c
                         THEN elements[chain[CHOOSE p \in 1..Len(chain) : new[p] = c]]
                         ELSE Junk]
  /\ save' = NoChunk /\ returned' = Nothing /\ UNCHANGED <<top, marks>>

StackNext ==
  \/ \E v \in StackValues : Push(v) \/ StackReturn(v)
  \/ StackPop \/ Enter \/ StackReset \/ Forget \/ StackCopy
  \/ \E i \in 1..MaxHeight : StackDrop(i) \/ StackElt(i - 1)

StackSpec == StackInit /\ [][StackNext]_stackVars

-----------------------------------------------------------------------------
(* Properties *)

\* The types, and that the kept back chunk is not in use.
StackTypeOK ==
  /\ chain \in Seq(Chunks) /\ chain # <<>>
  /\ \A p, q \in 1..Len(chain) : chain[p] = chain[q] => p = q
  /\ elements \in [Chunks -> [Offsets -> StackValues]]
  /\ top \in 0..EntriesPerChunk
  /\ save \in Chunks \cup {NoChunk}
  /\ \A p \in 1..Len(chain) : chain[p] # save
  /\ marks \in Seq(Chunks \X (0..EntriesPerChunk))

\* Every stack pointer that ENTER has saved and nobody has returned to is still a
\* place in the stack, not above its top, and they are in order: however the
\* chunks were left, kept back and used again, EXIT finds its chunk ("Stack
\* underflow" is a panic).
MarksStay ==
  /\ \A m \in 1..Len(marks) : \E p \in 1..Len(chain) :
       chain[p] = marks[m][1] /\ (p = Len(chain) => top <= marks[m][2])
  /\ \A m, n \in 1..Len(marks) : \A p, q \in 1..Len(chain) :
       m < n /\ chain[p] = marks[m][1] /\ chain[q] = marks[n][1]
         => p < q \/ (p = q /\ marks[n][2] <= marks[m][2])

\* The chunks and the pointers into them are in order.
StackSound == StackTypeOK /\ MarksStay

Abstract == INSTANCE Lifo WITH
  Values <- StackValues,
  contents <- [h \in 1..Height |-> At(h)],
  heights <- [m \in 1..Len(marks) |-> HeightAt(PositionOf(marks[m][1]), marks[m][2])],
  result <- returned

\* The chunks, with stack pointers on a boundary at either of two addresses, are a
\* stack: all operations return and leave what they do for a sequence of values.
ImplementsLifo == Abstract!LifoSpec
=============================================================================
