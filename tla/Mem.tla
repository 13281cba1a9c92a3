--------------------------------- MODULE Mem --------------------------------
(***************************************************************************)
(* The storage allocator and collector of mem.c with what leans on it most:*)
(* MemStack, whose chunks come from the allocator themselves, the Mark and *)
(* Free functions of the types, and the caches of value.c that the         *)
(* collector empties.                                                      *)
(*                                                                         *)
(* A hunk is <<block, index>>. Cells, files and stack chunks are objects of*)
(* hunks of a size class; "huge" ones have a block each. Cells have one    *)
(* pointer, fld; in a free hunk it is the link of the free list. The mark  *)
(* bit lives within one call of MemCollect, which is one step.             *)
(*                                                                         *)
(* Nothing is allocated within it here. In the code FileFlush, which "may  *)
(* not allocate memory" (file.c:1180), may block, and FileSetBlocked then  *)
(* sets up IoTimeout, for which TimerInsert calls ALLOCATE: not modelled.  *)
(***************************************************************************)
EXTENDS Integers, Sequences, FiniteSets, Functions

CONSTANTS NumHunk,          \* [class |-> hunks of a block]
          MaxBlocks,        \* blocks that malloc has
          GarbageTime,      \* new blocks between collections
          ChunkEntries,     \* references in a chunk of MemStack
          MaxRefs, MaxEnters \* bounds: references on MemStack, nested ENTERs

ASSUME MemConstants ==
  /\ DOMAIN NumHunk = {"small", "large", "huge"} /\ NumHunk.huge = 1
  /\ \A c \in DOMAIN NumHunk : NumHunk[c] \in Nat \ {0}
  /\ MaxBlocks \in Nat \ {0} /\ GarbageTime \in Nat /\ ChunkEntries \in Nat \ {0}

VARIABLES heap,             \* the heap, a record: see HeapType
          enters            \* the stack pointers that ENTER saved, <<chunk, entries>>

memVars == <<heap, enters>>

Null == <<>>
Free == "0"       \* the type of a free hunk, a null pointer
Kinds == {"cell", "file", "chunk", "huge"}
Class(kind) == CASE kind = "chunk" -> "large" [] kind = "huge" -> "huge" [] OTHER -> "small"

MostHunks == CHOOSE n \in {NumHunk[c] : c \in DOMAIN NumHunk} :
               \A c \in DOMAIN NumHunk : NumHunk[c] <= n
Hunks == (1..MaxBlocks) \X (1..MostHunks)

\* blocks: the list of blocks, the newest first, class their classes. free: the
\* lists. chunks: the chunks of MemStack with their entries, save the one kept
\* back, temp the reference being pushed.
\* cache: an entry of a DataCache. unwritten: the files with output that the
\* system does not take now, blocked: those of them on the list fileBlocked.
HeapType ==
  [blocks : Seq(1..MaxBlocks), class : [1..MaxBlocks -> DOMAIN NumHunk],
   typ : [Hunks -> Kinds \cup {Free}], fld : [Hunks -> Hunks \cup {Null}],
   free : [{"small", "large"} -> Seq(Hunks)], sinceGarbage : 0..GarbageTime,
   chunks : Seq([at : Hunks, refs : Seq(Hunks)]), save : Hunks \cup {Null},
   temp : {Null}, cache : Hunks \cup {Null},
   unwritten : SUBSET Hunks, blocked : SUBSET Hunks, got : {Null}, panic : {FALSE}]

HunksOf(h, b) == [i \in 1 .. NumHunk[h.class[b]] |-> <<b, i>>]
InBlocks(h) == UNION {Range(HunksOf(h, b)) : b \in Range(h.blocks)}

-----------------------------------------------------------------------------
(* MemCollect *)

StackRefs(h) == UNION {Range(h.chunks[k].refs) : k \in 1..Len(h.chunks)}
Roots(h) == (StackRefs(h) \cup {h.chunks[k].at : k \in 1..Len(h.chunks)}
             \cup {h.save, h.temp} \cup h.blocked) \ {Null}

\* The objects that pointers lead to, from those of a set: the Mark function of a cell follows its pointer;
\* an object whose type is not set yet is marked and nothing more.
Closure(h, set) ==
  LET Reach[n \in 0 .. Cardinality(Hunks)] ==
        IF n = 0 THEN set
        ELSE LET reached == Reach[n - 1]
             IN  reached \cup ({h.fld[o] : o \in {c \in reached : h.typ[c] = "cell"}} \ {Null})
  IN  Reach[Cardinality(Hunks)]

\* MemReference of all roots.
Marked(h) == Closure(h, Roots(h))

\* Mutant: FileFree never lets go of a file.
Busy_AllFiles(h) == Marked(h) \cup {f \in Hunks : h.typ[f] = "file"}

\* busy: marked, or a file whose Free function could not write its output.
Busy(h) == Marked(h) \cup {f \in h.unwritten : h.typ[f] = "file"}

\* The elements of a sequence that are in a set, in order.
Kept(s, set) ==
  LET K[n \in 0..Len(s)] == IF n = 0 THEN <<>>
                            ELSE IF s[n] \in set THEN Append(K[n - 1], s[n])
                            ELSE K[n - 1]
  IN  K[Len(s)]

\* Hunks of the block that are free after the sweep, in order.
Swept(h, busy, b) == Kept(HunksOf(h, b), Hunks \ busy)

InUse(h, busy, b) == Range(HunksOf(h, b)) \cap busy # {}

\* The free lists of the sweep: the hunks of the last block come first.
Lists(h, busy) ==
  [c \in {"small", "large"} |->
     LET L[n \in 0..Len(h.blocks)] ==
           IF n = 0 THEN <<>>
           ELSE IF h.class[h.blocks[n]] = c /\ InUse(h, busy, h.blocks[n])
           THEN Swept(h, busy, h.blocks[n]) \o L[n - 1]
           ELSE L[n - 1]
     IN  L[Len(h.blocks)]]

\* DataCacheMark
EmptiedCache(h) == Null

\* Files that are marked or refused to be freed have gone on the list by
\* FileFlush. Blocks with nothing in use are given back.
MemCollect(h) ==
  LET busy == Busy(h)
  IN  [h EXCEPT !.sinceGarbage = 0, !.cache = EmptiedCache(h), !.free = Lists(h, busy),
                !.blocks = Kept(@, {b \in 1..MaxBlocks : InUse(h, busy, b)}),
                !.typ = [o \in Hunks |-> IF o \in busy THEN @[o] ELSE Free],
                !.fld = [o \in Hunks |-> IF o \in busy THEN @[o] ELSE Null],
                !.blocked = @ \cup (h.unwritten \cap busy)]

-----------------------------------------------------------------------------
(* MemAllocate *)

Addresses(h) == (1..MaxBlocks) \ Range(h.blocks)

\* The first hunk of the free list. What was its link is the pointer of the new
\* object until its owner sets it.
Taken(h, kind) ==
  LET list == h.free[Class(kind)]
      rest == Tail(list)
  IN  [h EXCEPT !.got = Head(list), !.free[Class(kind)] = rest,
                !.typ[Head(list)] = kind,
                !.fld[Head(list)] = IF rest = <<>> THEN Null ELSE Head(rest)]

\* malloc gives the lowest address that is not in use.
Block(h, kind) ==
  LET b == CHOOSE a \in Addresses(h) : \A c \in Addresses(h) : a <= c
      more == [h EXCEPT !.blocks = <<b>> \o @, !.class[b] = Class(kind)]
  IN  IF kind = "huge" THEN [more EXCEPT !.got = <<b, 1>>, !.typ[<<b, 1>>] = "huge"]
      ELSE Taken([more EXCEPT !.free[Class(kind)] = HunksOf(more, b) \o @], kind)

CanTake(h, kind) == kind # "huge" /\ h.free[Class(kind)] # <<>>

\* newBlock after a collection: what was freed may do, or a new block. Otherwise
\* "Out of memory" is a panic.
AfterCollect(h, kind) ==
  CASE CanTake(h, kind) -> Taken(h, kind)
    [] ~CanTake(h, kind) /\ Addresses(h) # {} -> Block(h, kind)
    [] OTHER -> [h EXCEPT !.panic = TRUE]

\* The type is set by the caller. got is the object.
MemAllocate(h, kind) ==
  IF CanTake(h, kind) THEN Taken(h, kind)
  ELSE LET s == [h EXCEPT !.sinceGarbage = @ + 1]
       IN  IF s.sinceGarbage >= GarbageTime \/ Addresses(s) = {}
           THEN AfterCollect(MemCollect(s), kind)
           ELSE Block(s, kind)

\* Mutant: the reference that is pushed is not kept in temp meanwhile.
Reference_NoTemp(h, o) ==
  LET last == h.chunks[Len(h.chunks)]
      more == MemAllocate(h, "chunk")
  IN  CASE Len(last.refs) < ChunkEntries ->
             [h EXCEPT !.chunks[Len(h.chunks)].refs = Append(@, o)]
        [] Len(last.refs) = ChunkEntries /\ h.save # Null ->
             [h EXCEPT !.chunks = Append(@, [at |-> h.save, refs |-> <<o>>]), !.save = Null]
        [] OTHER -> [more EXCEPT !.chunks = Append(@, [at |-> more.got, refs |-> <<o>>])]

\* REFERENCE, a push on MemStack, which may need a chunk of its own.
Reference(h, o) ==
  LET last == h.chunks[Len(h.chunks)]
      more == MemAllocate([h EXCEPT !.temp = o], "chunk")
  IN  CASE Len(last.refs) < ChunkEntries ->
             [h EXCEPT !.chunks[Len(h.chunks)].refs = Append(@, o)]
        [] Len(last.refs) = ChunkEntries /\ h.save # Null ->
             [h EXCEPT !.chunks = Append(@, [at |-> h.save, refs |-> <<o>>]), !.save = Null]
        [] OTHER -> [more EXCEPT !.chunks = Append(@, [at |-> more.got, refs |-> <<o>>]),
                                 !.temp = Null]

\* ALLOCATE. While the reference is pushed the object has no type.
MemAllocateRef(h, kind) ==
  LET new == MemAllocate(h, kind)
  IN  IF new.panic THEN new
      ELSE [Reference([new EXCEPT !.typ[new.got] = Free], new.got) EXCEPT !.typ[new.got] = kind]

\* The reference stack back to a pointer that ENTER saved.
Reset(h, mark) ==
  LET n == Len(h.chunks)
      cut == [h.chunks[mark[1]] EXCEPT !.refs = SubSeq(@, 1, mark[2])]
  IN  [h EXCEPT !.chunks = Append(SubSeq(@, 1, mark[1] - 1), cut),
                !.save = IF mark[1] < n /\ @ = Null THEN h.chunks[n].at ELSE @]

-----------------------------------------------------------------------------
(* The program *)

RefCount(h) == FoldFunction(LAMBDA c, n : n + Len(c.refs), 0, h.chunks)

\* What the program can get at, the objects that it may go on to use.
Usable(h) == Closure(h, StackRefs(h))

\* A panic ends the program.
HeapBecomes(h) == ~h.panic /\ heap' = [h EXCEPT !.got = Null]

Newest(h) == LET last == h.chunks[Len(h.chunks)].refs IN last[Len(last)]

MemInit ==
  /\ enters = <<>>
  /\ heap = [blocks |-> <<1>>, class |-> [b \in 1..MaxBlocks |-> "large"],
             typ |-> [o \in Hunks |-> IF o = <<1, 1>> THEN "chunk" ELSE Free],
             fld |-> [o \in Hunks |-> Null],
             free |-> [small |-> <<>>,
                       large |-> [i \in 1 .. NumHunk.large - 1 |-> <<1, i + 1>>]],
             sinceGarbage |-> 0, chunks |-> <<[at |-> <<1, 1>>, refs |-> <<>>]>>,
             save |-> Null, temp |-> Null, cache |-> Null,
             unwritten |-> {}, blocked |-> {}, got |-> Null, panic |-> FALSE]

\* A constructor: it clears the pointer before it allocates anything else.
Construct(kind) ==
  LET h == MemAllocateRef(heap, kind)
  IN  IF h.panic THEN h ELSE [h EXCEPT !.fld[Newest(h)] = Null]

Allocate(kind) ==
  /\ RefCount(heap) < MaxRefs
  /\ HeapBecomes(Construct(kind)) /\ UNCHANGED enters

\* NewInteger and others that look in a DataCache first.
Cached ==
  /\ RefCount(heap) < MaxRefs
  /\ HeapBecomes(IF heap.cache # Null THEN Reference(heap, heap.cache)
             ELSE LET h == Construct("cell") IN IF h.panic THEN h ELSE [h EXCEPT !.cache = Newest(h)])
  /\ UNCHANGED enters

Top == <<Len(heap.chunks), Len(heap.chunks[Len(heap.chunks)].refs)>>

ENTER ==
  /\ Len(enters) < MaxEnters
  /\ enters' = Append(enters, Top) /\ UNCHANGED heap

EXIT ==
  /\ enters # <<>>
  /\ HeapBecomes(Reset(heap, enters[Len(enters)]))
  /\ enters' = SubSeq(enters, 1, Len(enters) - 1)

\* RETURN(o): between the reset and the push only temp holds the result.
RETURN(o) ==
  /\ enters # <<>>
  /\ HeapBecomes(Reference(Reset(heap, enters[Len(enters)]), o))
  /\ enters' = SubSeq(enters, 1, Len(enters) - 1)

\* An assignment to a field.
SetReference(o, v) ==
  /\ heap.typ[o] = "cell"
  /\ heap' = [heap EXCEPT !.fld[o] = v] /\ UNCHANGED enters

\* Output to a file, one at a time, that the system does not take at once, and
\* when it does.
WriteFile(f) ==
  /\ heap.typ[f] = "file" /\ heap.unwritten = {}
  /\ heap' = [heap EXCEPT !.unwritten = @ \cup {f}] /\ UNCHANGED enters
Written(f) ==
  /\ heap' = [heap EXCEPT !.unwritten = @ \ {f}, !.blocked = @ \ {f}] /\ UNCHANGED enters

Collect == HeapBecomes(MemCollect(heap)) /\ UNCHANGED enters

MemNext ==
  \/ \E kind \in {"cell", "file", "huge"} : Allocate(kind)
  \/ Cached \/ ENTER \/ EXIT \/ Collect
  \/ \E o \in Usable(heap) : RETURN(o)
  \/ \E o \in StackRefs(heap) : WriteFile(o)
  \/ \E o \in heap.unwritten : Written(o)
  \/ \E o \in StackRefs(heap), v \in Usable(heap) \cup {Null} : SetReference(o, v)

MemSpec == MemInit /\ [][MemNext]_memVars

-----------------------------------------------------------------------------
(* Properties *)

\* The types of all parts of the heap; and every ENTER's stack pointer is still on
\* the stack.
MemTypeOK ==
  /\ heap \in HeapType
  /\ \A m \in 1..Len(enters) :
       enters[m][1] <= Len(heap.chunks) /\ enters[m][2] <= Len(heap.chunks[enters[m][1]].refs)

\* What the program, the stack or a cache can reach has not been freed and is not on
\* a free list, whichever allocation collected in between: also the object whose
\* own reference did not fit in the chunk, and the result of a RETURN.
ReachableKept ==
  LET reached == Usable(heap) \cup Marked(heap) \cup ({heap.cache} \ {Null})
  IN  /\ \A o \in reached : heap.typ[o] # Free /\ o \in InBlocks(heap)
      /\ reached \cap UNION {Range(heap.free[c]) : c \in DOMAIN heap.free} = {}
      /\ \A k \in 1..Len(heap.chunks) : heap.typ[heap.chunks[k].at] = "chunk"
      /\ heap.cache # Null => heap.typ[heap.cache] = "cell"

\* The free lists are the free hunks of the blocks, each once: nothing is lost and
\* nothing given out twice, also after blocks went back to malloc.
FreeListsExact ==
  \A c \in DOMAIN heap.free :
    /\ IsInjective(heap.free[c])
    /\ Range(heap.free[c]) =
         UNION {{o \in Range(HunksOf(heap, b)) : heap.typ[o] = Free} :
                b \in {a \in Range(heap.blocks) : heap.class[a] = c}}

\* A collection leaves nothing allocated that cannot be reached from a root.
CollectFreesGarbage ==
  [][Collect => \A o \in Hunks : heap'.typ[o] # Free => o \in Marked(heap')]_memVars

\* A file that nobody refers to is not freed before its output is written.
OutputNotLost == \A f \in heap.unwritten : heap.typ[f] = "file"

\* What is in use stays allocated, and the rest is on the free lists.
HeapSound == MemTypeOK /\ ReachableKept /\ FreeListsExact /\ OutputNotLost
=============================================================================
