SPECIFICATION MCSpec
CONSTANTS
  EntriesPerChunk = 2
  Chunks = {c1, c2, c3, c4}
  StackValues = {a, b}
  NoChunk = NoChunk
  MaxHeight = 4
  MaxMarks = 2
  NDim = 2
  MaxDim = 3
  MaxUsed = 2
  EmptyRows = FALSE
  NumHunk <- Counts
  MaxBlocks = 3
  GarbageTime = 1
  ChunkEntries = 1
  MaxRefs = 2
  MaxEnters = 1
SYMMETRY Sym
INVARIANTS StackSound ElementsStay HeapSound
PROPERTIES ImplementsLifo CollectFreesGarbage
CHECK_DEADLOCK FALSE
