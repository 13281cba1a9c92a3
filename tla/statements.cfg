SPECIFICATION MCSpec
CONSTANTS
  x1 = x1
  x2 = x2
  x3 = x3
  x4 = x4
  A = A
  B = B
  Twixts <- MCTwixts
  Exceptions = {A, B}
  Clauses <- MCClauses
  Depth = 3
  Escapes = {"body", "enter", "leave"}
  LongJumps = TRUE
  Nested = FALSE
  Inwards = FALSE
  None = None
  a = a
  b = b
  Names = {a, b}
  Paths <- MCPaths
  Imports <- MCImports
  Declarations <- MCDeclarations
  MaxNamespaces = 3
  MaxSymbols = 3
  MaxNesting = 3
  ExtendsAround = FALSE
INVARIANTS Bracketed ChainsSound ScopesSound PrivateHidden CommandsAgree
PROPERTIES InOrder JumpEnds
CHECK_DEADLOCK FALSE
