SPECIFICATION Spec
CONSTANTS
  k1 = k1
  k2 = k2
  k3 = k3
  k4 = k4
  Keys <- MCKeys
  HashOf <- MCHashOf
  HashSets <- MCHashSets
  Values = {v, w}
  Void = Void
  None = None
  ReadsGrow = FALSE
  Interleaved = FALSE
INVARIANTS HashSound
PROPERTIES ImplementsMap
