SPECIFICATION Spec
CONSTANTS
  t1 = t1
  t2 = t2
  Threads <- MCThreads
  Deltas <- PastAndFuture
  Period = 2
  MaxTime = 3
  None = None
  Wakes = TRUE
INVARIANTS EntriesServed SleepsLongEnough
PROPERTIES SleepEnds
CHECK_DEADLOCK FALSE
