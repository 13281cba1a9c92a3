SPECIFICATION FairMutexSpec
CONSTANTS
  t1 = t1
  t2 = t2
  t3 = t3
  s1 = s1
  Threads <- MCThreads3
  Initial <- MCThree
  Semaphores <- MCSemaphores
  InitCount <- MCMutex
  None = None
  Ops = {"noop", "wait", "test", "signal"}
  Priorities = {}
  PrioritySync = 0
  Slice = 1
  Interrupts = FALSE
  CountBound = 3
  TimerBound = 0
  CatchBound = 0
  sem = s1
  Calls = {"acq_check", "try_check", "rel_check"}
INVARIANTS OwnerExcludes UnlockedCanBeTaken
PROPERTIES TryAcquireTakesUnlocked AcquireReturns
CHECK_DEADLOCK FALSE
