SPECIFICATION FairSpec
CONSTANTS
  t1 = t1
  t2 = t2
  t3 = t3
  s1 = s1
  Threads <- MCThreads3
  Initial <- MCThree
  Semaphores <- MCSemaphores
  InitCount <- MCMutex
  None = None
  Ops = {"noop", "wait", "test", "signal", "fork", "end"}
  Priorities = {}
  PrioritySync = 2
  Slice = 2
  Interrupts = FALSE
  CountBound = 3
  TimerBound = 0
  CatchBound = 0
INVARIANTS CountIsWaiters
PROPERTIES ImplementsSemaphore RoundRobin ReleasedGoesOn
CHECK_DEADLOCK FALSE
