SPECIFICATION MutexSpec
CONSTANTS
  t1 = t1
  t2 = t2
  t3 = t3
  s1 = s1
  Threads <- MCThreads2
  Initial <- MCTwo
  Semaphores <- MCSemaphores
  InitCount <- MCMutex
  None = None
  Ops = {"noop", "wait", "test", "signal", "sleep", "try", "send_signal"}
  Priorities = {}
  PrioritySync = 0
  Slice = 1
  Interrupts = FALSE
  CountBound = 3
  TimerBound = 1
  CatchBound = 1
  sem = s1
  Calls = {"acq_check", "rel_check"}
INVARIANT MutualExclusion
CHECK_DEADLOCK FALSE
