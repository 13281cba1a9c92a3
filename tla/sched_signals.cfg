SPECIFICATION Spec
CONSTANTS
  t1 = t1
  t2 = t2
  t3 = t3
  s1 = s1
  Threads <- MCThreads2
  Initial <- MCOne
  Semaphores <- MCSemaphores
  InitCount <- MCMutex
  None = None
  Ops = {"noop", "join", "send_signal", "try", "endtry", "sleep", "fork", "end"}
  Priorities = {}
  PrioritySync = 2
  Slice = 1
  Interrupts = TRUE
  CountBound = 3
  TimerBound = 1
  CatchBound = 1
INVARIANTS SignalsLeaveOrder
CHECK_DEADLOCK FALSE
