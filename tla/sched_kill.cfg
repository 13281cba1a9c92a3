SPECIFICATION Spec
CONSTANTS
  t1 = t1
  t2 = t2
  t3 = t3
  s1 = s1
  Threads <- MCThreads3
  Initial <- MCThree
  Semaphores <- MCSemaphores
  InitCount <- MCMutex
  None = None
  Ops = {"noop", "wait", "join", "kill", "set_priority", "end"}
  Priorities = {1, 3}
  PrioritySync = 2
  Slice = 2
  Interrupts = FALSE
  CountBound = 2
  TimerBound = 0
  CatchBound = 0
INVARIANTS TypeOK QueuesMatchStates UrgentFirst NoLostJoin FlagsStayWithThread
CHECK_DEADLOCK FALSE
