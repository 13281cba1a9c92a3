--------------------------- MODULE SchedSemaphore ---------------------------
(***************************************************************************)
(* Sched implements Semaphore as long as blocked threads are left alone:   *)
(* no kill, signal, ^C, sleep or set_priority.                             *)
(***************************************************************************)
EXTENDS Sched

\* The threads that have decremented s and wait, longest first: the stop queue
\* in its order, then the caller that is about to be stopped.
WaitQueue(s) ==
  (CHOOSE q \in Arrangements(Sleepers(s), stopped, [t \in Threads |-> 0]) : TRUE)
    \o IF phase = "post" /\ "suspend" \in pending /\ sleep[thread] = s
       THEN <<thread>> ELSE <<>>

Released == {t \in Threads : partial[t] /\ \A s \in Semaphores : t \notin Waiters(s)}

Promise == INSTANCE Semaphore
  WITH Permits  <- InitCount,
       permits  <- [s \in Semaphores |-> IF count[s] > 0 THEN count[s] ELSE 0],
       blocked  <- [s \in Semaphores |-> WaitQueue(s)],
       released <- Released

\* Every step of the scheduler is a step of the semaphores or leaves them alone:
\* no wakeup without a signal, no signal lost, and "the least-recently-blocked
\* thread" first (nickle.1), across the gap in which a waiter has decremented
\* the count and is not yet in the stop queue.
ImplementsSemaphore == Promise!Spec

-----------------------------------------------------------------------------
\* The interpreter goes on as long as a thread can run.
FairSpec == Spec /\ WF_vars(Internals)

\* t could run, and no thread is more urgent.
Urgent(t) ==
  Running(t) /\ \A u \in Threads : Running(u) => priority[u] <= priority[t]

\* "Threads of equal highest priority will be pre-emptively multitasked"
\* (nickle.1): one that stays among the most urgent completes instructions
\* again and again (ThreadStepped moves the others behind it).
RoundRobin ==
  \A t \in Threads :
    <>[]Urgent(t) => []<><<StepDone /\ thread = t>>_vars

\* A thread that a signal released completes its wait, unless it is starved by
\* threads of higher priority (here there are none).
ReleasedGoesOn == \A t \in Threads : t \in Released ~> ~partial[t]

=============================================================================
