------------------------------- MODULE Sched -------------------------------
(***************************************************************************)
(* The green-thread scheduler of nickle: the loop ThreadsRun (execute.c),  *)
(* the run and stop queues (sched.c), semaphores (sync.c), sleeping        *)
(* threads (alarm.c) and the flags by which instructions, UNIX signal      *)
(* handlers and the loop talk to each other (value.h).                     *)
(*                                                                         *)
(* The nickle program is the environment: whenever a thread is at a fresh  *)
(* instruction, that instruction is any member of Instructions.            *)
(***************************************************************************)
EXTENDS Integers, Sequences, FiniteSets

CONSTANTS
  Threads,       \* every thread that may ever exist
  Initial,       \* the threads that already run, in the order of a queue
  Semaphores,
  InitCount,     \* the count each semaphore was created with
  None,          \* the null pointer
  Ops,           \* the instructions the program uses
  Priorities,    \* the arguments of set_priority
  PrioritySync,  \* what join and wait raise their caller to (200)
  Slice,         \* instructions run between two looks at signaling (10)
  Interrupts,    \* whether the user types ^C
  CountBound,    \* bound: semaphore counts stay within it
  TimerBound,    \* bound: timer entries per thread
  CatchBound     \* bound: nested catch blocks per thread

\* The instructions that schedule threads, and one for all the others.
Operations == {"wait", "test", "signal", "join", "kill", "send_signal",
               "set_priority", "sleep", "fork", "try", "endtry", "end", "noop"}

ASSUME SchedConstants ==
  /\ Initial \in Seq(Threads)
  /\ \A i, j \in DOMAIN Initial : Initial[i] = Initial[j] => i = j
  /\ None \notin Threads \cup Semaphores
  /\ Ops \subseteq Operations
  /\ None \notin [op : Operations, on : Threads \cup Semaphores \cup {None}, to : Int]
  /\ Threads \cap Semaphores = {}
  /\ InitCount \in [Semaphores -> Int]
  /\ Priorities \subseteq Int /\ PrioritySync \in Int
  /\ Slice \in Nat \ {0} /\ Interrupts \in BOOLEAN
  /\ CountBound \in Nat /\ TimerBound \in Nat /\ CatchBound \in Nat

VARIABLES
  running, stopped,             \* the two queues, as sequences of threads
  state, priority, sleep,       \* fields of struct _thread
  partial,                      \* the current instruction is half done
  inst,                         \* the instruction at pc, None when not chosen
  catches,                      \* catch blocks for `signal` in force
  count,                        \* the semaphores
  timers,                       \* queued _sleepDone entries of each thread
  signaling, aborting, pending, \* the flags of value.h
  complete,                     \* the instruction took effect
  value,                        \* the result of Semaphore::test
  phase, thread, steps,         \* where ThreadsRun is, its locals thread and j
  list, walk                    \* the loop of ThreadsSignal

queues  == <<running, stopped, state, sleep>>
thvars  == <<priority, partial, inst, catches>>
flags   == <<signaling, aborting, pending>>
slice   == <<complete, value, thread, steps>>
cursor  == <<list, walk>>
vars    == <<queues, thvars, count, timers, flags, slice, cursor, phase>>

-----------------------------------------------------------------------------
(* Instructions *)

States == {"unborn", "running", "suspended", "finished"}

Phases == {"top", "interrupt", "walk", "alarm", "expire", "exec", "post",
           "done", "exited"}

\* The flags an instruction raises for its own thread, and those that UNIX
\* signal handlers raise.
Internal == {"suspend", "finished", "exception", "error"}
External == {"interrupt", "timer"}

Instruction(op, on, to) == [op |-> op, on |-> on, to |-> to]

Noop == Instruction("noop", None, 0)

Instructions ==
  {Instruction(op, s, 0) : op \in Ops \cap {"wait", "test", "signal"},
                           s \in Semaphores}
  \cup {Instruction(op, t, 0) : op \in Ops \cap {"join", "kill", "send_signal"},
                                t \in Threads}
  \cup {Instruction(op, t, p) : op \in Ops \cap {"set_priority"},
                                t \in Threads, p \in Priorities}
  \cup {Instruction(op, None, 0) :
          op \in Ops \cap {"noop", "sleep", "fork", "try", "endtry", "end"}}

-----------------------------------------------------------------------------
(* Queues *)

Members(q) == {q[i] : i \in DOMAIN q}

Place(q, t) == CHOOSE i \in DOMAIN q : q[i] = t

\* _ThreadInsert: in front of the first thread of lower priority.
Insert(q, t, prio) ==
  LET lower == {i \in DOMAIN q : prio[q[i]] < prio[t]}
      k     == CHOOSE i \in lower \cup {Len(q) + 1} :
                 \A j \in lower : i <= j
  IN  [i \in 1..(Len(q) + 1) |->
         IF i < k THEN q[i] ELSE IF i = k THEN t ELSE q[i - 1]]

\* _ThreadRemove
Remove(q, t) ==
  LET k == Place(q, t)
  IN  [i \in 1..(Len(q) - 1) |-> IF i < k THEN q[i] ELSE q[i + 1]]

\* The queues that hold the threads of S, sorted by priority, those of equal
\* priority in the order in which c lists them.
Arrangements(S, c, prio) ==
  {q \in [1..Cardinality(S) -> S] :
     /\ Members(q) = S
     /\ \A i, j \in DOMAIN q : i < j =>
          \/ prio[q[i]] > prio[q[j]]
          \/ prio[q[i]] = prio[q[j]] /\ Place(c, q[i]) < Place(c, q[j])}

Running(t)   == state[t] = "running"
Suspended(t) == state[t] = "suspended"

\* The thread behind t in its queue.
Behind(t) == LET q == IF Running(t) THEN running ELSE stopped
                k == Place(q, t)
            IN  IF k < Len(q) THEN q[k + 1] ELSE None

HeadOf(q) == IF q = <<>> THEN None ELSE Head(q)

\* The threads asleep on x, a semaphore or a thread.
Sleepers(x) == {t \in Threads : Suspended(t) /\ sleep[t] = x}

\* ThreadSetState (t, ThreadRunning) of a suspended thread.
Resume(t) ==
  /\ state' = [state EXCEPT ![t] = "running"]
  /\ stopped' = Remove(stopped, t)
  /\ running' = Insert(running, t, priority)

\* Mutant: the last sleeper of the queue.
WakeOne_Last(x) ==
  \/ /\ Sleepers(x) = {}
     /\ UNCHANGED queues
  \/ \E t \in Sleepers(x) :
       /\ \A u \in Sleepers(x) : Place(stopped, t) >= Place(stopped, u)
       /\ Resume(t)
       /\ sleep' = [sleep EXCEPT ![t] = None]

\* ThreadsWakeup (x, WakeOne): the first sleeper of the stopped queue.
WakeOne(x) ==
  \/ /\ Sleepers(x) = {}
     /\ UNCHANGED queues
  \/ \E t \in Sleepers(x) :
       /\ \A u \in Sleepers(x) : Place(stopped, t) <= Place(stopped, u)
       /\ Resume(t)
       /\ sleep' = [sleep EXCEPT ![t] = None]

\* Mutant: only the first joiner is woken.
Finish_WakeOne(t) ==
  IF state[t] = "finished" THEN UNCHANGED queues
  ELSE
    LET q == IF Running(t) THEN Remove(running, t) ELSE running
        s == IF Suspended(t) THEN Remove(stopped, t) ELSE stopped
        W == {u \in Sleepers(t) \ {t} :
                \A w \in Sleepers(t) \ {t} : Place(s, u) <= Place(s, w)}
    IN  /\ running' \in Arrangements(Members(q) \cup W, q \o s, priority)
        /\ stopped' \in Arrangements(Members(s) \ W, s, priority)
        /\ state' = [u \in Threads |-> IF u = t THEN "finished"
                                       ELSE IF u \in W THEN "running"
                                       ELSE state[u]]
        /\ sleep' = [u \in Threads |-> IF u \in W THEN None ELSE sleep[u]]

\* Mutant: the thread stays in its queue.
Finish_LeavesQueue(t) ==
  IF state[t] = "finished" THEN UNCHANGED queues
  ELSE /\ state' = [state EXCEPT ![t] = "finished"]
       /\ UNCHANGED <<running, stopped, sleep>>

\* ThreadFinish, with its ThreadsWakeup (t, WakeAll) of the joiners.
Finish(t) ==
  IF state[t] = "finished" THEN UNCHANGED queues
  ELSE
    LET q == IF Running(t) THEN Remove(running, t) ELSE running
        s == IF Suspended(t) THEN Remove(stopped, t) ELSE stopped
        W == Sleepers(t) \ {t}
    IN  /\ running' \in Arrangements(Members(q) \cup W, q \o s, priority)
        /\ stopped' \in Arrangements(Members(s) \ W, s, priority)
        /\ state' = [u \in Threads |-> IF u = t THEN "finished"
                                       ELSE IF u \in W THEN "running"
                                       ELSE state[u]]
        /\ sleep' = [u \in Threads |-> IF u \in W THEN None ELSE sleep[u]]

-----------------------------------------------------------------------------
(* Exceptions and flags *)

\* SetSignalSuspend, SetSignalFinished, SetSignalException, SetSignalError.
SetSignal(signal) ==
  /\ signaling' = TRUE /\ aborting' = TRUE
  /\ pending' = pending \cup {signal}

\* RaiseException (signal) in t: its innermost catch block is what runs next.
\* `partial` stays as the abandoned instruction left it.
Catch(t, code) ==
  /\ catches[t] > 0
  /\ catches' = [catches EXCEPT ![t] = @ - 1]
  /\ inst' = [code EXCEPT ![t] = Noop]

\* RaiseException (signal) in t without a catch block, which ends in
\* JumpUnhandledException.
Die(t, code) ==
  /\ catches[t] = 0
  /\ Finish(t)
  /\ inst' = code
  /\ UNCHANGED catches

\* SignalThread when t is not executing; `code` is inst as the caller leaves it.
SignalThread(t, code) ==
  \/ /\ Catch(t, code)
     /\ IF Suspended(t)
        THEN Resume(t) /\ sleep' = [sleep EXCEPT ![t] = None]
        ELSE UNCHANGED queues
     /\ UNCHANGED flags
  \/ /\ Die(t, code)
     /\ IF t = HeadOf(running) THEN SetSignal("error") ELSE UNCHANGED flags

-----------------------------------------------------------------------------
(* One instruction of the running thread: the switch of ThreadsRun.        *)

\* The instruction i starts, or starts again after it was aborted.
Fetch(i) ==
  /\ phase = "exec"
  /\ \/ inst[thread] = i
     \/ inst[thread] = None /\ i \in Instructions
  /\ phase' = "post"
  /\ UNCHANGED <<thread, steps, cursor>>

Fetched(i) == [inst EXCEPT ![thread] = i]

Takes(i) == Fetch(i) /\ inst' = Fetched(i)

Completes(b) == complete' = b /\ UNCHANGED value

\* ThreadSleep (thread, x, PrioritySync), without a new place in the queue.
ThreadSleep(x) ==
  /\ priority' = [priority EXCEPT ![thread] = PrioritySync]
  /\ sleep' = [sleep EXCEPT ![thread] = x]
  /\ SetSignal("suspend")
  /\ UNCHANGED <<running, stopped, state>>

\* do_Semaphore_wait
Wait(s) ==
  \/ /\ aborting
     /\ complete' = FALSE
     /\ UNCHANGED <<count, partial, priority, queues, flags>>
  \/ /\ ~aborting /\ partial[thread]
     /\ complete' = TRUE
     /\ UNCHANGED <<count, partial, priority, queues, flags>>
  \/ /\ ~aborting /\ ~partial[thread] /\ count[s] > 0
     /\ count' = [count EXCEPT ![s] = @ - 1]
     /\ complete' = TRUE
     /\ UNCHANGED <<partial, priority, queues, flags>>
  \/ /\ ~aborting /\ ~partial[thread] /\ count[s] \in (1 - CountBound)..0
     /\ count' = [count EXCEPT ![s] = @ - 1]
     /\ partial' = [partial EXCEPT ![thread] = TRUE]
     /\ ThreadSleep(s)
     /\ complete' = FALSE

SemaphoreWait(s) ==
  /\ Takes(Instruction("wait", s, 0))
  /\ Wait(s)
  /\ UNCHANGED <<value, catches, timers>>

\* Mutant: a test fails unless two permits are left.
SemaphoreTest_OffByOne(s) ==
  /\ Takes(Instruction("test", s, 0))
  /\ \/ /\ count[s] <= 1
        /\ value' = FALSE /\ complete' = FALSE
        /\ UNCHANGED <<count, partial, priority, queues, flags>>
     \/ /\ count[s] > 1
        /\ value' = TRUE
        /\ Wait(s)
  /\ UNCHANGED <<catches, timers>>

\* do_Semaphore_test
SemaphoreTest(s) ==
  /\ Takes(Instruction("test", s, 0))
  /\ \/ /\ count[s] <= 0
        /\ value' = FALSE /\ complete' = FALSE
        /\ UNCHANGED <<count, partial, priority, queues, flags>>
     \/ /\ count[s] > 0
        /\ value' = TRUE
        /\ Wait(s)
  /\ UNCHANGED <<catches, timers>>

\* Mutant: nobody is woken when the count becomes 0.
SemaphoreSignal_Strict(s) ==
  /\ Takes(Instruction("signal", s, 0))
  /\ \/ /\ aborting
        /\ Completes(FALSE)
        /\ UNCHANGED <<count, queues>>
     \/ /\ ~aborting /\ count[s] < CountBound
        /\ count' = [count EXCEPT ![s] = @ + 1]
        /\ IF count[s] + 1 < 0 THEN WakeOne(s) ELSE UNCHANGED queues
        /\ Completes(TRUE)
  /\ UNCHANGED <<priority, partial, catches, timers, flags>>

\* do_Semaphore_signal
SemaphoreSignal(s) ==
  /\ Takes(Instruction("signal", s, 0))
  /\ \/ /\ aborting
        /\ Completes(FALSE)
        /\ UNCHANGED <<count, queues>>
     \/ /\ ~aborting /\ count[s] < CountBound
        /\ count' = [count EXCEPT ![s] = @ + 1]
        /\ IF count[s] + 1 <= 0 THEN WakeOne(s) ELSE UNCHANGED queues
        /\ Completes(TRUE)
  /\ UNCHANGED <<priority, partial, catches, timers, flags>>

\* do_Thread_join
ThreadJoin(t) ==
  /\ state[t] # "unborn"
  /\ Takes(Instruction("join", t, 0))
  /\ IF state[t] = "finished"
     THEN UNCHANGED <<priority, queues, flags>>
     ELSE ThreadSleep(t)
  /\ Completes(FALSE)
  /\ UNCHANGED <<partial, catches, count, timers>>

\* do_Thread_kill of one thread
ThreadKill(t) ==
  /\ state[t] # "unborn"
  /\ Takes(Instruction("kill", t, 0))
  /\ Finish(t)
  /\ Completes(FALSE)
  /\ UNCHANGED <<priority, partial, catches, count, timers, flags>>

\* Mutant: the instruction claims to be complete.
ThreadSendSignal_Completes(t) ==
  LET i == Instruction("send_signal", t, 0) IN
  /\ state[t] # "unborn"
  /\ Fetch(i)
  /\ IF t = HeadOf(running)
     THEN /\ SetSignal("exception")
          /\ inst' = Fetched(i)
          /\ UNCHANGED <<catches, queues>>
     ELSE SignalThread(t, Fetched(i))
  /\ Completes(TRUE)
  /\ UNCHANGED <<priority, partial, count, timers>>

\* do_Thread_signal
ThreadSendSignal(t) ==
  LET i == Instruction("send_signal", t, 0) IN
  /\ state[t] # "unborn"
  /\ Fetch(i)
  /\ IF t = HeadOf(running)
     THEN /\ SetSignal("exception")
          /\ inst' = Fetched(i)
          /\ UNCHANGED <<catches, queues>>
     ELSE SignalThread(t, Fetched(i))
  /\ Completes(FALSE)
  /\ UNCHANGED <<priority, partial, count, timers>>

\* Mutant: the thread keeps its place in the queue.
ThreadSetPriority_InPlace(t, p) ==
  /\ state[t] # "unborn"
  /\ Takes(Instruction("set_priority", t, p))
  /\ priority' = IF aborting THEN priority ELSE [priority EXCEPT ![t] = p]
  /\ Completes(FALSE)
  /\ UNCHANGED <<queues, partial, catches, count, timers, flags>>

\* do_Thread_set_priority
ThreadSetPriority(t, p) ==
  /\ state[t] # "unborn"
  /\ Takes(Instruction("set_priority", t, p))
  /\ IF aborting THEN UNCHANGED <<priority, running, stopped>>
     ELSE /\ priority' = [priority EXCEPT ![t] = p]
          /\ running' = IF Running(t) /\ p # priority[t]
                        THEN Insert(Remove(running, t), t, priority')
                        ELSE running
          /\ stopped' = IF Suspended(t) /\ p # priority[t]
                        THEN Insert(Remove(stopped, t), t, priority')
                        ELSE stopped
  /\ Completes(FALSE)
  /\ UNCHANGED <<state, sleep, partial, catches, count, timers, flags>>

\* do_sleep
ThreadDoSleep ==
  /\ Takes(Instruction("sleep", None, 0))
  /\ IF partial[thread] \/ aborting
     THEN UNCHANGED <<timers, partial, flags>>
     ELSE /\ timers[thread] < TimerBound
          /\ timers' = [timers EXCEPT ![thread] = @ + 1]
          /\ partial' = [partial EXCEPT ![thread] = TRUE]
          /\ SetSignal("suspend")
  /\ Completes(FALSE)
  /\ UNCHANGED <<queues, priority, catches, count>>

\* OpFork: NewThread
ThreadFork(t) ==
  /\ state[t] = "unborn"
  /\ Takes(Instruction("fork", None, 0))
  /\ state' = [state EXCEPT ![t] = "running"]
  /\ running' = Insert(running, t, priority)
  /\ Completes(TRUE)
  /\ UNCHANGED <<stopped, sleep, priority, partial, catches, count, timers, flags>>

\* OpCatch and OpEndCatch
ThreadTry ==
  /\ Takes(Instruction("try", None, 0))
  /\ IF aborting THEN UNCHANGED catches
     ELSE /\ catches[thread] < CatchBound
          /\ catches' = [catches EXCEPT ![thread] = @ + 1]
  /\ Completes(~aborting)
  /\ UNCHANGED <<queues, priority, partial, count, timers, flags>>

ThreadEndTry ==
  /\ Takes(Instruction("endtry", None, 0))
  /\ catches[thread] > 0
  /\ catches' = IF aborting THEN catches
                ELSE [catches EXCEPT ![thread] = @ - 1]
  /\ Completes(~aborting)
  /\ UNCHANGED <<queues, priority, partial, count, timers, flags>>

\* Mutant: the instruction claims to be complete.
ThreadEnd_Completes ==
  /\ Takes(Instruction("end", None, 0))
  /\ SetSignal("finished")
  /\ Completes(TRUE)
  /\ UNCHANGED <<queues, priority, partial, catches, count, timers>>

\* OpEnd
ThreadEnd ==
  /\ Takes(Instruction("end", None, 0))
  /\ SetSignal("finished")
  /\ Completes(FALSE)
  /\ UNCHANGED <<queues, priority, partial, catches, count, timers>>

\* Every instruction that touches no scheduling state.
ThreadNoop ==
  /\ Takes(Noop)
  /\ Completes(FALSE)
  /\ UNCHANGED <<queues, priority, partial, catches, count, timers, flags>>

Execute ==
  \/ \E s \in Semaphores : SemaphoreWait(s) \/ SemaphoreTest(s) \/ SemaphoreSignal(s)
  \/ \E t \in Threads : \/ ThreadJoin(t) \/ ThreadKill(t) \/ ThreadSendSignal(t)
                        \/ ThreadFork(t)
                        \/ \E p \in Priorities : ThreadSetPriority(t, p)
  \/ ThreadDoSleep \/ ThreadTry \/ ThreadEndTry \/ ThreadEnd \/ ThreadNoop

-----------------------------------------------------------------------------
(* After the switch of ThreadsRun *)

Aborted == aborting /\ ~complete

Leave ==
  /\ phase = "post" /\ phase' = "top"
  /\ UNCHANGED <<steps, thread, complete, value, cursor, count, timers,
                 partial, priority>>

\* signalSuspend: the thread stops, the instruction will be run again.
AbortSuspend ==
  /\ Leave /\ Aborted /\ "suspend" \in pending
  /\ pending' = pending \ {"suspend", "error"}
  /\ IF Running(thread)
     THEN /\ state' = [state EXCEPT ![thread] = "suspended"]
          /\ running' = Remove(running, thread)
          /\ stopped' = Insert(stopped, thread, priority)
     ELSE UNCHANGED <<state, running, stopped>>
  /\ UNCHANGED <<sleep, signaling, aborting, inst, catches>>

\* signalFinished
AbortFinished ==
  /\ Leave /\ Aborted /\ "finished" \in pending
  /\ pending' = pending \ {"finished", "error"}
  /\ Finish(thread)
  /\ UNCHANGED <<signaling, aborting, inst, catches>>

\* signalException: JumpStandardException forgets the abort, and raises one
\* again when the exception kills the thread.
AbortException ==
  /\ Leave /\ Aborted /\ "exception" \in pending
  /\ pending' = pending \ {"exception", "error"}
  /\ \/ Catch(thread, inst) /\ aborting' = FALSE /\ UNCHANGED queues
     \/ Die(thread, inst) /\ aborting' = (thread = HeadOf(running))
  /\ UNCHANGED signaling

\* An exception of a send_signal, or ^C, during the instruction.
AbortOther ==
  /\ Leave /\ Aborted
  /\ pending \cap {"suspend", "finished", "exception"} = {}
  /\ pending' = pending \ {"error"}
  /\ UNCHANGED <<queues, signaling, aborting, inst, catches>>

\* Mutant: the thread stays in front of the others of its priority.
Stepped_Strict(t) ==
  LET q == IF Running(t) THEN running ELSE stopped
  IN  /\ t \in Members(q) /\ Behind(t) # None
      /\ priority[t] < priority[Behind(t)]

\* ThreadStepped: the thread goes behind the others of its priority.
Stepped(t) ==
  LET q == IF Running(t) THEN running ELSE stopped
  IN  /\ t \in Members(q) /\ Behind(t) # None
      /\ priority[t] <= priority[Behind(t)]

\* The instruction is completely executed.
StepDone ==
  /\ phase = "post" /\ ~Aborted
  /\ partial' = [partial EXCEPT ![thread] = FALSE]
  /\ inst' = [inst EXCEPT ![thread] = None]
  /\ running' = IF Running(thread) /\ Stepped(thread)
                THEN Insert(Remove(running, thread), thread, priority)
                ELSE running
  /\ stopped' = IF Suspended(thread) /\ Stepped(thread)
                THEN Insert(Remove(stopped, thread), thread, priority)
                ELSE stopped
  /\ steps' = steps + 1
  /\ phase' = IF HeadOf(running') = thread /\ steps + 1 < Slice
              THEN "exec" ELSE "top"
  /\ UNCHANGED <<state, sleep, priority, catches, count, timers, flags,
                 thread, complete, value, cursor>>

Post == AbortSuspend \/ AbortFinished \/ AbortException \/ AbortOther \/ StepDone

-----------------------------------------------------------------------------
(* The loop of ThreadsRun *)

\* Mutant: the count of instructions is not reset.
Dispatch_KeepsCount ==
  /\ phase = "top" /\ ~signaling /\ running # <<>>
  /\ thread' = Head(running)
  /\ phase' = "exec"
  /\ UNCHANGED <<queues, thvars, count, timers, flags, steps, complete, value, cursor>>

\* The next thread gets a slice.
Dispatch ==
  /\ phase = "top" /\ ~signaling /\ running # <<>>
  /\ thread' = Head(running)
  /\ steps' = 0
  /\ phase' = "exec"
  /\ UNCHANGED <<queues, thvars, count, timers, flags, complete, value, cursor>>

\* No thread is left: ThreadsRun returns.
Return ==
  /\ phase = "top" /\ ~signaling /\ running = <<>> /\ stopped = <<>>
  /\ phase' = "done"
  /\ UNCHANGED <<queues, thvars, count, timers, flags, slice, cursor>>

TakeSignals ==
  /\ phase = "top" /\ signaling
  /\ signaling' = FALSE /\ aborting' = FALSE
  /\ phase' = "interrupt"
  /\ UNCHANGED <<queues, thvars, count, timers, pending, slice, cursor>>

\* if (signalInterrupt): ThreadsSignal (SIGINT) starts with the run queue.
CheckInterrupt ==
  /\ phase = "interrupt"
  /\ pending' = pending \ {"interrupt"}
  /\ IF "interrupt" \in pending
     THEN phase' = "walk" /\ list' = "running" /\ walk' = HeadOf(running)
     ELSE phase' = "alarm" /\ UNCHANGED cursor
  /\ UNCHANGED <<queues, thvars, count, timers, signaling, aborting, slice>>

\* One iteration of ThreadsSignal: next is read before the thread is signalled.
WalkSignal ==
  /\ phase = "walk" /\ walk # None
  /\ walk' = Behind(walk)
  /\ SignalThread(walk, inst)
  /\ UNCHANGED <<priority, partial, count, timers, slice, list, phase>>

WalkNext ==
  /\ phase = "walk" /\ walk = None
  /\ IF list = "running"
     THEN list' = "stopped" /\ walk' = HeadOf(stopped) /\ UNCHANGED phase
     ELSE phase' = "alarm" /\ UNCHANGED cursor
  /\ UNCHANGED <<queues, thvars, count, timers, flags, slice>>

\* if (signalTimer): TimerInterrupt
CheckTimer ==
  /\ phase = "alarm"
  /\ pending' = pending \ {"timer"}
  /\ phase' = IF "timer" \in pending THEN "expire" ELSE "top"
  /\ UNCHANGED <<queues, thvars, count, timers, signaling, aborting, slice, cursor>>

\* One iteration of TimerInterrupt: an entry is due, _sleepDone is called. When
\* entries are due is left open here.
Expire(t) ==
  /\ phase = "expire" /\ timers[t] > 0
  /\ timers' = [timers EXCEPT ![t] = @ - 1]
  /\ IF Suspended(t) THEN Resume(t) ELSE UNCHANGED <<running, stopped, state>>
  /\ UNCHANGED <<sleep, thvars, count, flags, slice, cursor, phase>>

Expired ==
  /\ phase = "expire"
  /\ phase' = "top"
  /\ UNCHANGED <<queues, thvars, count, timers, flags, slice, cursor>>

Loop == \/ Dispatch \/ Return \/ TakeSignals \/ CheckInterrupt
        \/ WalkSignal \/ WalkNext \/ CheckTimer \/ Expired
        \/ \E t \in Threads : Expire(t)

-----------------------------------------------------------------------------
(* UNIX signal handlers, which may run between any two of the steps above. *)

\* intr: the second ^C before the first is taken ends the process.
Interrupt ==
  /\ Interrupts /\ phase \notin {"done", "exited"}
  /\ IF "interrupt" \in pending
     THEN phase' = "exited" /\ UNCHANGED flags
     ELSE SetSignal("interrupt") /\ UNCHANGED phase
  /\ UNCHANGED <<queues, thvars, count, timers, slice, cursor>>

\* _CatchAlarm: the interval timer is armed as long as an entry is queued.
Alarm ==
  /\ phase \notin {"done", "exited"}
  /\ \E t \in Threads : timers[t] > 0
  /\ signaling' = TRUE
  /\ pending' = pending \cup {"timer"}
  /\ UNCHANGED <<queues, thvars, count, timers, aborting, slice, cursor, phase>>

-----------------------------------------------------------------------------
Init ==
  /\ running = Initial /\ stopped = <<>>
  /\ state = [t \in Threads |->
                IF t \in Members(Initial) THEN "running" ELSE "unborn"]
  /\ priority = [t \in Threads |-> 0]
  /\ sleep = [t \in Threads |-> None]
  /\ partial = [t \in Threads |-> FALSE]
  /\ inst = [t \in Threads |-> None]
  /\ catches = [t \in Threads |-> 0]
  /\ count = InitCount
  /\ timers = [t \in Threads |-> 0]
  /\ signaling = FALSE /\ aborting = FALSE /\ pending = {}
  /\ complete = FALSE /\ value = FALSE
  /\ phase = "top" /\ thread = None /\ steps = 0
  /\ list = "running" /\ walk = None

Internals == Execute \/ Post \/ Loop

Next == Internals \/ Interrupt \/ Alarm

Spec == Init /\ [][Next]_vars

-----------------------------------------------------------------------------
(* Properties *)

NoDuplicates(q) == \A i, j \in DOMAIN q : q[i] = q[j] => i = j

SortedBy(q, prio) == \A i, j \in DOMAIN q : i < j => prio[q[i]] >= prio[q[j]]

TypeOK ==
  /\ running \in Seq(Threads) /\ stopped \in Seq(Threads)
  /\ state \in [Threads -> States]
  /\ priority \in [Threads -> Int]
  /\ sleep \in [Threads -> Threads \cup Semaphores \cup {None}]
  /\ partial \in [Threads -> BOOLEAN]
  /\ inst \in [Threads -> Instructions \cup {Noop, None}]
  /\ catches \in [Threads -> 0..CatchBound]
  /\ count \in [Semaphores -> Int]
  /\ timers \in [Threads -> 0..TimerBound]
  /\ signaling \in BOOLEAN /\ aborting \in BOOLEAN
  /\ pending \subseteq Internal \cup External
  /\ complete \in BOOLEAN /\ value \in BOOLEAN
  /\ phase \in Phases /\ thread \in Threads \cup {None} /\ steps \in 0..Slice
  /\ list \in {"running", "stopped"} /\ walk \in Threads \cup {None}

\* The run queue holds exactly the running threads and the stop queue exactly
\* the suspended ones, once each, whatever is killed, woken or interrupted
\* (_ThreadInsert and _ThreadRemove find a thread by its state only).
QueuesMatchStates ==
  /\ Members(running) = {t \in Threads : Running(t)} /\ NoDuplicates(running)
  /\ Members(stopped) = {t \in Threads : Suspended(t)} /\ NoDuplicates(stopped)

\* "a task with higher priority will always run instead of a lower priority
\* task" (nickle.1): the thread whose instruction starts is the head of the run
\* queue and no runnable thread is more urgent, although ThreadSleep changes a
\* priority in place.
HighestRuns ==
  phase = "exec" => /\ HeadOf(running) = thread
                    /\ \A t \in Threads :
                         Running(t) => priority[t] <= priority[thread]

\* Both queues are sorted whenever the loop of ThreadsRun inserts into them.
QueuesSorted ==
  /\ SortedBy(stopped, priority)
  /\ phase \notin {"post", "exited"} => SortedBy(running, priority)

\* Priorities decide who runs: in the queues and at the start of an instruction.
UrgentFirst == QueuesSorted /\ HighestRuns

\* Nobody stays asleep on a thread that is finished (ThreadFinish wakes its
\* joiners, and do_Thread_join and the sleep that follows it are one step).
NoLostJoin ==
  \A t, u \in Threads :
    Suspended(t) /\ inst[t] = Instruction("join", u, 0) => state[u] # "finished"

\* A flag raised by an instruction is taken by the thread that raised it, before
\* any other instruction, signal or timer is looked at.
FlagsStayWithThread ==
  phase \notin {"post", "exited"} =>
    pending \cap {"suspend", "finished", "exception"} = {}

\* Signals at any point leave the queues, the joins and the flags in order.
SignalsLeaveOrder == QueuesMatchStates /\ NoLostJoin /\ FlagsStayWithThread

\* The threads that have decremented s and still wait for their turn.
Waiters(s) ==
  Sleepers(s) \cup {t \in Threads : /\ phase = "post" /\ t = thread
                                    /\ "suspend" \in pending /\ sleep[t] = s}

\* "If the count is <= 0, wakeup one thread" (builtin-semaphore.c): a negative
\* count is exactly the number of threads that wait, so that no signal is lost
\* and none waits without need. Programs that kill or signal threads break it.
CountIsWaiters ==
  \A s \in Semaphores :
    Cardinality(Waiters(s)) = IF count[s] < 0 THEN -count[s] ELSE 0

=============================================================================
