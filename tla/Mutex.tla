------------------------------- MODULE Mutex -------------------------------
(***************************************************************************)
(* One mutex of mutex.5c, used by programs that run on the scheduler of    *)
(* Sched. The mutex is a semaphore created with count 1 and an owner; its  *)
(* functions are several instructions each, so that threads are switched,  *)
(* killed and signalled in the middle of them.                             *)
(*                                                                         *)
(* at[t] is where t is in the functions of the mutex; outside of them a    *)
(* thread runs any instruction of Ops that leaves the semaphore alone.     *)
(***************************************************************************)
EXTENDS Sched

CONSTANTS sem,       \* the semaphore of the mutex
          Calls      \* the functions of mutex.5c that the program calls

ASSUME MutexConstants ==
  /\ sem \in Semaphores /\ InitCount[sem] = 1
  /\ {"noop", "wait", "test", "signal"} \subseteq Ops
  /\ Calls \subseteq {"acq_check", "try_check", "rel_check"}

VARIABLES at, owner,
          holders    \* threads that got the semaphore and did not release it

mvars == <<vars, at, owner, holders>>

Locations == {"outside", "acq_check", "acq_wait", "own", "try_check", "try_test",
              "rel_check", "rel_clear", "rel_signal"}

\* The instructions of a thread at its location: three of them are builtins of
\* Semaphore, the others only touch the mutex.
Program(t) ==
  CASE at[t] = "acq_wait"   -> {Instruction("wait", sem, 0)}
    [] at[t] = "try_test"   -> {Instruction("test", sem, 0)}
    [] at[t] = "rel_signal" -> {Instruction("signal", sem, 0)}
    [] at[t] = "outside"    -> {i \in Instructions : i.on # sem} \cup {Noop}
    [] OTHER                -> {Noop}

\* acquire: raise deadlock, or Semaphore::wait and then the owner. The
\* exceptions deadlock and notowned go to the caller.
Acquire(t) ==
  \/ /\ at[t] = "acq_check"
     /\ at' = [at EXCEPT ![t] = IF owner = t THEN "outside" ELSE "acq_wait"]
     /\ UNCHANGED <<owner, holders>>
  \/ /\ at[t] = "acq_wait"
     /\ at' = [at EXCEPT ![t] = "own"]
     /\ holders' = holders \cup {t}
     /\ UNCHANGED owner
  \/ /\ at[t] = "own"
     /\ at' = [at EXCEPT ![t] = "outside"]
     /\ owner' = t
     /\ UNCHANGED holders

\* try_acquire
TryAcquire(t) ==
  \/ /\ at[t] = "try_check"
     /\ at' = [at EXCEPT ![t] = IF owner = t THEN "outside" ELSE "try_test"]
     /\ UNCHANGED <<owner, holders>>
  \/ /\ at[t] = "try_test"
     /\ at' = [at EXCEPT ![t] = IF value THEN "own" ELSE "outside"]
     /\ holders' = IF value THEN holders \cup {t} ELSE holders
     /\ UNCHANGED owner

\* Mutant: the semaphore is signalled before the owner is cleared.
Release_SignalFirst(t) ==
  \/ /\ at[t] = "rel_check"
     /\ at' = [at EXCEPT ![t] = IF owner = t THEN "rel_signal" ELSE "outside"]
     /\ UNCHANGED <<owner, holders>>
  \/ /\ at[t] = "rel_signal"
     /\ at' = [at EXCEPT ![t] = "rel_clear"]
     /\ holders' = holders \ {t}
     /\ UNCHANGED owner
  \/ /\ at[t] = "rel_clear"
     /\ at' = [at EXCEPT ![t] = "outside"]
     /\ owner' = None
     /\ UNCHANGED holders

\* release: raise notowned, or clear the owner and then Semaphore::signal.
Release(t) ==
  \/ /\ at[t] = "rel_check"
     /\ at' = [at EXCEPT ![t] = IF owner = t THEN "rel_clear" ELSE "outside"]
     /\ UNCHANGED <<owner, holders>>
  \/ /\ at[t] = "rel_clear"
     /\ at' = [at EXCEPT ![t] = "rel_signal"]
     /\ owner' = None /\ holders' = holders \ {t}
  \/ /\ at[t] = "rel_signal"
     /\ at' = [at EXCEPT ![t] = "outside"]
     /\ UNCHANGED <<owner, holders>>

\* The program calls a function of the mutex, or goes on without.
Call(t) ==
  /\ at[t] = "outside"
  /\ \E c \in Calls \cup {"outside"} : at' = [at EXCEPT ![t] = c]
  /\ UNCHANGED <<owner, holders>>

\* A thread completes the instruction it is at.
Complete ==
  /\ StepDone
  /\ Acquire(thread) \/ TryAcquire(thread) \/ Release(thread) \/ Call(thread)

\* A thread that catches `signal` leaves the function it is in.
Unwind ==
  /\ at' = [t \in Threads |->
              IF catches'[t] < catches[t] /\ inst'[t] = Noop THEN "outside"
              ELSE at[t]]
  /\ UNCHANGED <<owner, holders>>

MutexInit ==
  /\ Init
  /\ at = [t \in Threads |-> "outside"] /\ owner = None /\ holders = {}

MutexNext ==
  \/ Execute /\ inst'[thread] \in Program(thread) /\ Unwind
  \/ Complete
  \/ /\ \/ AbortSuspend \/ AbortFinished \/ AbortException \/ AbortOther \/ Loop
        \/ Interrupt \/ Alarm
     /\ Unwind

MutexSpec == MutexInit /\ [][MutexNext]_mvars

\* The interpreter goes on, whatever the handlers of UNIX signals do, and a thread
\* that holds the mutex does not forget to release it.
FairMutexSpec ==
  /\ MutexSpec
  /\ WF_mvars(MutexNext /\ ~(Interrupt \/ Alarm))
  /\ \A t \in Threads : SF_mvars(Complete /\ thread = t /\ at'[t] = "rel_check")

-----------------------------------------------------------------------------
(* Properties *)

\* "Mutexes can be held by only one thread at a time" (mutex.5c): the permit of
\* the semaphore is with one thread, from its wait or test on until its release.
\* The entry of a sleep that a signal ended early breaks it: it wakes its thread
\* from a later wait of acquire too (alarm.c, _sleepDone).
MutualExclusion == \A t, u \in holders : t = u

\* The owner field, written after the wait and cleared before the signal, never
\* names a thread that does not hold the mutex, and misses the holder only until
\* it has been written.
OwnerHolds ==
  /\ owner # None => owner \in holders
  /\ \A t \in holders : \/ owner = t
                         \/ (at[t] = "own" /\ owner = None)

\* At most one thread holds the mutex, and the owner field says which.
OwnerExcludes == MutualExclusion /\ OwnerHolds

\* t has a permit of the semaphore, or is about to give it back, while the owner
\* field does not say so: its wait or test has succeeded or a signal has let it
\* go, or it is between clearing the owner and the signal.
Changing(t) ==
  /\ state[t] # "finished"
  /\ \/ at[t] \in {"own", "rel_signal"}
     \/ at[t] = "acq_wait" /\ partial[t] /\ t \notin Waiters(sem)
     \/ at[t] \in {"acq_wait", "try_test"} /\ thread = t /\ phase = "post" /\ complete

\* A mutex nobody holds can be taken: its semaphore has its permit, unless some
\* thread is just about to take it or to give it back.
UnlockedCanBeTaken ==
  holders = {} /\ ~(\E t \in Threads : Changing(t)) => count[sem] = 1

\* "If 'm' is unlocked, acquire (m) and return true" (mutex.5c): try_acquire
\* fails only if somebody holds the mutex or is just taking or releasing it.
TryAcquireTakesUnlocked ==
  [][Complete /\ at[thread] = "try_test" /\ ~value
       => holders # {} \/ \E t \in Threads : Changing(t)]_mvars

\* No thread that can run is starved by threads of higher priority. (A thread that
\* has blocked once keeps PrioritySync, so a busy one may well starve others.)
NoStarvation ==
  \A t \in Threads : []<>(Running(t) => phase = "exec" /\ thread = t)

\* A thread that waits in acquire gets the mutex: the semaphore hands it on in the
\* order of arrival, and try_acquire cannot overtake the queue.
AcquireReturns ==
  NoStarvation => \A t \in Threads : at[t] = "acq_wait" ~> t \in holders

=============================================================================
