------------------------------- MODULE Timers -------------------------------
(***************************************************************************)
(* The timer queue of alarm.c: sleeping threads and repeating timers (the  *)
(* IoTimeout of io.c) share one queue, ordered by expiry, and one interval *)
(* timer, set for the head of the queue.                                   *)
(*                                                                         *)
(* Sched leaves open when an entry expires; here there is a clock, and the *)
(* scheduler is reduced to threads that are awake or asleep.               *)
(***************************************************************************)
EXTENDS Integers, Sequences, FiniteSets

CONSTANTS
  Threads,
  Deltas,      \* the arguments of sleep
  Period,      \* the period of the repeating timer (100 ms in io.c)
  MaxTime,     \* bound: no sleep ends later, no file is write blocked longer
  None,
  Wakes        \* whether send_signal or ^C may end a sleep

ASSUME TimersConstants ==
  /\ Deltas \subseteq Int /\ Period \in Nat \ {0} /\ MaxTime \in Nat
  /\ None \notin Threads /\ None \notin Int /\ Wakes \in BOOLEAN

VARIABLES
  now,           \* TimeInMs
  sleeping,      \* the queue: entries [who, ms, incr], who = None for IoTimeout
  itimer,        \* when SIGALRM will come, None when the timer is off
  signalTimer,   \* SIGALRM has come and TimerInterrupt has not run
  expiring,      \* TimerInterrupt is in its loop, at the time it read; or None
  asleep,        \* [Threads -> BOOLEAN]: suspended inside do_sleep
  until,         \* the earliest time at which the last sleep should end
  early,         \* threads of which a signal has ended a sleep
  repeating      \* IoTimeout would return True: some file is write blocked

vars == <<now, sleeping, itimer, signalTimer, expiring, asleep, until, early,
          repeating>>

-----------------------------------------------------------------------------
\* Mutant: a time that has passed gives a delta of 0.
TimerSet_Zero(when, at) ==
  LET delta == IF when - at < 0 THEN 0 ELSE when - at
  IN  IF delta = 0 THEN None ELSE now + delta

\* setitimer: a delta of 0 turns the timer off.
TimerSet(when, at) ==
  LET delta == IF when - at < 0 THEN 1 ELSE when - at
  IN  IF delta = 0 THEN None ELSE now + delta

\* _TimerInsert: in front of the first entry that expires later.
Place(q, e) ==
  LET later == {i \in DOMAIN q : q[i].ms > e.ms}
  IN  CHOOSE k \in later \cup {Len(q) + 1} : \A j \in later : k <= j

Insert(q, e) ==
  LET k == Place(q, e)
  IN  [i \in 1..(Len(q) + 1) |->
         IF i < k THEN q[i] ELSE IF i = k THEN e ELSE q[i - 1]]

TimerInsert(q, e, at) ==
  /\ sleeping' = Insert(q, e)
  /\ itimer' = IF Place(q, e) = 1 THEN TimerSet(e.ms, at) ELSE itimer

Entry(who, ms, incr) == [who |-> who, ms |-> ms, incr |-> incr]

Queued(who) == \E i \in DOMAIN sleeping : sleeping[i].who = who

-----------------------------------------------------------------------------
\* do_sleep
Sleep(t, delta) ==
  /\ expiring = None /\ ~asleep[t] /\ now + delta <= MaxTime
  /\ Cardinality({i \in DOMAIN sleeping : sleeping[i].who = t}) < 2 \* bound
  /\ TimerInsert(sleeping, Entry(t, now + delta, 0), now)
  /\ asleep' = [asleep EXCEPT ![t] = TRUE]
  /\ until' = [until EXCEPT ![t] = now + delta]
  /\ UNCHANGED <<now, signalTimer, expiring, early, repeating>>

\* A signal is raised in a sleeping thread (SignalThread, sched.c): it runs on,
\* its entry stays in the queue.
WakeEarly(t) ==
  /\ Wakes /\ expiring = None /\ asleep[t]
  /\ asleep' = [asleep EXCEPT ![t] = FALSE]
  /\ early' = early \cup {t}
  /\ UNCHANGED <<now, sleeping, itimer, signalTimer, expiring, until, repeating>>

\* FileSetBlocked for output: IoSetupTimeout queues IoTimeout once
\* (ioTimeoutQueued).
WriteBlocks ==
  /\ expiring = None /\ ~repeating /\ now < MaxTime
  /\ repeating' = TRUE
  /\ IF Queued(None) THEN UNCHANGED <<sleeping, itimer>>
     ELSE TimerInsert(sleeping, Entry(None, now + Period, Period), now)
  /\ UNCHANGED <<now, signalTimer, expiring, asleep, until, early>>

WriteUnblocks ==
  /\ expiring = None /\ repeating
  /\ repeating' = FALSE
  /\ UNCHANGED <<now, sleeping, itimer, signalTimer, expiring, asleep, until, early>>

\* Time passes, at least as long as the interval timer is on; it goes off once.
Tick ==
  /\ now < MaxTime \/ itimer # None
  /\ now' = now + 1
  /\ IF itimer = now + 1 THEN itimer' = None /\ signalTimer' = TRUE
     ELSE UNCHANGED <<itimer, signalTimer>>
  /\ UNCHANGED <<sleeping, expiring, asleep, until, early, repeating>>

\* ThreadsRun calls TimerInterrupt.
TimerInterrupt ==
  /\ expiring = None /\ signalTimer
  /\ signalTimer' = FALSE
  /\ expiring' = now
  /\ UNCHANGED <<now, sleeping, itimer, asleep, until, early, repeating>>

\* Mutant: an entry is due one millisecond early.
Due_Early == sleeping # <<>> /\ expiring + 1 >= Head(sleeping).ms

Due == sleeping # <<>> /\ expiring >= Head(sleeping).ms

\* The head is due and belongs to a thread: _sleepDone.
SleepDone ==
  /\ expiring # None /\ Due /\ Head(sleeping).who # None
  /\ asleep' = [asleep EXCEPT ![Head(sleeping).who] = FALSE]
  /\ sleeping' = Tail(sleeping)
  /\ UNCHANGED <<now, itimer, signalTimer, expiring, until, early, repeating>>

\* Mutant: a repeating timer expires once.
IoTimeout_Once ==
  /\ expiring # None /\ Due /\ Head(sleeping).who = None
  /\ sleeping' = Tail(sleeping)
  /\ UNCHANGED <<now, itimer, signalTimer, expiring, asleep, until, early, repeating>>

\* The head is due and is IoTimeout, which is queued again if it returns True.
IoTimeout ==
  /\ expiring # None /\ Due /\ Head(sleeping).who = None
  /\ LET e == Head(sleeping) IN
       IF repeating /\ now < MaxTime
       THEN TimerInsert(Tail(sleeping), Entry(None, e.ms + e.incr, e.incr), expiring)
       ELSE sleeping' = Tail(sleeping) /\ UNCHANGED itimer
  /\ UNCHANGED <<now, signalTimer, expiring, asleep, until, early, repeating>>

\* Nothing more is due: the timer is set for the head.
TimerDone ==
  /\ expiring # None /\ ~Due
  /\ itimer' = IF sleeping = <<>> THEN itimer
               ELSE TimerSet(Head(sleeping).ms, expiring)
  /\ expiring' = None
  /\ UNCHANGED <<now, sleeping, signalTimer, asleep, until, early, repeating>>

Init ==
  /\ now = 0 /\ sleeping = <<>> /\ itimer = None
  /\ signalTimer = FALSE /\ expiring = None
  /\ asleep = [t \in Threads |-> FALSE]
  /\ until = [t \in Threads |-> 0]
  /\ early = {} /\ repeating = FALSE

Handle == TimerInterrupt \/ SleepDone \/ IoTimeout \/ TimerDone

Next ==
  \/ \E t \in Threads : WakeEarly(t) \/ \E delta \in Deltas : Sleep(t, delta)
  \/ WriteBlocks \/ WriteUnblocks \/ Tick \/ Handle

\* Time passes, and ThreadsRun looks at its signals.
Spec == Init /\ [][Next]_vars /\ WF_vars(Tick) /\ WF_vars(Handle)

-----------------------------------------------------------------------------
(* Properties *)

TimersTypeOK ==
  /\ now \in Nat
  /\ \A i \in DOMAIN sleeping :
       sleeping[i] \in [who : Threads \cup {None}, ms : Int, incr : {0, Period}]
  /\ itimer \in Int \cup {None} /\ signalTimer \in BOOLEAN
  /\ expiring \in Nat \cup {None}
  /\ asleep \in [Threads -> BOOLEAN] /\ until \in [Threads -> Int]
  /\ early \subseteq Threads /\ repeating \in BOOLEAN

\* As long as an entry is queued and TimerInterrupt is not at it, the interval
\* timer is on or SIGALRM has come: no entry is left behind in the queue, in
\* whatever order sleeps start, end early and expire.
TimerArmed ==
  sleeping # <<>> /\ expiring = None => itimer # None \/ signalTimer

\* "Try to suspend the current thread for at least msecs milliseconds"
\* (nickle.1): a sleep lasts until its time as long as no signal has ended a sleep
\* of the thread, whose entry then cuts a later one short.
SleepsLongEnough ==
  \A t \in Threads : t \notin early /\ ~asleep[t] => now >= until[t]

\* A thread that sleeps is in the queue, so that some timer will wake it.
SleepersQueued == \A t \in Threads : asleep[t] => Queued(t)

\* The repeating timer is queued once, and as long as a file is write blocked.
OneIoTimeout ==
  /\ repeating /\ now < MaxTime => Queued(None)
  /\ \A i, j \in DOMAIN sleeping :
       sleeping[i].who = None /\ sleeping[j].who = None => i = j

\* Every sleeper and the poll of blocked output are queued, and the timer runs for the queue.
EntriesServed == TimersTypeOK /\ TimerArmed /\ SleepersQueued /\ OneIoTimeout

\* "Pause thread execution for 'milliseconds'" (builtin-toplevel.c): a sleep ends.
SleepEnds == \A t \in Threads : asleep[t] ~> ~asleep[t]

=============================================================================
