# Nickle in TLA+

TLA+ models of the run time of the nickle interpreter: what is written here is
translated from the C and nickle sources of the repository, model-checked with
TLC on small instances, and in part proved with TLAPS for all instances. The
parts are the scheduler with what threads wait for, jumps, namespaces, hash tables, the
store (stack, arrays, collector), files, numbers and types. Paths and line numbers are
those of the repository.

- [Components](#components): what nickle consists of, and what makes each part correct
- [Modules](#modules): which module models what, and how it corresponds to the code
- [Runs](#runs): what each TLC run asks, with which bounds
- [Fairness](#fairness)
- [Proofs](#proofs)
- [What the checks found](#what-the-checks-found)
- [Not modelled](#not-modelled) and the [plan](#plan)

## Components

Nickle is one UNIX process. It compiles a program to byte code, which one loop
executes for all (green) threads of the program. UNIX signal handlers are the only
true concurrency; threads are switched between instructions.

| component | state | operations | hard behaviour | correct if |
| --- | --- | --- | --- | --- |
| interpreter loop (`execute.c`) | `running`, `signaling`, `aborting`, one flag per kind of signal, `complete`, `partial` | `ThreadsRun`: take signals, choose a thread, execute up to ten instructions | an instruction that cannot finish raises a flag, is abandoned and runs again; signal handlers set flags at any time | a flag reaches the thread that raised it; the most urgent thread runs |
| scheduler (`sched.c`) | run queue and stop queue, linked through `thread.next` and sorted by priority; state, priority and `sleep` of each thread | `ThreadSetState`, `ThreadSleep`, `ThreadsWakeup`, `ThreadFinish`, `ThreadStepped`, join, kill, set_priority, send_signal, `ThreadsSignal` | lists are changed while they are walked; a thread's queue is found from its state | queues and states agree, queues stay sorted, nobody waits for a finished thread |
| semaphores (`sync.c`) | `count` | wait, test, signal | a waiter is woken by one thread and goes on later; waits are two steps | no wakeup lost or invented, first come first served |
| mutexes (`mutex.5c`) | a semaphore and an owner | acquire, try_acquire, release | written in nickle, several instructions each | mutual exclusion; acquire returns |
| timers (`alarm.c`, `io.c`) | the queue `sleeping`, the interval timer, `signalTimer`, `ioTimeoutQueued` | `do_sleep`, `TimerInsert`, `TimerInterrupt`, `IoTimeout` | one interval timer for all entries, entries that outlive their sleep | no entry is left behind; sleeps last long enough and end |
| jumps (`sched.c`, `compile.c`, `execute.c`) | continuations with chains of catches and twixts, `thread->jump` | exceptions, break, continue, return, setjmp and longjmp | the expressions of twixt are run by a jump object that survives several instructions | enter and leave expressions bracket their statements |
| hash tables (`hash.c`) | the box of entries, `count`, the default | get, set, ref, test, delete, keys, copy, resize | deleted entries stay in the chains; pointers into a box that is replaced | behaves as a mapping |
| files (`file.c`, `io.c`, `builtin-file.c`) | buffers, `fileBlocked`, blocked flags, `anyFileWriteBlocked` | read, write, flush, close, `FileCheckBlocked`, `FileFini` | a builtin that blocks in the middle is executed again from its start; three places look at the blocked files | bytes in order, once; blocked threads wake; exit writes the rest |
| value stack (`stack.c`) | chunks, a stack pointer, a saved chunk | push, pop, drop, reset, copy | positions on chunk boundaries | behaves as a sequence |
| allocator (`mem.c`) | blocks, free lists, mark bits, roots | allocate, mark, sweep | an allocation may collect in the middle of an operation | reachable objects survive, others do not |
| arrays and boxes (`array.c`, `box.c`, `ref.c`) | vectors of boxes, dimensions and limits | resize, element access, references | power-of-two growth in any dimension, stale references | elements keep their boxes |
| numbers (`natural.c`, `integer.c`, `int.c`, `divide.c`, `gcd.c`, `rational.c`, `float.c`, `value.c`) | immutable values | arithmetic | digits and carries, estimates that are corrected, change of representation, rounding | equals the mathematical result |
| types (`type.c`) | immutable | which is a supertype, combination by operators, assignment and calls | recursion through named types; the compiler and the run time ask different functions | a value that passes the compiler's check passes the run time's |
| namespaces (`scope.c`, `symbol.c`, `gram.y`) | lists of names, each with a publication and a flag that closes it; `CurrentNamespace`, `TopNamespace` | declare, import, extend, look up, undefine | blocks that end in a parse error; a name means one thing to the compiler and another to a command | private names stay private, a path means one symbol |
| compiler (`compile.c`, `expr.c`) | objects of code under construction | one function per construct | nesting counts for non-local exits | jumps unwind what they must |
| front end, builtins, nickle libraries | | | | |

How they interact. `ThreadsRun` calls the instruction's code; builtins call the
scheduler directly. Everything that cannot finish now calls `SetSignal...` and
returns; the loop then suspends, finishes or throws on behalf of the thread.
`alarm.c` and `io.c` wake threads from the loop, never from a signal handler:
a handler only sets a flag. Mutexes use semaphores as any nickle program does.
Jumps happen inside an instruction (raise, longjmp) or from outside (a signal
raised in another thread). Files put threads to sleep as semaphores do; the loop
wakes them when a signal, a timer or an idle moment makes it look at the blocked
files. Hash tables, arrays and numbers are used by instructions and have no
concurrency of their own, except that a reference made by one instruction is
used by a later one. Everything allocates, so the collector may run in the middle
of any operation of any of them; it finds objects by the stack of references, which
is an instance of the same chunked stack that holds the values of a thread. The
collector calls back into files, which it flushes and closes.

## Modules

| module | models | lines |
| --- | --- | --- |
| `Sched` | the loop, the queues, semaphores, sleep, flags and signal handlers | the core |
| `Semaphore` | abstract: permits, a queue of blocked threads, released threads | |
| `SchedSemaphore` | the refinement mapping from `Sched` to `Semaphore`, and liveness | |
| `Mutex` | EXTENDS `Sched`: programs that call the functions of `mutex.5c` | |
| `Timers` | the timer queue with a clock | |
| `Jumps` | twixt, try, exceptions, non-local exits of one thread | |
| `Scopes` | namespaces, the names in them, and the parser going in and out of them | |
| `Map` | abstract: a mapping with a default | |
| `Hash` | the hash table, and its refinement to `Map` | |
| `Lifo` | abstract: a stack of values with nested marks | |
| `Stack` | the chunked stack of `stack.c`, and its refinement to `Lifo` | |
| `Arrays` | resizable arrays of `NDim` dimensions: which box is where | |
| `Mem` | blocks, free lists, the stack of references, the collector | |
| `FileIO` | two pipes with buffers, blocking builtins, blocked files, collection of files, exit | |
| `Natural` | natural numbers as digits | operators |
| `Gcd` | EXTENDS `Natural`: the two gcd algorithms | operators |
| `Numbers` | EXTENDS `Gcd`: ints, integers, rationals, operators of `value.c`, decimal output of fractions | operators |
| `Floats` | EXTENDS `Numbers`: mantissas, exponents and rounding | operators |
| `Types` | types, subtyping, combination, assignment, calls, defaults | operators |
| `SchedProofs` | theorems about `Sched` | |
| `SemaphoreProofs` | EXTENDS `SchedProofs`: that `Sched` implements `Semaphore`; theorems about `Mutex` | |
| `TimersProofs` | theorems about `Timers` | |
| `JumpsProofs` | theorems about `Jumps` | |
| `ScopesProofs` | theorems about `Scopes` | |
| `HashProofs` | theorems about `Hash`, and that it implements `Map` | |
| `StackProofs` | theorems about `Stack`, and that it implements `Lifo` | |
| `MemProofs` | theorems about `Mem` | |
| `MCSched`, `MCMutex`, `MCTimers`, `MCHash`, `MCFiles` | instances for TLC | |
| `MCStatements` | `Jumps` and `Scopes` side by side | |
| `MCStorage` | `Stack`, `Arrays` and `Mem` side by side | |
| `MCNumbers`, `MCTypes` | pairs of operands and of types, and what the operators say of them | |

Definitions named `X_Something` are mutants: a changed version of `X`, as a
plausible bug would have it, that shows which property notices. They stand in
front of the definition they are a variant of and belong to no specification.
A property of a run is often a conjunction of named parts, each with a comment
of its own; the parts are what hazards and reviewers talk about, the conjunction is
what the run checks.

### Sched

A step is one of:

- the switch of `ThreadsRun` for one instruction (`Execute`: `SemaphoreWait`,
  `ThreadJoin`, `ThreadKill` ...), with everything it calls. The instruction is
  chosen freely from `Instructions` when the thread is at a fresh program
  counter (`inst[t] = None`) and is the same again when it was abandoned;
- what follows the switch (`Post`): `StepDone` for a complete instruction, or
  one action per flag when it is abandoned (`AbortSuspend`, `AbortFinished`,
  `AbortException`, `AbortOther`);
- a step of the loop around it (`Loop`): dispatch, taking the signals, one
  iteration of `ThreadsSignal` (`WalkSignal`) or of `TimerInterrupt` (`Expire`);
- a UNIX signal handler (`Interrupt`, `Alarm`), between any two of them.

`running` and `stopped` are sequences for the linked lists; `phase` is where
the loop is; `complete`, `partial`, `aborting`, `signaling` are the variables of
the same names and `pending` collects `signalSuspend`, `signalFinished`,
`signalException`, `signalError`, `signalInterrupt`, `signalTimer`. `ThreadsWakeup
(x, WakeAll)`, a loop that moves all sleepers, is stated by its result
(`Arrangements`: sorted by priority, stable). Exceptions are reduced to the
number of catch blocks in force for `signal`: an exception goes to the next
instruction of a handler or ends the thread.

Modelled call: `ThreadsRun (0, 0)`, which runs until no thread is left. Left out:
SIGIO and SIGCHLD (they wake threads as `Expire` does), the profiler, debugger
and block handlers.

### Mutex

The three functions of `mutex.5c` as programs for the threads of `Sched`: `at[t]`
is the instruction a thread is at inside of them. `Execute` is restricted to the
instruction at that place, `Complete` moves on. A thread that catches a signal
leaves the function (`Unwind`). `holders` is a history variable: who has the
permit, from the wait's completion to the start of release.
Outside of them a program may use every other instruction of `Sched`, sleep and
signals included; which of them do no harm is said under [Proofs](#proofs). The run
`mutex` has none of them.

### Timers

`sleeping` is the queue with its expiry times, `itimer` the interval timer of
the kernel, `expiring` the loop of `TimerInterrupt` at the time it read (the
clock moves on meanwhile). The repeating entry is `IoTimeout`, queued once while
a file is write blocked. Threads are awake or asleep here. A sleep ended by a
signal leaves its entry behind; `early` remembers the threads that happened to.

### Jumps

The chains `continuation.twixts` and `continuation.catches` are sequences,
innermost first; a sequence stands for a pointer to its first link. `cont.at` is
the program point, as the nesting of statements around it. `open` is a history
variable: the twixts whose enter expression has been evaluated and whose leave
expression has not been started. `saved[x]` is what `NewTwixt` stored;
`JumpContinue`, `ContinuationJump` (with `JumpStart`) and `FarJump` follow the C
functions case by case. A twixt that cannot be reached any more frees its address,
as the collector does. Raising is possible at the places `Escapes` names: in the
body, in enter and in leave expressions. Not modelled: frames, the value stack,
signals between two instructions of the twixt protocol, and statements inside of enter
and leave expressions. These are single steps here; in the code such an expression may call a
function with a twixt statement of its own. If a jump is running the expression, OpEnterDone or
OpLeaveDone of the inner twixt finds `thread->jump` set and goes on with the outer jump
(`execute.c`:1467, 1477). Nothing here says anything about such programs.

### Scopes

`spaces` are the namespaces (`previous`, `publish`, the list `names`), `symbols` the
symbols, both numbered as they are allocated; a symbol has its name, its class and
whether it is complete (a function has its body, a type name its type). `nesting` is what
the parser's stack holds for the blocks around the statement: the namespace to come
back to (for `namespace` the value that the grammar saves in `$2`, "a hack"), the one entered,
and the function that is being defined. The actions are those of the grammar that declare, open
and close (`Declare`, `Typedef`, `Prototype`, `FunctionStart` ..., `Import`), its
recovery (`ParseError`: `error reset`), and, between statements at the top, the command
undefine and the two functions of the debugger that move `TopNamespace`. `Declarations` lists
what a program may declare. `NamespaceFindNamelist` is the one lookup under all others;
`BuildFullname` is what the compiler makes of a path, `NamespaceLocate` what commands make of it.
`abandoned` is a history variable: namespaces left by an error. Left out: the types of symbols
and what they stand for, the tokens of the lexer (which looks names up in the same way), the list
of commands, and the names that the debugger adds to its namespace.

### Hash and Map

`elts` maps slots to key and value; a deleted slot has no key and the value Void, an
unused one has neither (`HashEltValid`). `Find` walks the double-hashing chain
as the C loop does. A reference is a slot in the box that was current when it
was made and dies when the box is replaced (`live`). `Map` is what the tutorial
promises; `ImplementsMap` says that each operation on the table is the same
operation on the mapping.

### Stack and Lifo

`chain` is the list of chunks, `top` the offset of the stack pointer in the last
one, `save` the chunk that is kept back. A position on a chunk boundary has two
addresses, and which one the code uses differs: a push leaves a full chunk only
when the next value comes, a pop leaves an empty one only when the next value is
wanted, a drop stops at the boundary, a reset takes the address it is given. `marks` are
the stack pointers that ENTER took; EXIT and RETURN walk down the chunks for the
one they are given (`Stops`) and would panic without (`MarksStay` excludes it).
`Lifo` is a sequence with marks; `ImplementsLifo` says that every operation
on the chunks is the same operation on the sequence, with the same result.

### Arrays

A vector of boxes is laid out for `dims`, of which the elements within `limits` are
in use. Boxes have no addresses: `used` follows a few of them, each with the
entry of the vector that holds it and the element it has been since the program
first stored to it. `ArraySetDimensions`, `ArrayResize` and the implicit growth of an
assignment beyond the end go through the same two paths as in the code, in place
(`Shrunk`) and by a copy into a new vector.

### Mem

`heap` is one record, because an operation of the collector is a function from heaps to
heaps that others compose: `MemAllocate` may collect and may need a new block,
`Reference` pushes on the stack of references and may allocate a chunk for
it (with the new object in `temp`), `MemAllocateRef` does both. Size classes are
reduced to a small one, one for chunks and "huge". Marking is
stated by its result, the objects that pointers lead to. `WriteFile` makes a file whose Free function
refuses. `cache` is a cache of `value.c` that the collector empties. Nothing is allocated
within a collection here; in the code a flush that blocks sets up `IoTimeout`, whose timer entry is
allocated in the middle of it (`file.c`:1180 says that it may not).

### FileIO

`io` is one record for the same reason: `do_File_putc` calls `FileOutchar`, which calls
`FileOutput` for each byte, which flushes a full buffer, which puts the file on
the list of blocked files. These are functions from `io` to a result and an `io`,
as the C functions are from the store to a result. Buffers are chains of chunks, input
with room in front for what is pushed back. A builtin that would block leaves `op[t]`
set and its thread asleep, and is executed again from its start: what it
output is in the buffers by then (which may exceed their size) and what it read has
been pushed back. `IoInterrupt` (SIGIO), `IoTimeout` (the timer that polls writers), `Idle`
(nothing to run) and `FileFini` (exit) look at the blocked files; the processes at the
other ends read, write and end at any time. `Collect` flushes the files it reaches
and closes the others. Characters are UTF-8 of up to six bytes. Left out: string files, seeking, reopening,
`clear_error`, `ungetb`, `putb`, `error`, line buffering, SIGCHLD.

### Natural, Gcd, Numbers, Floats

No state: operators on tuples of digits in base 2^`Bits` (32 in the code), least
significant first, as the C functions compute them, loops as recursion. `Natural`:
sums with carries, differences, products with Karatsuba's split, Knuth's division
with estimated digits and the add-back, shifts, masks, roots, powers, digits for
printing by halves. `Gcd`: the binary algorithm, Weber's reduction, and the two rounds that
fix it. `Numbers`: ints of `IntBits` bits that wrap where C's do and become integers where
the code notices, two's complement bits of signed magnitudes, fractions in lowest terms,
the length of their period and their decimal output with field width and precision. `Floats`:
odd mantissas of a limited number of bits, alignment, rounding to even, comparison.

### Types

Types are records with a tag; typedefs are looked up in the constant `Typedefs`, so that
they may be recursive. A value is a record with as much as the checks look at: representation,
type of the box or array, elements. `TypeIsSupertype`, `TypeIsOrdered` and
`TypeCombineBinary` are what the compiler asks, `TypeCompatibleAssign` what an
assignment asks at run time, `ValueIsType` what `is_type` asks;
`CompileTypecheckArgs` and `ThreadCall` are the two checks of a call.

## Runs

Deadlock is checked unless said: a nickle program may end, its threads may all
wait for each other, or one may die of an exception, and then nothing happens.

| run | asks | bounds | deadlock |
| --- | --- | --- | --- |
| `sched_kill` | three threads that join, kill, wait and change priorities: do the queues stay consistent and sorted, is nobody left waiting for a finished thread? | two priorities around the one that waiting sets; slices of two instructions | may stop |
| `sched_signals` | two threads, the second created by fork, ^C at any point, SIGALRM, send_signal, catch blocks, sleep, join: the same, and does each flag stay with its thread? | one timer entry and one catch block per thread | may stop |
| `sched_sem` | do the semaphores implement module `Semaphore`, do equal threads take turns, does a released thread go on? | three threads, one semaphore, count within 3, slice of two, so that a thread may also run on | may stop |
| `mutex` | mutual exclusion, a truthful owner, try_acquire that fails only if the mutex is taken, acquire that returns | three threads of equal priority (`PrioritySync` 0: as if all had been raised to it before), one mutex | may stop |
| `timers` | is the interval timer always armed, do sleeps last and end, is IoTimeout queued once? | two sleepers, two entries each (one left over), delays -1 and 2, time until 3, period 2: IoTimeout expires, late or in time, is queued again, and a sleep may end before or after it | may stop |
| `statements` | do enter and leave expressions bracket their statements whatever jump goes through them? Do private names stay private, and does a path mean one symbol, whatever is declared, imported, extended, undefined, debugged or left by an error? | jumps: nesting 3, three twixt addresses, two exceptions, try statements of one and two clauses; names: two names, three namespaces, three symbols, nesting 3, paths of two names, imports of two paths | may stop |
| `hash` | is the table a mapping, through collisions, deletions and growth? | four keys that collide in the first two rows, two values, the first three rows of `hashSets` with their real numbers | checked |
| `storage` | are the chunks a stack, do elements of arrays keep their boxes, does the collector free what is unreachable and nothing else? | stack: chunks of two, four addresses, height 4, two marks; arrays: two dimensions up to 3, two boxes followed; heap: three blocks of three hunks or one, two references, one ENTER, a collection at every second block | may stop |
| `values` | do numbers compute what the integers do, and do the rules for types agree with each other and with what values do? | pairs of 0..255 and 0..80 (as naturals, signed, fractions, floats of 3 to 5 bits), digits of 2, 4 or 6 bits, ints of 3 or 6; 37 types of every kind | stops at the last pair |
| `files` | are bytes read and written in order, once each, do sleepers wake, does exit write the rest? | two threads that share both pipes and an action at each end, buffers and pipes of one byte, a character of two bytes to read and one of one and of two to write | may stop |
| `doc_mutex_sleep` | "Mutexes can be held by only one thread": fails, see below | two threads that acquire and release, sleep and send a signal; slice of one | may stop |
| `doc_hash_default` | the default value is "used to instantiate newly created elements in the hash": fails, see below | those of `hash` | may stop |

Properties by run (the parts of a conjunction in parentheses):

- `sched_kill`: `TypeOK`, `QueuesMatchStates`, `UrgentFirst` (`HighestRuns`,
  `QueuesSorted`), `NoLostJoin`, `FlagsStayWithThread`; `sched_signals`:
  `SignalsLeaveOrder` (all of these but `HighestRuns`); `sched_sem`: `CountIsWaiters`, `ImplementsSemaphore`,
  `RoundRobin`, `ReleasedGoesOn`.
- `mutex`: `OwnerExcludes` (`MutualExclusion`, `OwnerHolds`), `UnlockedCanBeTaken`,
  `TryAcquireTakesUnlocked`, `AcquireReturns`.
- `timers`: `EntriesServed` (`TimersTypeOK`, `TimerArmed`, `SleepersQueued`,
  `OneIoTimeout`), `SleepsLongEnough`, `SleepEnds`.
- `statements`: `Bracketed`, `ChainsSound` (`JumpsTypeOK`, `ChainsMatchStatements`,
  `CatchesNested`, `JumpInBlocks`), `InOrder`, `JumpEnds`; `ScopesSound` (with
  `ScopesTypeOK`), `PrivateHidden`, `CommandsAgree`.
- `hash`: `HashSound` (`HashTypeOK`, `EntriesFound`), `ImplementsMap`.
- `storage`: `StackSound` (`StackTypeOK`, `MarksStay`), `ElementsStay` (`ArrayShapeOK`,
  `ElementsKeepBoxes`, `BoxesDistinct`, `WalkVisitsElements`), `HeapSound` (`MemTypeOK`,
  `ReachableKept`, `FreeListsExact`, `OutputNotLost`), `ImplementsLifo`, `CollectFreesGarbage`.
- `values`: `NaturalsExact`, `NumbersExact`, `FloatsRounded`, `SubtypingSound`, `CheckingSound`;
  their parts are the operators in front of them in `MCNumbers` and `MCTypes`. What these leave
  open: `RepeatIsPeriod` accepts a period that is not the least; `ErrorsAreErrors` is about the types of the
  lists `Plain` and `Loose`; `ResultsTyped` claims nothing where the compiler finds no type; and
  `TailCallsChecked` takes the type of the called function as it is declared, where a variable may
  hold a function with a wider result (`type.c`:1301).
- `files`: `BytesInOrder` (`FilesTypeOK`, `InputInOrder`, `OutputInOrder`, `CharactersComeBack`,
  `ExitFlushes`), `SleepersServed` (`BlockedListed`, `SleepersChecked`, `WriteBlockedPolled`),
  `SleepersWake`, `ExitEnds`.

Why the bounds are enough to be of interest. With three threads a queue has a
middle, a joiner and a bystander; priorities below and above `PrioritySync`
make insertions in front, in the middle and at the end. A slice of two instructions
is the smallest in which a thread both goes on and is switched. Two timer entries per
thread are what one interrupted sleep leaves. Nesting of three has a twixt in a
try in a twixt and the other way round, and jumps whose source and target have
a common twixt, none, or are one inside the other. Four keys pass the limits of the
first row (2 entries in 5 slots) and fill the second one (4 in 7), so that all
kinds of growth, reuse of a deleted slot and rehashing happen. One name for a namespace and for a
function that hides it, and one for a private value and a protected type that replace each other,
meet in up to three namespaces within each other, so that a name is found further out
when it is hidden further in, and an import lands on a name that is there.

Chunks of two have a boundary, an inner position and a chunk that is all below a mark; the
fourth address is for a copy, which needs as many as the stack has. With two dimensions up
to 3 sizes cross the powers of two, in the dimension that is contiguous and in the one
that is not, both growing and shrinking in place and by a copy. A hunk more than
references lets garbage accumulate; a chunk of one reference makes every second
push allocate. Digits of 2 bits make every carry, borrow, split and correction
frequent: numbers up to 255 have four of them, and the wrong estimate that needs the add-back
occurs. The gcd's reduction needs digits wide enough for its
tables, hence 6 bits there and operands that are made larger. A
buffer of a byte makes every character straddle buffers and every second byte block; a pipe of a
byte is full at once.

What the runs leave out on purpose, because the code does not have the property
otherwise (each is in the next section or among the hazards): `mutex` and
`sched_sem` have no kill, signal or sleep (`doc_mutex_sleep` has them, and fails); `statements` has no longjmp further into
the twixts around the thread (`Inwards`), no exception in the expressions
that a jump runs (`Nested`), and no `extend` of a namespace from inside (`ExtendsAround`); `hash` does not read a missing key from a full table
with a default (`ReadsGrow`) and does not use the table between a reference
and the assignment through it (`Interleaved`); `timers` has no sleep of 0;
`storage` creates no array with an empty dimension next to others (`EmptyRows`), has
two dimensions, and asks for the walk of an array only if the outermost dimension is empty or none of the others is; `values` leaves out the operands named under what was found; `files`
has a process that ends some time (`PeerCloses`).

The properties of `values` are action properties, of the steps that leave a pair, because
TLC cannot profile so deep a tree of operators as an invariant.

## Fairness

- `Sched`, `Mutex`: weak fairness of the interpreter's own steps (`Internals`, in `Mutex` those of
  `MutexNext` that are not signal handlers): the loop of `ThreadsRun` goes on as long as it can. Signal
  handlers are not fair.
- `Mutex`: a thread that owns the mutex calls release some time (strong fairness
  per thread, an assumption about the program). `AcquireReturns` assumes in
  addition that no thread is starved (`NoStarvation`), because a thread that has
  blocked once keeps the high priority that waiting gave it.
- `Timers`: time passes, and the loop looks at `signaling` some time.
- `Jumps`: enter and leave expressions end.
- `FileIO`: weak fairness of what the loop of the interpreter does between instructions
  (`IoInterrupt` and `IoTimeout`, if they change anything), of `ThreadsBlock` when no thread can run, of the
  loop of `FileFini`, and of the end. It is spelled out as `[]<>` of disabled or done, with
  the guards in words, because TLC's ENABLED would evaluate these steps again and again.
  Nothing is assumed about threads: a program need not execute another builtin. The
  process that reads W reads on, and, for exit (`PeerCloses`), the one that writes to R ends some
  time; a file blocked for input otherwise keeps `FileFini` in its loop.

## Proofs

Each theorem holds for all values of the constants that its hypotheses allow; the
run named with it checks the same formula on a small instance. The inductive invariants
were themselves checked by TLC before they were proved.

| theorem | property | from | run |
| --- | --- | --- | --- |
| `TypeCorrect`, `QueuesAgree`, `FlagsStay`, `JoinsWake`, `UrgentRuns`, `SignalsKeepOrder` | `TypeOK`, `QueuesMatchStates`, `FlagsStayWithThread`, `NoLostJoin`, `UrgentFirst`, `SignalsLeaveOrder` | any program | `sched_kill`, `sched_signals` |
| `CountsWaiters` | `CountIsWaiters` | `LeftAlone` | `sched_sem` |
| `Implements` | `ImplementsSemaphore` | `Undisturbed` | `sched_sem` |
| `Excludes` | `MutualExclusion`; an owner that is set is the holder | no sleep, or no signals | holds in `mutex`, fails in `doc_mutex_sleep`, which has both |
| `OwnerIsHolder` | `OwnerExcludes` | `NoSignals` | `mutex` |
| `NotLost`, `TryTakes` | `UnlockedCanBeTaken`, `TryAcquireTakesUnlocked` | `LeftAlone` | `mutex` |
| `NoShortSleep` | `SleepsLongEnough` | any program | `timers` |
| `Served` | `EntriesServed` | no `sleep (0)` | `timers` |
| `BracketedHolds`, `InOrderHolds`, `ChainsSoundHolds` | `Bracketed`, `InOrder`, `ChainsSound` | `Orderly` | `statements` |
| `ScopesStaySound`, `PrivateStaysHidden`, `CommandsAlwaysAgree` | `ScopesSound`, `PrivateHidden`, `CommandsAgree` | any program | `statements` |
| `HashStaysSound` | `HashSound` | `~ ReadsGrow` | `hash` |
| `ReadsInstantiate` | `GetInstantiates` | `~ ReadsGrow` | fails in `doc_hash_default`, which has `ReadsGrow` |
| `HashIsMap` | `ImplementsMap` | `~ ReadsGrow`, `~ Interleaved` | `hash` |
| `StackStaysSound`, `NoUnderflow`, `StackIsLifo` | `StackSound`, `ImplementsLifo` | any program | `storage` |
| `HeapStaysSound`, `CollectTakesAll` | `HeapSound`, `CollectFreesGarbage` | any program | `storage` |

Where there is a hypothesis, the code does not keep the promise without it (except for `sleep`
in `Undisturbed`):

- `LeftAlone`: no thread is killed or signalled, no ^C, no semaphore starts with a negative
  count. A killed waiter stays in `count`, and one killed after it was
  woken takes its permit with it; so does a thread that an exception throws
  out of its wait. `Semaphore_new (-1)` counts a waiter that does not exist.
- `Undisturbed`: moreover no `set_priority`, which moves a blocked thread in the stop queue, so
  that it is served out of turn; and no `sleep`, because a thread in the middle of a sleep
  is `partial` as one in the middle of a wait is, by which the mapping of
  `SchedSemaphore` knows the released threads.
- no sleep, or no signals: in `Excludes` a program may kill, join, fork, signal and interrupt threads that
  hold the mutex or wait for it, as long as none sleeps; or sleep and do all of that but signal and
  interrupt. With both, a signal ends a sleep, the entry of that sleep stays in the queue, and
  `_sleepDone` (`alarm.c`:121) later lets the thread out of the wait of `acquire` without a permit.
- `NoSignals`: neither `send_signal` nor ^C. An exception between the wait of `acquire` and its
  assignment to `owner` leaves a mutex that is held and has no owner. Killed
  threads are allowed: they still hold what they held. So is sleep, which nothing ends early then.
- `Orderly`: no exception is raised in an enter or leave expression that a jump runs (`Nested`),
  longjmp goes no further into twixts from inside another one (`Inwards`); both break
  the properties, see [What the checks found](#what-the-checks-found). And no exception arrives
  between the instructions of a twixt statement (`Escapes`): only a signal could raise
  one there, and the twixt, entered but not yet on the chain, would never be left.
- no `sleep (0)`: see [What the checks found](#what-the-checks-found).
- `~ ReadsGrow`: no missing key is read from a full table that has a default; the new entry
  would be counted and stored in the box that has just been replaced (`doc_hash_default`).
- `~ Interleaved`: the table is not used between a reference and the assignment through it, which
  might make it grow or delete the entry. `HashStaysSound` does without.

### Scheduler

The assumption on the constants is `SchedConstants`. None of the properties is
inductive. The inductive invariant is `IInv`:

- `QueuesOK`: the queues are injective sequences of exactly the threads in the
  state they stand for. Insertion and removal find the queue by the state, so
  each update of a state needs the queues of the step before;
- `FieldsOK`: types of the remaining variables;
- `SliceOK`: in a slice, the thread of the loop is the head of the run queue when
  its instruction starts, and one of the two queues or finished after it;
- `WalkOK`: the cursor of `ThreadsSignal` is None or a thread.

The rest needs more, each proved on top of `IInv`: `FlagsOK` (which
flags may be pending in which phase, and that an instruction that raised one
has not claimed completion); `JoinOK` with `ThreadOK` (a suspended thread at a join
sleeps on its target or has been resumed, the step from the look at the target's
state to the suspension included); and `OrderOK` (both queues are sorted by priority,
except that `ThreadSleep` has just raised the thread of the loop, which is about to
be moved). Lemmas about `Insert`, `Remove` and `Arrangements` say which
elements they have, that they have no duplicates and that they stay sorted;
`Resume`, `Finish`, `WakeOne` and `SignalThread` have one lemma each, and the step
lemma has one case per action.

### Semaphores

`Base` collects what holds in any program (`IInv`, `FlagsOK`, `ThreadOK`, `OrderOK`).
On top of it `SleepOK` says that only a thread that is suspended, or has asked to be, sleeps
on something; `CountOK` that the number of threads that sleep on a semaphore is minus its
count, or none. A wait that blocks, the suspension it asks for and the wakeup are steps of
different actions: a thread counts as blocked from the first of them (`Blocked`).

For the refinement, `BlockOK` adds that a thread that sleeps has priority
`PrioritySync` and is in the middle of its instruction. All waiters then have the same
priority, so they stand in the stop queue in the order in which they
blocked, and `WaitQueue` of `SchedSemaphore` (the waiters in queue order, the one not yet
queued last) is the abstract queue. It is chosen as a sequence of the sleepers in the order of
the stop queue: `ListsExist` and `ListsUnique` prove that there is exactly one,
`WaitQueueStops`, `WaitQueueSame`, `ListsAppend` and `ListsTail` what a step does to it. `StepRefines`
then has one case per action; all but the waits, tests and signals stutter
(`NothingSeen`).

### Mutexes

These are in the second half of `SemaphoreProofs`. `MutexInv` follows a permit: `PlaceOK` says for each place in the
functions of `mutex.5c` what the thread there may be doing, `ResultOK` what a `try_acquire` may
have got, `PermitOK` that the permit is in one hand: at most one thread has it
(`Token`: a holder, one that was woken and has not gone on, one that tested
successfully), and the count is then at most 0. `EntryOK` is why sleep does no harm without signals: a
thread has an entry in the timer queue only while it is in that sleep, on nothing else, or finished (`Due`), so
what `Expire` wakes is not a waiter. An exception is the only thing that ends a sleep otherwise, hence the
hypothesis. With ^C the invariant is about the loop until it ends (`phase` "exited"), after which
nothing runs. `OwnOK` (the owner field in each place) and `KeptInv` (the
permit is in somebody's hand when the count is not 1) are proved on top of it.

### Timers

`QueueInv`: who sleeps is queued; a thread none of whose sleeps has been ended by a
signal has one entry, that of its present sleep (`Once`, `EntryOK`); and the loop of
`TimerInterrupt` works with a time that has passed. A thread woken early leaves its entry
behind, which may end its next sleep too soon; `early` remembers it. `TimerArmed` (while the queue is not empty, the timer is on, or
has gone off, or the loop is still taking entries out) is a part of `EntriesServed` and inductive
on top of `QueueInv`.

### Jumps

Neither `Bracketed` nor `ChainsSound` is inductive: a jump leaves and enters twixts one
instruction at a time, and where it goes was stored long before. `Inv` of `JumpsProofs` says:

- `ContOK`, `BufferOK`: the thread's context and that of `setjmp` fit their
  program points (`Fits`): as many twixts as twixt statements, as many catches as
  clauses, and each catch was set up at a place around, with the chains that places
  further out had then (`InForce`). For a handler that has not reached its OpUnwind, the
  clauses to be dropped are counted in (`Pending`);
- `Linked`: the context that a twixt in one of these chains keeps has the rest of the chain,
  and fits. This is what lets `JumpContinue` walk through stored pointers;
- `RestOK`: without a jump, `open` is the chain of the thread;
- `JumpOK`, `Under`: a jump is in an enter or a leave expression. On the way out, what is open is
  what is left to leave, and the common parent is a rest of it; on the way in, what is open is a rest
  of the target's chain and `entering` is the twixt in front of it.

A pointer into a chain is a suffix of a sequence; `IsOuter` and the lemmas about it
(`OuterOrder`, `OuterNest`, `BehindIs`, `InFront`) are what all else is made of. `CountSplit` and `CountFront` say what
the compiler's counts do when statements are left and entered, `GoOut` and `GoIn` that
contexts still fit after it. `ParentIs` and `NextIs` are the two loops of `JumpStart`
and `TwixtNext`; `Continues` is a step of a jump, `Starts` its beginning. There is then one lemma
per action. `LinkedOnce` (a chain has no twixt twice, as each keeps a chain of one length) gives
the second half of `InOrder`.

### Scopes

`ScopesProofs` proves all three properties from `ScopesConstants` alone: for any names, any lists of
paths, any declarations, and statements, errors, commands and debugger sessions in any order and number; also
with `ExtendsAround`, where `ScopesSound` does not say that a namespace the parser is in is open. The
inductive invariant is `ScopeInv`:

- `SymbolsOK`, `SpacesOK`: types; a namespace is behind the one around it, so a search
  ends; and `NamesOK`, for each list: a name once, and what is not public only in the namespace it was declared
  in, with the publication it was declared with. That an entry's publication is its symbol's is what
  `PrivateHidden` needs beyond itself: an import looks at the entries, not at the symbols;
- `NestOK`: what each level of the parser's stack saved is the namespace of the next one, or the top; a
  block's namespace has no name and is in the one that was saved, since `namespace_end` goes to
  `previous` while the end of `namespace` goes to the saved one. The top and the global namespace have no name, so
  neither is ever closed;
- `PublishOK`: a namespace with a name is entered, abandoned or private, and (without `ExtendsAround`) not
  two of them; and the stack has no namespace twice, which is why leaving a level may close it.

The loops are functions on 0..n or 1..n; `Recursion` and `RecursionFrom1` prove that such
functions exist. `FindIs` says that a lookup returns an entry of the name that is shown, or nothing; `FindHere` which
one, if the search does not go on. `RemoveIs`, `AddNameIs` and `ImportIs` say that the lists
stay in order when names are removed, added and imported; a namespace may be imported into itself. `MeaningIs` carries this along
a path. `PathsAgree` compares `BuildFullname` and `NamespaceLocate` component by
component: the first search ends in the global namespace, where nothing is around, and the others do not
go on; where a lookup with the private names finds another entry than one without, it would be of the
same name in the same list (`PlaceAgrees`). `PushIs`, `PopIs`, `PublishEnters`, `PublishLeaves`, `PublishCloses` are the
parser's stack, `StartStep`, `EndStep`, `SameStep` and `ResetStep` what the actions have in common, with one
lemma per action on top.

### Hash

`HashProofs` proves that a table behaves as a mapping, for any finite set of keys, any hash
of each, and any rows. Of the rows it assumes what those of `hash.c` have (`HashRows`): prime
sizes, larger than the number of entries, which goes up from row to row; and that
the last row has enough (`HashKeysFit`). `~ ReadsGrow` also excludes what follows such a read:
the count is then too high for good.

The inductive invariant is `HashInv`. Its main part is `Chained (e, r)`: a search
for a key does not end before the slot the key is in (`Ahead`). That every entry is found is not
inductive by itself, since a change of one slot may be in the middle of the chains of other
keys; `ChangeOK` says that `Chained` stays as long as no used slot becomes an unused one again.
Beside it are `Good` (the count, and that it is within the entries of the row) and
`RefOK` (a reference into the current box is to a slot that has been used); without
interleaving also `Held`: the reference's slot has its key still, and the value of a slot that is
not in use is none or void, which is what a new reference without a default sees.

- `ChainIs`: the chain of each key visits every slot once. The step is less than the
  size, which is prime, so two visits of the same slot would make a product of smaller
  numbers a multiple of it (`SameRest`); a one-to-one function of a finite set to itself is onto.
- `FindIs`: a search ends where the entry is, or where it can be put (`Fits`), if any
  slot has no key; `RoomIs`, `CountIs` show by counting that one has none.
- `RehashIs`: after the loop of `Rehash` the new table is chained, and has the entries of
  the old one. It is an induction over the slots, on the recursive function in `Rehash`, which
  `RehashSteps` proves to exist.
- `Content` is the set of the entries. `Put` and `Cut` say what an operation does to it, whatever the
  slots, and `PutMap`, `CutMap`, `SameMap` and `FindMap` what that means for the mapping.

There is then one lemma per operation, which proves both that `HashInv` stays and that the step is
one of `Map`; `InsertIs` is the part that `HashGet`, `HashSet` and `HashRef` have in common, growth included.

### Stack

`StackProofs` proves for chunks of any size, any number of them
and any nesting of marks, from `StackConstants` alone.

`StackSound` is inductive as it stands, because `MarksStay` also says in which order
the marks are: EXIT and RETURN leave all chunks above one mark, and the other
marks stay in the chain only if none of them is in a higher chunk, and below the top
only if none is higher in the same chunk (`ResetPlaced`). A pop and a drop are
allowed by a height; `Lower` turns heights, which are products with the size of a
chunk, into an order of places (`LowerPlaced`). `DropPlace` is the arithmetic of the loop of
`StackDrop`: it ends in a chunk of the list, at an offset of at least one, and exactly as
much lower as was asked. `NoUnderflow` says that EXIT and RETURN find the chunk they return to.

The refinement rests on `Where` and `TopPlace` (the chunk and offset of a height, and
back), `OnTop` (a push, in the same chunk or a new one, overwrites nothing that is below the
stack pointer), `CutContents` (chunks that are left take nothing with them that is below the place
they are left for) and `SameHeights` (marks keep their heights while the chunks they are in
stay). There is one lemma per operation, `PushLifo` to `CopyLifo`, that it is the operation of `Lifo` with the
same result.
The bounds `MaxHeight` and `MaxMarks` are
parameters of the theorems. `Chunks` is one too: with finitely many a push may find no address,
and is then not taken, as if memory had run out.

### Storage

`MemProofs` proves, from `MemConstants` alone, that whatever is reachable stays allocated and the
free lists are exact: for blocks and chunks of any size, any number of blocks, and
collections at any allocation. The inductive invariant is `MemInv`; its main part,
`Sound (h, P)`, is about a heap within a call, where `P` holds the object
that has been taken from its free list and has no type yet (it looks free, and must neither be
on a list nor be given out again):

- `PointersOK`: no cell points to a free hunk, garbage included. That all
  reachable objects are allocated is not inductive by itself: what makes it so is that an object
  and what it points to go in the same collection, or only the object does;
- `PlacesOK`: what is allocated is in a block that is in use, so that a block is given back
  with free hunks only;
- `ListsOK`: each free list has the free hunks of its class but those of `P`, once each;
- `StackOK`, `RootsOK`: the chunks, the one kept back, the cache and the files with output have
  their types, and each reference, `temp` included, is to an object that is allocated or in `P`;
- `EntersOK`: the stack pointers of ENTER are on the stack and go up, so those that are left are
  still on it after an EXIT.

The lemmas follow the calls. `ClosureIs` and `ClosureLeast` say of marking that it ends in the
least closed set with the roots: as many steps as there are hunks are enough,
because each step that is not the last adds one. `KeptIs`, `SweptIs` and `ListsIs` are the
sweep, by induction over the blocks. `CollectSound` puts them together; then `TakenSound` (the head of
a free list), `BlockSound` (a new block), `AllocateSound` (either, perhaps after a
collection), `ReferenceSound` (a push, which may allocate a chunk while the reference is in
`temp`), `ConstructSound` (ALLOCATE, where the pushed object has no type), `ResetSound`
(EXIT), and one lemma per action. `CollectTakesAll` needs moreover that the roots after
a collection are those before it and the files that refused to be freed. The assumption that there is
at least one block (`MaxBlocks`) is that `MemInitialize` and the first chunk do not already fail.

### Model-checked only

Everything about arrays and files, all of `values`, and all liveness
(`RoundRobin`, `ReleasedGoesOn`, `AcquireReturns`, `SleepEnds`, `JumpEnds`, those of `FileIO`).
Liveness is out of the prover's reach. So are recursive operators, on which all arithmetic on digits
rests: `Natural` and what extends it, `Types`, `FileIO`, `MCNumbers` and `MCTypes` declare
RECURSIVE operators and hold no theorems. Recursive functions of numbers are not: the loops of
`Rehash` and of the sweep, paths and imports are proved about by induction with a lemma (`UpTo`) whose
parameter is a set. `ElementsStay` is not proved because it does not hold for every number of
dimensions (see `NDim = 3` below), and for two it needs products of variables, on which the
provers fail.

## What the checks found

Two runs end in a violation; `PROJECT.json` quotes what the documentation says.

- `doc_mutex_sleep`: two threads hold a mutex. A signal ends the sleep of one, which catches it and calls
  acquire; when the sleep would have ended, its entry in the timer queue makes the thread run, and as
  `partial` is set its wait is complete.
- `doc_hash_default`: the default of a missing key read from a full table is
  stored in the table that has just been replaced.

These come back when a constant is changed:

- `Deltas <- Immediate` in `timers.cfg`: `sleep (0)` at the head of the queue calls `setitimer`
  with 0, which turns the timer off. The thread, and whoever sleeps behind it,
  waits until something else sets the timer (`EntriesServed`, `SleepEnds`).
- `Inwards = TRUE` in `statements.cfg`: a longjmp from a twixt to a place further inside the same twixt
  starts by leaving that twixt, and then all outer ones, because the walk up
  stops at a parent it has already passed (`Bracketed`).
- `Nested = TRUE` in `statements.cfg`: an exception raised in a leave expression that a jump runs,
  and caught inside, leaves the jump pending; the next enter expression goes
  on with it (`ChainsSound`, `Bracketed`).
- `ExtendsAround = TRUE` in `statements.cfg`, without `\/ ExtendsAround` in `ScopesSound`: an `extend
  namespace` of a namespace around it closes that namespace at its end, and the rest of the
  block does not see its own private names; a type declared ahead there is declared anew.
- `Interleaved = TRUE` in `hash.cfg`: an assignment to `h[k]` is lost if the right hand side makes
  `h` grow (`ImplementsMap`).
- `PeerCloses = FALSE` in `files.cfg`: exit does not return as long as a file is blocked for input
  from a process that neither writes nor ends, once the loop of `FileFini` is entered
  (`ExitEnds`); the manual says that exit flushes and ends (`nickle.1.in`:690).
- `EmptyRows = TRUE` in `storage.cfg`: growing an array with an empty dimension sets limits that
  the dimensions do not reach, and TLC stops where `ElementsStay` looks at an entry that the vector
  does not have.
- `NDim = 3` in `storage.cfg`: halving an odd middle dimension misplaces elements, and the walk of
  comparison and hash visits unused entries (`ElementsStay`).

Found while modelling, and left out of what the properties ask:

- Scheduling: a waiter that is killed or signalled takes its permit with it; the
  entry of an interrupted sleep later wakes its thread from any other wait, not only that of `doc_mutex_sleep`.
- Numbers: the add-back of `NaturalDivide` leaves a remainder with zeros at its
  top (`divide.c`); `land` of two negative integers and `lor` with a negative one can be
  wrong, since the two's complement is taken in each operand's own length (`integer.c`); -MIN, MIN / -1 and
  MIN // -1 wrap for ints (`int.c`); `IntegerReduce` uses a strict comparison, so the greatest int may
  exist in two representations, which hash differently; `NaturalSqrt` rounds
  up, but takes 2 for the root of 5, where its bisection begins (`natural.c`:728); `FactorBump` yields
  divisors out of order, so 1/31 prints a period of 30 digits instead of 15; `CheckDecimalLength`
  cuts off when the offset is the precision; a shift by MIN recurses. Powers of integers with negative exponents
  have the static type of an integer (`type.c`:745-759) and are fractions.
- Floats: if one operand of a sum is so small that the other one would not fit beside it in its precision,
  the other one is the result (`float.c`:364-403). That is the nearest float, unless the large operand is a power of
  two and the small one is taken from it: there the floats below are half as far apart, and 4 in 3 bits
  minus 0.375 is 4, although 3.5 is nearer to 3.625. `FloatsNearest` states both cases
  (`Absorbed`); no documentation promises the nearest float. A fraction becomes a float by three roundings, so it is less than two units of
  the last place off, not half a unit; a double is rounded to 52 of its 53 bits.
- Types: `is_type` asks for the supertype the wrong way round for references to null, arrays with a type of
  their own, hashes, results of functions and members of structs (`type.c`:1449, 1455, 1499, 1528, 1545), although
  its comment says subtype (`type.c`:1407): an array of integers is not a `real[*]`, and an array of reals is an
  `int[*]`. What it accepts can at least be assigned (`TypedAssignable`). The guard against endless recursion in `TypeIsSupertype` looks at one of the two types only, so
  two recursive types that differ further in are taken for subtypes of each other
  (`type.c`:421-432); the sum of structs with clashing members keeps the first; open dimensions and
  hash keys make the relation intransitive; functions and structs may be refused by the compiler where
  the run time accepts them.
- Namespaces: a parse error in a namespace leaves it open, and its private names can be seen from outside
  from then on (`gram.y`:217, the code after the block is not reached); in the debugger, the private names
  of the namespace in which the program has stopped are not seen, and undefine removes nothing for a
  name further out, since `NamespaceLocate` returns the namespace that the search began in
  (`scope.c`:278); a function declared ahead in a namespace further out is the one that a definition
  further in defines, whatever its publication (`gram.y`:841).
- Arrays: an array of which another dimension than the outermost is empty is walked all the same by comparison,
  hash and output, through entries that are not in use, because `ArrayLimit` multiplies by
  `dims` and not by `limits` (`array.c`:48); shrinking with a new vector keeps the boxes of elements that go, although the comment at
  `array.c`:388 says they are clean.
- Files: a thread that sleeps for a file which another thread closes is never woken
  (`file.c`:1927); `select` blocks without a signal mask (`file.c`:1953); `do_File_end` pushes
  a byte 255 back at the end of the file (`Stray`); flushing during a collection may
  allocate a timer entry; `FileReopen` ignores the flags it has computed.

## Not modelled

- The lexer and the grammar but for the actions in `Scopes` (generated), printing, scanning and pretty printing (formatting),
  the mathematical library (approximation), foreign functions, debugger and profiler,
  sockets (thin wrappers), tests, examples and packaging: not intended.
- Of numbers: `FloatPrint`, `FloatExp`, doubles, complex numbers, hashes. Of types: `TypeIsCotype`, which is
  compiled out. Of files: what `FileIO` lists above. Of arrays: `BoxSetReplace`, which has no caller.
- Strings, and the compiler but for its checks of types and its non-local exits: see the plan.
  Of namespaces: what `Scopes` lists above.

## Plan

What is left, in this order; there are a limited number of questions worth a run
each, so new modules share a run with what is like them.

1. Signals between the instructions of the twixt protocol in `Jumps`, with a property that holds.
2. `FloatPrint` and `FloatExp`; string operations on UTF-8.
3. Files of three kinds (pipes, terminals, strings), reopening, and the composition of `FileIO` with
   `Timers`.
