------------------------------- MODULE Jumps -------------------------------
(***************************************************************************)
(* Non-local control flow in one nickle thread: try and twixt statements,  *)
(* exceptions, break / continue / return, setjmp and longjmp (sched.c,     *)
(* execute.c, compile.c). A jump runs the leave expressions of the twixts  *)
(* it goes out of and the enter expressions of those it goes into.         *)
(*                                                                         *)
(* The pointer chains of twixts and of catches are sequences, innermost    *)
(* first. A program point is the nesting of statements around it: 0 stands *)
(* for a twixt and n > 0 for a try with n catch clauses. Function frames   *)
(* and the value stack are left out.                                       *)
(*                                                                         *)
(* Enter and leave expressions are steps without statements in them. In    *)
(* the code they may call functions with twixt statements: while a jump    *)
(* runs such an expression, the OpEnterDone or OpLeaveDone of the inner    *)
(* twixt finds thread->jump set and goes on with that jump (execute.c:1467 *)
(* and 1477) instead of with the inner statement.                          *)
(***************************************************************************)
EXTENDS Integers, Sequences, FiniteSets, SequencesExt

CONSTANTS
  Twixts,      \* addresses of twixt objects
  Exceptions,
  Clauses,     \* the lists of catch clauses of the program's try statements
  Depth,       \* bound: nested statements
  Escapes,     \* the values of pc at which an exception may be raised
  LongJumps,   \* whether the program uses setjmp and longjmp
  Inwards,     \* ... to go further into twixts from inside another one
  Nested,      \* whether exceptions are raised in the expressions a jump runs
  None

\* struct _catch: `at`, `twixts` and, with the catch clauses further out, the
\* rest of the chain it is in are its continuation; `peers` are the clauses of
\* the same statement behind it.
Catches ==
  [exception : Exceptions, peers : Nat, at : Seq(Nat), twixts : Seq(Twixts)]

\* struct _continuation
Contexts == [at : Seq(Nat), twixts : Seq(Twixts), catches : Seq(Catches)]

\* Where a jump goes to.
Targets == [context : Contexts, pc : {"body", "handler", "dead"}, nest : Nat]

\* struct _jump
JumpObjects ==
  [leave : Seq(Twixts), enter : Seq(Twixts), parent : Seq(Twixts),
   entering : Seq(Twixts), to : Targets]

ASSUME JumpsConstants ==
  /\ Clauses \subseteq Seq(Exceptions) \ {<<>>}
  /\ Depth \in Nat
  /\ LongJumps \in BOOLEAN /\ Inwards \in BOOLEAN /\ Nested \in BOOLEAN
  /\ None \notin Twixts /\ None \notin Contexts /\ None \notin JumpObjects

VARIABLES
  cont,     \* thread->continuation: the program point and the two chains
  pc,       \* what the thread is executing there
  block,    \* the twixt whose enter or leave expression that is
  nest,     \* the catch clauses OpUnwind is going to drop
  saved,    \* twixt->continuation
  jump,     \* thread->jump
  buffer,   \* what setjmp has stored
  open      \* twixts of which enter has been evaluated and leave has not,
            \* last first

vars == <<cont, pc, block, nest, saved, jump, buffer, open>>

Context(at, twixts, catches) == [at |-> at, twixts |-> twixts, catches |-> catches]

Target(c, where, drop) == [context |-> c, pc |-> where, nest |-> drop]

Top == Context(<<>>, <<>>, <<>>)

Points == {"body", "enter", "entered", "leave", "handler", "dead"}

\* The last n elements of s.
Outer(s, n) == SubSeq(s, Len(s) - n + 1, Len(s))

\* The chain behind the first n links of s.
Behind(s, n) == SubSeq(s, n + 1, Len(s))

\* TwixtNext: the chain enter from the twixt on that follows parent, or nothing.
TwixtNext(parent, enter) ==
  IF enter = parent THEN <<>> ELSE Outer(enter, Len(parent) + 1)

\* The twixts that two chains share, as JumpStart finds them.
CommonParent(leave, enter) ==
  LET shared == {n \in 0..Len(leave) : n <= Len(enter) /\ Outer(leave, n) = Outer(enter, n)}
  IN  Outer(leave, CHOOSE n \in shared : \A m \in shared : m <= n)

NewJump(leave, enter, parent, to) ==
  [leave |-> leave, enter |-> enter, parent |-> parent,
   entering |-> TwixtNext(parent, enter), to |-> to]

-----------------------------------------------------------------------------
(* Jumps *)

\* The thread goes on at a target.
GoTo(to) ==
  /\ cont' = to.context /\ pc' = to.pc /\ nest' = to.nest
  /\ block' = None

\* Evaluation of the enter or the leave expression of x starts.
Evaluate(x, which) ==
  /\ cont' = saved[x] /\ pc' = which /\ block' = x /\ nest' = 0

\* Mutant: the twixts around both ends are left as well.
JumpContinue_NoParent(j, opened) ==
  \/ /\ j.leave # <<>>
     /\ LET x == Head(j.leave) IN
          /\ Evaluate(x, "leave")
          /\ jump' = [j EXCEPT !.leave = saved[x].twixts]
          /\ open' = RemoveFirst(opened, x)
  \/ /\ j.leave = <<>> /\ j.entering # <<>>
     /\ Evaluate(Head(j.entering), "enter")
     /\ jump' = [j EXCEPT !.entering = TwixtNext(j.entering, j.enter)]
     /\ open' = opened
  \/ /\ j.leave = <<>> /\ j.entering = <<>>
     /\ GoTo(j.to)
     /\ jump' = None
     /\ open' = opened

\* Mutant: the jump is not dropped at its end.
JumpContinue_KeepsJump(j, opened) ==
  \/ /\ j.leave # <<>>
     /\ LET x == Head(j.leave) up == saved[x].twixts IN
          /\ Evaluate(x, "leave")
          /\ jump' = [j EXCEPT !.leave = IF up = j.parent THEN <<>> ELSE up]
          /\ open' = RemoveFirst(opened, x)
  \/ /\ j.leave = <<>> /\ j.entering # <<>>
     /\ Evaluate(Head(j.entering), "enter")
     /\ jump' = [j EXCEPT !.entering = TwixtNext(j.entering, j.enter)]
     /\ open' = opened
  \/ /\ j.leave = <<>> /\ j.entering = <<>>
     /\ GoTo(j.to)
     /\ jump' = j
     /\ open' = opened

\* JumpContinue of the jump j: out of the next twixt, or into the next one, or
\* to the target; `opened` is `open` after what has just been evaluated.
JumpContinue(j, opened) ==
  \/ /\ j.leave # <<>>
     /\ LET x == Head(j.leave) up == saved[x].twixts IN
          /\ Evaluate(x, "leave")
          /\ jump' = [j EXCEPT !.leave = IF up = j.parent THEN <<>> ELSE up]
          /\ open' = RemoveFirst(opened, x)
  \/ /\ j.leave = <<>> /\ j.entering # <<>>
     /\ Evaluate(Head(j.entering), "enter")
     /\ jump' = [j EXCEPT !.entering = TwixtNext(j.entering, j.enter)]
     /\ open' = opened
  \/ /\ j.leave = <<>> /\ j.entering = <<>>
     /\ GoTo(j.to)
     /\ jump' = None
     /\ open' = opened

\* ContinuationJump, with JumpStart when the chains of twixts differ.
ContinuationJump(to) ==
  /\ IF cont.twixts = to.context.twixts
     THEN GoTo(to) /\ UNCHANGED <<jump, open>>
     ELSE JumpContinue(NewJump(cont.twixts, to.context.twixts,
                               CommonParent(cont.twixts, to.context.twixts), to),
                       open)
  /\ UNCHANGED <<saved, buffer>>

-----------------------------------------------------------------------------
(* Twixt *)

Deeper == pc = "body" /\ Len(cont.at) < Depth

\* twixt (enter; leave) statement: evaluation of the enter expression starts.
Enter ==
  /\ Deeper
  /\ pc' = "enter"
  /\ UNCHANGED <<cont, block, nest, saved, jump, buffer, open>>

\* The addresses that neither the thread, nor setjmp, nor a jump can reach.
Free ==
  LET chains == {cont.twixts, open}
                \cup (IF buffer = None THEN {} ELSE {buffer.twixts})
                \cup (IF jump = None THEN {}
                      ELSE {jump.leave, jump.enter, jump.parent, jump.entering})
  IN  Twixts \ (UNION {ToSet(c) : c \in chains} \cup {block})

\* The address of the next twixt object.
New == CHOOSE x \in Free : TRUE

\* OpEnterDone: on into the statement, or on with the jump.
EnterDone ==
  /\ pc = "enter"
  /\ block = None => Free # {}
  /\ LET x == IF block = None THEN New ELSE block IN
       \/ /\ jump = None
          /\ open' = Cons(x, open)
          /\ pc' = "entered" /\ block' = x
          /\ UNCHANGED <<cont, nest, jump>>
       \/ /\ jump # None
          /\ JumpContinue(jump, Cons(x, open))
  /\ UNCHANGED <<saved, buffer>>

\* OpTwixt
Twixt ==
  /\ pc = "entered"
  /\ saved' = [x \in Twixts |-> IF x = block THEN cont
                               ELSE IF x \in Free THEN Top ELSE saved[x]]
  /\ cont' = Context(Cons(0, cont.at), Cons(block, cont.twixts), cont.catches)
  /\ pc' = "body" /\ block' = None
  /\ UNCHANGED <<nest, jump, buffer, open>>

\* OpTwixtDone, and evaluation of the leave expression starts.
TwixtDone ==
  /\ pc = "body" /\ cont.at # <<>> /\ Head(cont.at) = 0
  /\ cont' = Context(Tail(cont.at), Tail(cont.twixts), cont.catches)
  /\ pc' = "leave" /\ block' = Head(cont.twixts)
  /\ open' = RemoveFirst(open, Head(cont.twixts))
  /\ UNCHANGED <<nest, saved, jump, buffer>>

\* OpLeaveDone: on behind the statement, or on with the jump.
LeaveDone ==
  /\ pc = "leave"
  /\ \/ /\ jump = None
        /\ pc' = "body" /\ block' = None
        /\ UNCHANGED <<cont, nest, jump, open>>
     \/ /\ jump # None
        /\ JumpContinue(jump, open)
  /\ UNCHANGED <<saved, buffer>>

-----------------------------------------------------------------------------
(* Try *)

Catch(e, peers) ==
  [exception |-> e, peers |-> peers, at |-> cont.at, twixts |-> cont.twixts]

\* The OpCatch instructions of a try statement, one for each of its clauses.
Handlers(es) == [i \in DOMAIN es |-> Catch(es[Len(es) + 1 - i], Len(es) - i)]

Try(es) ==
  /\ Deeper
  /\ cont' = Context(Cons(Len(es), cont.at), cont.twixts, Handlers(es) \o cont.catches)
  /\ UNCHANGED <<pc, block, nest, saved, jump, buffer, open>>

\* Mutant: one of the clauses stays in force.
EndTry_One ==
  /\ pc = "body" /\ cont.at # <<>> /\ Head(cont.at) > 0
  /\ cont' = Context(Tail(cont.at), cont.twixts, Tail(cont.catches))
  /\ UNCHANGED <<pc, block, nest, saved, jump, buffer, open>>

\* OpEndCatch
EndTry ==
  /\ pc = "body" /\ cont.at # <<>> /\ Head(cont.at) > 0
  /\ cont' = Context(Tail(cont.at), cont.twixts, Behind(cont.catches, Head(cont.at)))
  /\ UNCHANGED <<pc, block, nest, saved, jump, buffer, open>>

\* RaiseException: to the innermost clause for e, or, without one, out of all
\* twixts to the null pc of EmptyContinuation, where the thread ends.
Raise(e) ==
  /\ pc \in Escapes /\ (Nested \/ jump = None)
  /\ LET for == {i \in DOMAIN cont.catches : cont.catches[i].exception = e} IN
     \/ /\ for = {}
        /\ ContinuationJump(Target(Top, "dead", 0))
     \/ \E i \in for :
          LET c == cont.catches[i] IN
          /\ \A k \in for : i <= k
          /\ ContinuationJump(
               Target(Context(c.at, c.twixts, Behind(cont.catches, i)), "handler", c.peers))

\* OpUnwind: the handler runs without the other clauses of its try statement.
Unwind ==
  /\ pc = "handler"
  /\ cont' = [cont EXCEPT !.catches = Behind(@, nest)]
  /\ pc' = "body" /\ nest' = 0
  /\ UNCHANGED <<block, saved, jump, buffer, open>>

-----------------------------------------------------------------------------
(* Break, continue, return; setjmp and longjmp *)

\* Catch clauses and twixts of nested statements (_CompileNonLocal).
ClausesIn(at) == Cardinality(UNION {{i} \X (1..at[i]) : i \in DOMAIN at})

TwixtsIn(at) == Cardinality({i \in DOMAIN at : at[i] = 0})

\* OpFarJump out of n statements: FarJumpContinuation
FarJump(n) ==
  /\ pc = "body" /\ n \in 1..Len(cont.at)
  /\ LET left == SubSeq(cont.at, 1, n)
         to   == Context(Behind(cont.at, n), Behind(cont.twixts, TwixtsIn(left)),
                         Behind(cont.catches, ClausesIn(left)))
     IN  ContinuationJump(Target(to, "body", 0))

SetJmp ==
  /\ LongJumps /\ pc = "body"
  /\ buffer' = cont
  /\ UNCHANGED <<cont, pc, block, nest, saved, jump, open>>

\* `to` is further inside of the twixts that the thread is in.
FurtherIn(to) ==
  /\ cont.twixts # <<>> /\ Len(to.twixts) > Len(cont.twixts)
  /\ Outer(to.twixts, Len(cont.twixts)) = cont.twixts

LongJmp ==
  /\ pc = "body" /\ buffer # None
  /\ Inwards \/ ~FurtherIn(buffer)
  /\ ContinuationJump(Target(buffer, "body", 0))

-----------------------------------------------------------------------------
Init ==
  /\ cont = Top /\ pc = "body" /\ block = None /\ nest = 0
  /\ saved = [x \in Twixts |-> Top]
  /\ jump = None /\ buffer = None /\ open = <<>>

Next ==
  \/ Enter \/ EnterDone \/ Twixt \/ TwixtDone \/ LeaveDone
  \/ EndTry \/ Unwind \/ SetJmp \/ LongJmp
  \/ \E es \in Clauses : Try(es)
  \/ \E e \in Exceptions : Raise(e)
  \/ \E n \in 1..Depth : FarJump(n)

\* Evaluation of enter and leave expressions ends.
Spec == Init /\ [][Next]_vars /\ WF_vars(EnterDone \/ LeaveDone)

-----------------------------------------------------------------------------
(* Properties *)

JumpsTypeOK ==
  /\ cont \in Contexts /\ saved \in [Twixts -> Contexts]
  /\ pc \in Points /\ block \in Twixts \cup {None} /\ nest \in Nat
  /\ jump \in JumpObjects \cup {None} /\ buffer \in Contexts \cup {None}
  /\ open \in Seq(Twixts)
  /\ \A i \in DOMAIN cont.twixts :
       saved[cont.twixts[i]].twixts = Outer(cont.twixts, Len(cont.twixts) - i)

\* "Ensures that the first expr will always have been evaluated whenever control
\* flow passes into any part of statement and ensures that the second expr will
\* be evaluated anytime control flow passes out" (tutorial, Twixt): in the body of
\* statements, the twixts that have been entered and not left are exactly those
\* around the statement, however control got there. An unhandled exception ends the
\* thread only after all leave expressions.
Bracketed ==
  /\ pc = "body" => open = cont.twixts
  /\ pc = "dead" => open = <<>>

\* "That order is guaranteed": a leave expression is that of the twixt entered
\* last, and an enter expression is not evaluated twice without the leave.
InOrder ==
  [][/\ pc' = "leave" => open # <<>> /\ open' = Tail(open)
     /\ Len(open') > Len(open) => Head(open') \notin ToSet(open)]_vars

\* The chains have as many links as the statements around the thread's program
\* point have twixts and catch clauses: the counts that the compiler puts into
\* OpFarJump, OpEndCatch and OpUnwind (`while (twixts--) twixt = ...`) never run
\* off a chain or stop short.
ChainsMatchStatements ==
  pc \notin {"handler"} =>
    /\ Len(cont.twixts) = TwixtsIn(cont.at)
    /\ Len(cont.catches) = ClausesIn(cont.at)

\* A catch clause in force was set up in twixts that are all still around the
\* thread, an outer one in fewer: an exception only ever leaves twixts.
CatchesNested ==
  \A i \in DOMAIN cont.catches :
    LET c == cont.catches[i].twixts IN
    /\ Len(c) <= Len(cont.twixts) /\ Outer(cont.twixts, Len(c)) = c
    /\ i > 1 => Len(c) <= Len(cont.catches[i - 1].twixts)

\* A jump that is under way is in an enter or a leave expression; otherwise the
\* OpEnterDone of the next twixt would go on with it.
JumpInBlocks == jump # None => pc \in {"enter", "leave"}

\* The chains and the jump are those of the place the thread is at.
ChainsSound == JumpsTypeOK /\ ChainsMatchStatements /\ CatchesNested /\ JumpInBlocks

\* A jump arrives.
JumpEnds == jump # None ~> jump = None

=============================================================================
