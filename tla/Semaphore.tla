----------------------------- MODULE Semaphore -----------------------------
(***************************************************************************)
(* What the Semaphore builtins promise (builtin-semaphore.c, nickle.1):    *)
(* a wait takes a permit or blocks; a signal lets the thread go that has   *)
(* been blocked the longest, or leaves a permit when nobody is blocked.    *)
(***************************************************************************)
EXTENDS Integers, Sequences

CONSTANTS Threads, Semaphores, Permits

VARIABLES permits,   \* [Semaphores -> Nat]
          blocked,   \* [Semaphores -> sequence of threads, longest wait first]
          released   \* threads let go by a signal that have not gone on yet

vars == <<permits, blocked, released>>

Init ==
  /\ permits = Permits
  /\ blocked = [s \in Semaphores |-> <<>>]
  /\ released = {}

\* A wait, or a successful test, that does not block.
Pass(s) ==
  /\ permits[s] > 0
  /\ permits' = [permits EXCEPT ![s] = @ - 1]
  /\ UNCHANGED <<blocked, released>>

Block(t, s) ==
  /\ permits[s] = 0
  /\ t \notin released
  /\ \A r \in Semaphores : \A i \in DOMAIN blocked[r] : blocked[r][i] # t
  /\ blocked' = [blocked EXCEPT ![s] = Append(@, t)]
  /\ UNCHANGED <<permits, released>>

Signal(s) ==
  \/ /\ blocked[s] = <<>>
     /\ permits' = [permits EXCEPT ![s] = @ + 1]
     /\ UNCHANGED <<blocked, released>>
  \/ /\ blocked[s] # <<>>
     /\ released' = released \cup {Head(blocked[s])}
     /\ blocked' = [blocked EXCEPT ![s] = Tail(@)]
     /\ UNCHANGED permits

GoOn(t) ==
  /\ t \in released
  /\ released' = released \ {t}
  /\ UNCHANGED <<permits, blocked>>

Next ==
  \/ \E s \in Semaphores : Pass(s) \/ Signal(s)
  \/ \E t \in Threads : GoOn(t) \/ \E s \in Semaphores : Block(t, s)

Spec == Init /\ [][Next]_vars

=============================================================================
