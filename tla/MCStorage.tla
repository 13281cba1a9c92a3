----------------------------- MODULE MCStorage ------------------------------
(* The structures of the store side by side: a behaviour works on one of them. *)
EXTENDS Stack, Arrays, Mem, TLC

VARIABLE what

Counts == [small |-> 3, large |-> 1, huge |-> 1]
Sym == Permutations(Chunks)

MCInit ==
  /\ what \in {"stack", "array", "heap"}
  /\ StackInit /\ MemInit
  /\ ArrayInit /\ (what # "array" => \A d \in Dims : dims[d] = 0)

MCNext ==
  \/ what = "stack" /\ StackNext /\ UNCHANGED <<arrayVars, memVars, what>>
  \/ what = "array" /\ ArrayNext /\ UNCHANGED <<stackVars, memVars, what>>
  \/ what = "heap" /\ MemNext /\ UNCHANGED <<stackVars, arrayVars, what>>

MCSpec == MCInit /\ [][MCNext]_<<stackVars, arrayVars, memVars, what>>
=============================================================================
