-------------------------------- MODULE Lifo --------------------------------
(***************************************************************************)
(* What stack.h promises: a stack of values, the marks that ENTER takes of *)
(* its height, and a return to a mark that leaves everything below it as   *)
(* it is. Marks nest, as the C functions that take them do.                *)
(***************************************************************************)
EXTENDS Integers, Sequences

CONSTANTS Values, MaxHeight

VARIABLES contents,   \* the values, the last one on top
          heights,    \* the marks that are still in use
          result      \* what the last operation returned

\* What an operation returns that has no value to return.
Nothing == "nothing"

lifoVars == <<contents, heights, result>>

\* The stack without its top i values.
Without(i) == SubSeq(contents, 1, Len(contents) - i)

\* No operation goes below the innermost mark.
Spare == Len(contents) - (IF heights = <<>> THEN 0 ELSE heights[Len(heights)])

LifoInit == contents = <<>> /\ heights = <<>> /\ result = Nothing

Push(v) ==
  /\ Len(contents) < MaxHeight
  /\ contents' = Append(contents, v) /\ result' = v /\ UNCHANGED heights

Pop ==
  /\ Spare > 0
  /\ result' = contents[Len(contents)]
  /\ contents' = Without(1) /\ UNCHANGED heights

Drop(i) ==
  /\ i <= Spare
  /\ contents' = Without(i) /\ result' = Nothing /\ UNCHANGED heights

Elt(i) ==
  /\ i < Len(contents)
  /\ result' = contents[Len(contents) - i] /\ UNCHANGED <<contents, heights>>

Enter ==
  /\ heights' = Append(heights, Len(contents)) /\ result' = Nothing
  /\ UNCHANGED contents

\* EXIT, or RETURN of v, which leaves v on top of what there was at the mark; or
\* the C function returns without either.
Leave(S) ==
  /\ heights # <<>>
  /\ heights' = SubSeq(heights, 1, Len(heights) - 1)
  /\ \/ contents' = SubSeq(contents, 1, heights[Len(heights)]) /\ result' = Nothing
     \/ \E v \in S :
          /\ contents' = Append(SubSeq(contents, 1, heights[Len(heights)]), v)
          /\ result' = v
     \/ UNCHANGED contents /\ result' = Nothing

Copy == heights = <<>> /\ result' = Nothing /\ UNCHANGED <<contents, heights>>

LifoNext ==
  \/ \E v \in Values : Push(v)
  \/ Pop \/ Enter \/ Leave(Values) \/ Copy
  \/ \E i \in 1..MaxHeight : Drop(i) \/ Elt(i - 1)

LifoSpec == LifoInit /\ [][LifoNext]_lifoVars
=============================================================================
