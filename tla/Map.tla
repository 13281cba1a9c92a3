-------------------------------- MODULE Map --------------------------------
(***************************************************************************)
(* What a hash of nickle promises (tutorial, Hashes): an associative       *)
(* mapping from keys to values, with a default that instantiates elements  *)
(* that are used before they are assigned.                                 *)
(***************************************************************************)
CONSTANTS Keys, Values,
          Void,   \* the void value
          None    \* no value; uninitialized

VARIABLES map,      \* a function from some of the keys to values
          default,  \* the default value, or None
          pointer,  \* the key of the element that a reference is to, or None
          result    \* what the last operation returned, as a set; {} if it raised

vars == <<map, default, pointer, result>>

Init ==
  /\ map = <<>> /\ default = None
  /\ pointer = None /\ result = {}

With(k, v) == [l \in DOMAIN map \cup {k} |-> IF l = k THEN v ELSE map[l]]

Get(k) ==
  /\ \/ /\ k \in DOMAIN map
        /\ result' = {map[k]} \ {None}
        /\ UNCHANGED map
     \/ /\ k \notin DOMAIN map /\ default # None
        /\ map' = With(k, default)
        /\ result' = {default}
     \/ /\ k \notin DOMAIN map /\ default = None
        /\ result' = {}
        /\ UNCHANGED map
  /\ UNCHANGED <<default, pointer>>

Set(k, v) ==
  /\ map' = With(k, v)
  /\ result' = {}
  /\ UNCHANGED <<default, pointer>>

SetDefault(v) ==
  /\ default' = v
  /\ result' = {}
  /\ UNCHANGED <<map, pointer>>

\* A reference to the element of k, which is instantiated. Without a default it
\* has no value yet, or a void one.
Refer(k) ==
  /\ pointer' = k
  /\ \/ k \in DOMAIN map /\ UNCHANGED map
     \/ k \notin DOMAIN map /\ default # None /\ map' = With(k, default)
     \/ k \notin DOMAIN map /\ default = None /\ \E v \in {None, Void} : map' = With(k, v)
  /\ result' = {}
  /\ UNCHANGED default

\* A value is assigned through the reference.
Assign(v) ==
  /\ pointer # None
  /\ map' = IF pointer \in DOMAIN map THEN With(pointer, v) ELSE map
  /\ pointer' = None
  /\ result' = {}
  /\ UNCHANGED default

Test(k) == result' = {k} \cap DOMAIN map /\ UNCHANGED <<map, default, pointer>>

Delete(k) ==
  /\ map' = [l \in DOMAIN map \ {k} |-> map[l]]
  /\ result' = {}
  /\ UNCHANGED <<default, pointer>>

AllKeys == result' = DOMAIN map /\ UNCHANGED <<map, default, pointer>>

Next ==
  \/ \E k \in Keys : Get(k) \/ Refer(k) \/ Test(k) \/ Delete(k)
  \/ \E v \in Values : SetDefault(v) \/ Assign(v) \/ \E k \in Keys : Set(k, v)
  \/ AllKeys

Spec == Init /\ [][Next]_vars

=============================================================================
