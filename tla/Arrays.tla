------------------------------- MODULE Arrays -------------------------------
(***************************************************************************)
(* A resizable array of array.c: a vector of boxes laid out for dims, of   *)
(* which the elements within limits are in use. Dimension 0 varies         *)
(* fastest; it is the last index in the program. Boxes have no addresses   *)
(* here: what becomes of a box is seen from its positions, and used names  *)
(* the elements whose boxes the program has stored to or refers to.        *)
(***************************************************************************)
EXTENDS Integers, Sequences, FiniteSets, Functions

CONSTANTS NDim,             \* the number of dimensions
          MaxDim,           \* bound on the size asked for in each of them
          MaxUsed,          \* bound on the elements that are followed
          EmptyRows         \* whether an array may be created with an empty
                            \* dimension next to others, as {{},{}} does

ASSUME ArrayConstants ==
  /\ NDim \in Nat \ {0} /\ MaxDim \in Nat \ {0} /\ MaxUsed \in Nat
  /\ EmptyRows \in BOOLEAN

VARIABLES dims, limits,
          size,     \* entries of the vector
          used      \* [cell, elt]: the entry that holds the box (Detached if none)
                    \* and the element it has been since it was first used (Gone
                    \* once the array got too small for it)

arrayVars == <<dims, limits, size, used>>

Dims == 0 .. NDim - 1
Detached == -1
Gone == <<>>

New == -2      \* an entry with a new box
NoBox == -3    \* an entry with a null pointer

\* Entries between neighbours in dimension d.
Unit(ds, d) == FoldFunctionOnSet(LAMBDA a, b : a * b, 1, ds, 0 .. d - 1)
Product(ds) == Unit(ds, NDim)

Indices == [Dims -> 0 .. MaxDim - 1]
Within(e, ls) == \A d \in Dims : e[d] < ls[d]

\* The entry of element e, as ThreadArrayIndex computes it.
Offset(ds, e) == FoldFunctionOnSet(+, 0, [d \in Dims |-> e[d] * Unit(ds, d)], Dims)

-----------------------------------------------------------------------------
(* ArrayResize: a shape is dims, limits and where each entry's box comes from. *)

\* nchunk runs of entries; the first good ones of each run are copied.
Copied(s, nchunk, ostride, nstride, good, ents) ==
  [i \in 1..ents |->
     LET chunk == (i - 1) \div nstride
         off == (i - 1) % nstride
     IN  CASE chunk >= nchunk -> NoBox
           [] chunk < nchunk /\ off < good -> s.from[chunk * ostride + off + 1]
           [] OTHER -> New]

\* n doubled, or halved, until it fits sz.
Doublings(n, sz) == CHOOSE k \in 0..sz : n * 2^k >= sz /\ (k = 0 \/ n * 2^(k - 1) < sz)
Halvings(n, sz) == CHOOSE k \in 0..n : /\ n \div 2^k <= sz * 2
                                        /\ (k = 0 \/ n \div 2^(k - 1) > sz * 2)

\* Bigger. From an empty array all dimensions become 1 first.
Widened(s, d, sz) ==
  LET stride == Unit(s.dims, d + 1)
      empty == s.dims[d] = 0
      nchunk == IF stride = 0 THEN 1 ELSE Len(s.from) \div stride
      odims == IF empty THEN [e \in Dims |-> 1] ELSE s.dims
      f == 2 ^ Doublings(odims[d], sz)
      nstride == (IF empty THEN 1 ELSE stride) * f
  IN  [dims |-> [odims EXCEPT ![d] = @ * f],
       limits |-> [s.limits EXCEPT ![d] = sz],
       from |-> Copied(s, nchunk, stride, nstride, stride,
                       (IF empty THEN 1 ELSE Len(s.from)) * f)]

\* Mutant: the runs of the new vector are taken from where they would be in it.
Shrunk_NewStride(s, d, sz) ==
  LET stride == Unit(s.dims, d + 1)
      f == 2 ^ Halvings(s.dims[d], sz)
      nstride == stride \div f
  IN  [dims |-> [s.dims EXCEPT ![d] = @ \div f],
       limits |-> [s.limits EXCEPT ![d] = sz],
       from |-> Copied(s, Len(s.from) \div stride, nstride, nstride, nstride,
                       Len(s.from) \div f)]

\* Smaller.
Shrunk(s, d, sz) ==
  LET stride == Unit(s.dims, d + 1)
      f == 2 ^ Halvings(s.dims[d], sz)
      nstride == stride \div f
  IN  [dims |-> [s.dims EXCEPT ![d] = @ \div f],
       limits |-> [s.limits EXCEPT ![d] = sz],
       from |-> Copied(s, Len(s.from) \div stride, stride, nstride, nstride,
                       Len(s.from) \div f)]

Emptied == [dims |-> [d \in Dims |-> 0], limits |-> [d \in Dims |-> 0], from |-> <<>>]

\* The vector stays; the elements that are given up get new boxes.
Cleaned(s, d, sz) ==
  LET stride == Unit(s.dims, d + 1)
      good == sz * Unit(s.dims, d)
  IN  [i \in 1..Len(s.from) |->
         IF /\ (i - 1) \div stride < Len(s.from) \div stride
            /\ (i - 1) % stride >= good
         THEN New ELSE s.from[i]]

ArrayResize(s, d, sz) ==
  CASE sz = s.limits[d] -> s
    [] sz # s.limits[d] /\ s.dims[d] < sz -> Widened(s, d, sz)
    [] sz # s.limits[d] /\ s.dims[d] > sz * 2 ->
         IF sz > 0 THEN Shrunk(s, d, sz) ELSE Emptied
    [] OTHER -> [s EXCEPT !.limits[d] = sz,
                          !.from = IF s.limits[d] > sz THEN Cleaned(s, d, sz) ELSE @]

-----------------------------------------------------------------------------
Shape == [dims |-> dims, limits |-> limits, from |-> [i \in 1..size |-> i - 1]]

\* The boxes move, or leave the array, and elements out of its limits are gone.
Moved(s) ==
  {LET at == {i \in 1..Len(s.from) : s.from[i] = u.cell}
   IN  [cell |-> IF u.cell = Detached \/ at = {} THEN Detached
                 ELSE (CHOOSE i \in at : TRUE) - 1,
        elt |-> IF u.elt = Gone \/ ~Within(u.elt, s.limits) THEN Gone ELSE u.elt]
     : u \in used}

Become(s) == dims' = s.dims /\ limits' = s.limits /\ size' = Len(s.from)

\* NewArray: all boxes are new.
ArrayInit ==
  /\ dims \in [Dims -> 0..MaxDim]
  /\ EmptyRows \/ (\A d \in Dims : dims[d] = 0) \/ (\A d \in Dims : dims[d] > 0)
  /\ limits = dims /\ size = Product(dims) /\ used = {}

\* One index of a store: past the limit, but maybe still within the vector.
Reach(s, d, part) ==
  CASE s.limits[d] > part -> s
    [] s.limits[d] <= part /\ s.dims[d] > part -> [s EXCEPT !.limits[d] = part + 1]
    [] OTHER -> ArrayResize(s, d, part + 1)

\* ThreadArrayIndex for a store or a reference: each index may make the array
\* bigger, the first one of the program, the highest dimension, first.
ThreadArrayIndex(e) ==
  LET R[d \in 0..NDim] ==      \* shape and entry after the indices from d on
        IF d = NDim THEN <<Shape, 0>>
        ELSE LET s == Reach(R[d + 1][1], d, e[d])
             IN  <<s, R[d + 1][2] * s.dims[d] + e[d]>>
  IN  R[0]

\* The program stores to element e or makes a reference to it, and the model
\* follows what becomes of its box, or does not.
Store(e, follow) ==
  LET s == ThreadArrayIndex(e)[1]
      i == ThreadArrayIndex(e)[2]
  IN  /\ Become(s)
      /\ follow => Cardinality(used) < MaxUsed
      /\ used' = Moved(s) \cup (IF follow THEN {[cell |-> i, elt |-> e]} ELSE {})

\* setdims (and setdim): dimension 0 first. Boxes that have left are forgotten.
SetDims(sizes) ==
  LET R[d \in 0..NDim] ==
        IF d = 0 THEN Shape ELSE ArrayResize(R[d - 1], d - 1, sizes[d - 1])
  IN  /\ Become(R[NDim])
      /\ used' = {u \in Moved(R[NDim]) : u.cell # Detached \/ u.elt # Gone}

ArrayNext ==
  \/ \E e \in Indices, follow \in BOOLEAN : Store(e, follow)
  \/ \E sizes \in [Dims -> 0..MaxDim] : SetDims(sizes)

ArraySpec == ArrayInit /\ [][ArrayNext]_arrayVars

-----------------------------------------------------------------------------
(* Walking the array, for comparison, hash and output *)

\* ArrayNextI: at the end of a row the unused entries are skipped.
ArrayNextI(i) ==
  LET ends == {d \in 0 .. NDim - 2 :
                 /\ dims[d] # limits[d]
                 /\ ((i + 1) \div Unit(dims, d)) % dims[d] = limits[d]}
  IN  i + 1 + FoldFunctionOnSet(+, 0, [d \in Dims |-> (dims[d] - limits[d]) * Unit(dims, d)],
                                ends)

ArrayLimit == limits[NDim - 1] * Unit(dims, NDim - 1)

\* The entries that a walk visits, in their order.
Walk ==
  LET W[i \in 0 .. 2 * size] == IF i >= ArrayLimit THEN <<>> ELSE <<i>> \o W[ArrayNextI(i)]
  IN  W[0]

-----------------------------------------------------------------------------
(* Properties *)

\* The limits are within the dimensions, and every element has a box of its own
\* that a store can be made to: what the indexing of execute.c relies on, as it
\* compares an index with the limits only.
ArrayShapeOK ==
  /\ \A d \in Dims : limits[d] <= dims[d]
  /\ Product(dims) <= size
  /\ \A u \in used : u.elt # Gone => u.cell # Detached /\ Within(u.elt, limits)

\* However the array grows and shrinks, in whatever dimension, an element keeps its
\* box while it is within the limits: references to it (and what was stored)
\* stay with this element.
ElementsKeepBoxes ==
  \A u \in used : u.elt # Gone => u.cell = Offset(dims, u.elt)

\* No two elements share a box, and no resizing gives the box of one to another or
\* leaves an element without one.
BoxesDistinct ==
  /\ \A u, v \in used : u.cell = v.cell /\ u.cell # Detached => u.elt = v.elt \/ Gone \in {u.elt, v.elt}
  /\ \A d \in Dims, sz \in 0..MaxDim :
       LET s == ArrayResize(Shape, d, sz)
       IN  /\ \A i, j \in 1..Len(s.from) : s.from[i] = s.from[j] /\ s.from[i] >= 0 => i = j
           /\ \A e \in Indices : Within(e, s.limits) => s.from[Offset(s.dims, e) + 1] # NoBox

\* Comparison, hash and output visit the elements in use, each once and in order. (If a dimension but
\* the outermost is the one that is empty, ArrayLimit is not 0, and they visit entries not in use.)
WalkVisitsElements ==
  (\A d \in 0 .. NDim - 2 : limits[d] > 0) \/ limits[NDim - 1] = 0 =>
    LET offsets == {Offset(dims, e) : e \in {f \in Indices : Within(f, limits)}}
    IN  /\ Len(Walk) = Cardinality(offsets)
        /\ \A p \in 1..Len(Walk) : Walk[p] \in offsets
        /\ \A p \in 1..Len(Walk) - 1 : Walk[p] < Walk[p + 1]

\* Growth and shrinking in any dimension leave every element its box and its place in the walk.
ElementsStay == ArrayShapeOK /\ ElementsKeepBoxes /\ BoxesDistinct /\ WalkVisitsElements
=============================================================================
