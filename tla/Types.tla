------------------------------- MODULE Types --------------------------------
(***************************************************************************)
(* Types as type.c relates and combines them: which type is a supertype of *)
(* which, what the operators of the language make of the types of their    *)
(* operands, and which values a variable of a type takes at run time.      *)
(* Types that the code tells apart by their address are equal here when    *)
(* they are built alike.                                                   *)
(***************************************************************************)
EXTENDS Integers, Sequences, SequencesExt

CONSTANT Typedefs    \* the types of the names that typedefs declare

NoType == [tag |-> "none"]
NoValue == [rep |-> "none"]

\* Rep
rep_undef == -1
Reps == <<"int", "integer", "rational", "float", "complex", "string", "file", "thread", "semaphore",
          "continuation", "bool", "foreign", "void", "ref", "func", "array", "struct", "union", "hash">>
RepOf == [r \in ToSet(Reps) |-> (CHOOSE i \in DOMAIN Reps : Reps[i] = r) - 1]
ValueTag(v) == RepOf[v.rep]
Numericp(r) == 0 <= r /\ r <= RepOf["complex"]
Integralp(r) == 0 <= r /\ r <= RepOf["integer"]

NewTypePrim(prim) == [tag |-> "prim", prim |-> prim]
typePrim == [r \in ToSet(Reps) |-> NewTypePrim(RepOf[r])]
typePoly == NewTypePrim(rep_undef)
NewTypeName(name) == [tag |-> "name", name |-> name]
NewTypeRef(ref) == IF ref = NoType THEN NoType ELSE [tag |-> "ref", ref |-> ref]
typeRefPoly == NewTypeRef(typePoly)
NewArgType(type, varargs) == [type |-> type, varargs |-> varargs]
NewTypeFunc(ret, args) == [tag |-> "func", ret |-> ret, args |-> args]
\* dims is the number of dimensions in the declaration, 0 if it leaves that open.
NewTypeArray(type, dims) == [tag |-> "array", type |-> type, dims |-> dims]
NewTypeHash(type, keyType) == [tag |-> "hash", type |-> type, keyType |-> keyType]
Member(atom, type) == [atom |-> atom, type |-> type]
NewTypeStruct(structs) == [tag |-> "struct", structs |-> structs]
NewTypeUnion(structs) == [tag |-> "union", structs |-> structs]
NewTypeTypes(elt) == [tag |-> "types", elt |-> elt]

TypePoly(t) == t.tag = "prim" /\ t.prim = rep_undef
TypeBool(t) == t.tag = "prim" /\ t.prim = RepOf["bool"]
TypeString(t) == t.tag = "prim" /\ t.prim = RepOf["string"]
TypeNumeric(t) == t.tag = "prim" /\ Numericp(t.prim)
TypeIntegral(t) == t.tag = "prim" /\ Integralp(t.prim)
TypeNameType(t) == Typedefs[t.name]
RECURSIVE TypeCanon(_)
TypeCanon(t) == IF t.tag = "name" THEN TypeCanon(TypeNameType(t)) ELSE t

\* The type of the first member of that name.
StructMemType(structs, atom) ==
    LET found == SelectSeq(structs, LAMBDA m : m.atom = atom)
    IN  IF found = <<>> THEN NoType ELSE Head(found).type

\* A struct or a union of the members of two.
TypePlusPart(t) == LET c == TypeCanon(t) IN IF c.tag \in {"struct", "union"} THEN c ELSE NoType
AddPlusType_Over(new, old) == old \o SubSeq(new, Len(old) + 1, Len(new))
AddPlusType(new, old) == new \o old
NewTypePlus(left, right) ==
    LET l == TypePlusPart(left)
        r == TypePlusPart(right)
    IN  IF l = NoType \/ r = NoType \/ l.tag # r.tag THEN NoType
        ELSE [tag |-> l.tag, structs |-> AddPlusType(AddPlusType(<<>>, l.structs), r.structs)]

---------------------------------------------------------------------------
(* Supertypes.  level holds the reference types that are being compared: a *)
(* recursive type is not entered again.                                    *)

Primitive(super, sub) == super = sub \/ (Numericp(super) /\ Numericp(sub) /\ super >= sub)

RECURSIVE SupertypeAt(_, _, _)
ArgsSupertype(super, sub, level) ==
    /\ Len(super) = Len(sub)
    /\ \A i \in DOMAIN super : super[i].varargs = sub[i].varargs /\ SupertypeAt(sub[i].type, super[i].type, level)
MembersSupertype(super, sub, level) ==
    \A m \in ToSet(super) : LET s == StructMemType(sub, m.atom) IN s # NoType /\ SupertypeAt(m.type, s, level)
SupertypeAt(super, sub, level) ==
    IF super = sub THEN TRUE
    ELSE IF super = NoType \/ sub = NoType THEN FALSE
    ELSE IF super.tag = "name" THEN SupertypeAt(TypeNameType(super), sub, level)
    ELSE IF sub.tag = "name" THEN SupertypeAt(super, TypeNameType(sub), level)
    ELSE IF super.tag = "types" THEN \E t \in ToSet(super.elt) : SupertypeAt(t, sub, level)
    ELSE IF sub.tag = "types" THEN \E t \in ToSet(sub.elt) : SupertypeAt(super, t, level)
    ELSE IF TypePoly(super) THEN TRUE
    ELSE IF super.tag # sub.tag THEN FALSE
    ELSE CASE super.tag = "prim"  -> Primitive(super.prim, sub.prim)
           [] super.tag = "ref"   -> super \in level \/ SupertypeAt(super.ref, sub.ref, level \union {super})
           [] super.tag = "func"  -> SupertypeAt(super.ret, sub.ret, level) /\ ArgsSupertype(super.args, sub.args, level)
           [] super.tag = "array" -> /\ super.dims = 0 \/ sub.dims = 0 \/ super.dims = sub.dims
                                     /\ SupertypeAt(super.type, sub.type, level)
           [] super.tag = "hash"  -> /\ SupertypeAt(super.type, sub.type, level)
                                     /\ \/ SupertypeAt(super.keyType, sub.keyType, level)
                                        \/ SupertypeAt(sub.keyType, super.keyType, level)
           [] super.tag \in {"struct", "union"} -> MembersSupertype(super.structs, sub.structs, level)
TypeIsSupertype(super, sub) == SupertypeAt(super, sub, {})
TypeIsOrdered(a, b) == TypeIsSupertype(a, b) \/ TypeIsSupertype(b, a)

---------------------------------------------------------------------------
(* The types of operators.  NoType is an error.                            *)

OrPrim(t, r) == IF TypePoly(t) THEN typePrim[r] ELSE t
Wider(left, right) == IF left.prim < right.prim THEN right ELSE left
PolyOrNumeric(t) == TypePoly(t) \/ TypeNumeric(t)

TypeBinaryGroup(left, right) ==
    IF ~PolyOrNumeric(left) \/ ~PolyOrNumeric(right) THEN NoType
    ELSE IF TypePoly(left) \/ TypePoly(right) THEN typePrim["complex"]
    ELSE Wider(left, right)
TypeBinaryIntegral(polyLeft, polyRight) ==
    LET left == OrPrim(polyLeft, "integer")
        right == OrPrim(polyRight, "integer")
    IN  IF TypeIntegral(left) /\ TypeIntegral(right) THEN Wider(left, right)
        ELSE IF TypeNumeric(left) /\ TypeNumeric(right) THEN typePrim["integer"]
        ELSE NoType
TypeBinaryField(left, right) ==
    LET t == TypeBinaryGroup(left, right)
    IN  IF t # NoType /\ t.prim < RepOf["rational"] THEN typePrim["rational"] ELSE t
TypeBinaryDiv(left, right) == IF PolyOrNumeric(left) /\ PolyOrNumeric(right) THEN typePrim["integer"] ELSE NoType
TypeBinaryPow(polyLeft, right) ==
    LET left == OrPrim(polyLeft, "complex")
    IN  IF ~TypeNumeric(left) \/ ~PolyOrNumeric(right) THEN NoType
        ELSE IF TypeIntegral(right) THEN left ELSE typePrim["complex"]
TypeBinaryString(left, right) ==
    IF TypeString(OrPrim(left, "string")) /\ TypeString(OrPrim(right, "string")) THEN typePrim["string"] ELSE NoType
TypeBinaryRefOff(polyRef, off) ==
    LET ref == IF TypePoly(polyRef) THEN typeRefPoly ELSE polyRef
    IN  IF ref.tag = "ref" /\ TypeIntegral(OrPrim(off, "integer")) THEN ref ELSE NoType
TypeBinaryRefMinus(polyA, polyB) ==
    LET a == IF TypePoly(polyA) THEN typeRefPoly ELSE polyA
        b == IF TypePoly(polyB) THEN typeRefPoly ELSE polyB
    IN  IF a.tag = "ref" /\ b.tag = "ref" /\ TypeIsOrdered(a.ref, b.ref) THEN typePrim["integer"] ELSE NoType
TypeBinaryBool(left, right) ==
    IF TypeBool(OrPrim(left, "bool")) /\ TypeBool(OrPrim(right, "bool")) THEN typePrim["bool"] ELSE NoType

TypeUnaryRef(ref) == IF TypePoly(ref) THEN typePoly ELSE IF ref.tag = "ref" THEN ref.ref ELSE NoType
TypeUnaryGroup(t) == IF TypePoly(t) THEN typePrim["complex"] ELSE IF TypeNumeric(t) THEN t ELSE NoType
TypeUnaryIntegral(t) == IF TypePoly(t) THEN typePrim["integer"] ELSE IF TypeIntegral(t) THEN t ELSE NoType
TypeUnaryString(t) ==
    IF TypePoly(t) THEN typePrim["string"] ELSE IF TypeString(t) THEN typePrim["integer"] ELSE NoType
TypeUnaryArray(t) == IF TypePoly(t) THEN typePoly ELSE IF t.tag \in {"array", "hash"} THEN t.type ELSE NoType
TypeUnaryBool(t) == IF TypeBool(OrPrim(t, "bool")) THEN typePrim["bool"] ELSE NoType

\* A list of the types that an expression may have, each of them once.
Alternatives(t) == IF t.tag = "types" THEN t.elt ELSE <<t>>
AddElt(old, new) ==
    IF old = NoType \/ old = new THEN new
    ELSE IF \E i \in DOMAIN Alternatives(old) : Alternatives(old)[i] = new THEN old
    ELSE NewTypeTypes(Append(Alternatives(old), new))
TypeAdd(old, new) == IF new = NoType THEN old ELSE FoldLeft(AddElt, old, Alternatives(new))
AddAll(types) == FoldLeft(TypeAdd, NoType, types)
EachOnce(s) == FoldLeft(LAMBDA r, t : IF t \in ToSet(r) THEN r ELSE Append(r, t), <<>>, s)
TypeCombineFlatten(t) ==
    IF t.tag # "types" THEN t
    ELSE LET once == EachOnce(t.elt) IN IF Len(once) = 1 THEN once[1] ELSE NewTypeTypes(once)

When(c, t) == IF c THEN t ELSE NoType
Sums == {"PLUS", "ASSIGNPLUS", "MINUS", "ASSIGNMINUS"}
Simple(left, tag, right) ==
    CASE tag = "ASSIGN" -> When(TypeIsOrdered(left, right), IF TypePoly(left) THEN right ELSE left)
      [] tag \in Sums ->
             AddAll(<<When(tag \in {"PLUS", "ASSIGNPLUS"}, TypeBinaryString(left, right)),
                      TypeBinaryRefOff(left, right),
                      When(tag = "MINUS", TypeBinaryRefMinus(left, right)),
                      When(tag \in {"MINUS", "PLUS"}, TypeBinaryRefOff(right, left)),
                      TypeBinaryGroup(left, right)>>)
      [] tag \in {"TIMES", "MOD", "ASSIGNTIMES", "ASSIGNMOD"} -> TypeBinaryGroup(left, right)
      [] tag \in {"DIV", "ASSIGNDIV"} -> TypeBinaryDiv(left, right)
      [] tag \in {"POW", "ASSIGNPOW"} -> TypeBinaryPow(left, right)
      [] tag \in {"DIVIDE", "ASSIGNDIVIDE"} -> TypeBinaryField(left, right)
      [] tag \in {"SHIFTL", "SHIFTR", "LXOR", "LAND", "LOR"} -> TypeBinaryIntegral(left, right)
      [] tag \in {"ASSIGNAND", "ASSIGNOR"} -> TypeBinaryBool(left, right)
      [] tag = "COLON" -> IF TypePoly(left) \/ TypePoly(right) THEN typePoly
                          ELSE IF TypeIsSupertype(left, right) THEN left
                          ELSE When(TypeIsSupertype(right, left), right)
      [] tag \in {"AND", "OR"} -> When(TypeUnaryBool(left) # NoType /\ TypeUnaryBool(right) # NoType, typePrim["bool"])
      [] tag \in {"EQ", "NE", "LT", "GT", "LE", "GE"} -> When(TypeIsOrdered(left, right), typePrim["bool"])
RECURSIVE TypeCombineBinary(_, _, _)
TypeCombineBinary(left, tag, right) ==
    IF left = NoType \/ right = NoType THEN NoType
    ELSE IF left.tag = "name" THEN TypeCombineBinary(TypeNameType(left), tag, right)
    ELSE IF right.tag = "name" THEN TypeCombineBinary(left, tag, TypeNameType(right))
    ELSE IF left.tag = "types" THEN
         TypeCombineFlatten(AddAll([i \in DOMAIN left.elt |-> TypeCombineBinary(left.elt[i], tag, right)]))
    ELSE IF right.tag = "types" THEN
         TypeCombineFlatten(AddAll([i \in DOMAIN right.elt |-> TypeCombineBinary(left, tag, right.elt[i])]))
    ELSE TypeCombineFlatten(Simple(left, tag, right))

RECURSIVE TypeCombineUnary(_, _)
TypeCombineUnary(t, tag) ==
    IF t = NoType THEN typePoly
    ELSE IF t.tag = "name" THEN TypeCombineUnary(TypeNameType(t), tag)
    ELSE IF t.tag = "types" THEN TypeCombineFlatten(AddAll([i \in DOMAIN t.elt |-> TypeCombineUnary(t.elt[i], tag)]))
    ELSE CASE tag = "STAR"   -> TypeUnaryRef(t)
           [] tag = "LNOT"   -> TypeUnaryIntegral(t)
           [] tag = "UMINUS" -> TypeUnaryGroup(t)
           [] tag = "BANG"   -> TypeUnaryBool(t)
           [] tag = "FACT"   -> TypeUnaryIntegral(t)
           [] tag = "OS"     -> TypeCombineFlatten(AddAll(<<TypeUnaryString(t), TypeUnaryArray(t)>>))

RECURSIVE TypeCombineArray(_, _)
TypeCombineArray(t, ndim) ==
    IF t = NoType THEN typePoly
    ELSE IF t.tag = "name" THEN TypeCombineArray(TypeNameType(t), ndim)
    ELSE IF t.tag = "types" THEN TypeCombineFlatten(AddAll([i \in DOMAIN t.elt |-> TypeCombineArray(t.elt[i], ndim)]))
    ELSE TypeCombineFlatten(AddAll(
             <<TypeUnaryString(t), When(TypePoly(t), typePoly),
               IF (t.tag = "array" /\ t.dims \in {0, ndim}) \/ (t.tag = "hash" /\ ndim = 1) THEN t.type ELSE NoType>>))

RECURSIVE TypeCombineStruct(_, _, _)
TypeCombineStruct(t, tag, atom) ==
    IF t = NoType THEN NoType
    ELSE IF TypePoly(t) THEN typePoly
    ELSE IF t.tag = "name" THEN TypeCombineStruct(TypeNameType(t), tag, atom)
    ELSE IF tag = "DOT" /\ t.tag \in {"struct", "union"} THEN StructMemType(t.structs, atom)
    ELSE IF tag = "ARROW" /\ t.tag = "ref" THEN TypeCombineStruct(t.ref, "DOT", atom)
    ELSE NoType
TypeCombineFunction(t) == LET c == TypeCanon(t) IN IF TypePoly(c) \/ c.tag = "func" THEN c ELSE NoType
TypeCombineReturn(t) == LET c == TypeCanon(t) IN IF TypePoly(c) THEN typePoly ELSE IF c.tag = "func" THEN c.ret ELSE NoType

---------------------------------------------------------------------------
(* Values.  A reference has the type of its box and the value in it, if    *)
(* there is one; arrays, hashes and structs have the types they were made  *)
(* with.                                                                   *)

\* Whether a part of type u may be in a variable of type t, and whether it is a t for is_type.
Ordered(use, t, u) == IF use = "assign" THEN TypeIsOrdered(t, u) ELSE TypeIsSupertype(u, t)
ArgsFit(use, a, b) ==
    /\ Len(a) = Len(b)
    /\ \A i \in DOMAIN a : a[i].varargs = b[i].varargs /\ Ordered(use, b[i].type, a[i].type)
MembersFit(use, a, b) ==
    \A m \in ToSet(a) : LET t == StructMemType(b, m.atom) IN t # NoType /\ Ordered(use, m.type, t)

RECURSIVE Fits(_, _, _)
ElementsFit(use, a, b) ==
    IF TypePoly(b.type) THEN \A v \in ToSet(b.values) : Fits(use, a.type, v) ELSE Ordered(use, a.type, b.type)
EntriesFit(use, a, b) ==
    IF TypePoly(b.type) THEN \A e \in ToSet(b.elts) : Fits(use, a.type, e.value) /\ Fits(use, a.keyType, e.key)
    ELSE Ordered(use, a.type, b.type) /\ Ordered(use, a.keyType, b.keyType)
Fits(use, a, b) ==
    IF a = NoType \/ b = NoValue THEN TRUE
    ELSE IF a.tag = "types" THEN \E t \in ToSet(a.elt) : Fits(use, t, b)
    ELSE IF TypePoly(a) THEN TRUE
    ELSE IF a.tag = "name" THEN Fits(use, TypeNameType(a), b)
    ELSE IF a.tag = "prim" THEN Primitive(a.prim, ValueTag(b))
    ELSE IF a.tag # b.rep THEN FALSE
    ELSE CASE a.tag = "ref"   -> IF b.value # NoValue THEN Fits(use, a.ref, b.value) ELSE Ordered(use, a.ref, b.type)
           [] a.tag = "func"  -> Ordered(use, a.ret, b.ret) /\ ArgsFit(use, a.args, b.args)
           [] a.tag = "array" -> a.dims \in {0, b.ndim} /\ (TypePoly(a.type) \/ ElementsFit(use, a, b))
           [] a.tag = "hash"  -> TypePoly(a.type) \/ EntriesFit(use, a, b)
           [] a.tag \in {"struct", "union"} -> MembersFit(use, a.structs, b.structs)
TypeCompatibleAssign(a, b) == Fits("assign", a, b)
ValueIsType(b, a) == Fits("is_type", a, b)

---------------------------------------------------------------------------
(* Calls.  The compiler compares the declared types; actuals that end in   *)
(* ... stand for any number of arguments.                                  *)

Actual(type, varactual) == [type |-> type, varactual |-> varactual]
NextArg(args) == IF Head(args).varargs THEN args ELSE Tail(args)
Wanted(args) == args # <<>> /\ ~Head(args).varargs
RECURSIVE CheckActuals(_, _, _)
CheckActuals(args, actuals, varactual) ==
    IF (actuals = <<>> \/ varactual) /\ ~Wanted(args) THEN TRUE
    ELSE IF args = <<>> \/ actuals = <<>> THEN FALSE
    ELSE LET a == Head(actuals)
             left == NextArg(args)
         IN  /\ TypeIsOrdered(Head(args).type, IF a.varactual THEN TypeCombineArray(a.type, 1) ELSE a.type)
             /\ CheckActuals(left, IF a.varactual /\ left # <<>> THEN actuals ELSE Tail(actuals), a.varactual)
CompileTypecheckArgs(t, actuals) ==
    LET f == TypeCombineFunction(t)
    IN  f # NoType /\ (f.tag = "func" => CheckActuals(f.args, actuals, FALSE))
\* The arguments are there at run time.
RECURSIVE ArgumentsFit(_, _)
ArgumentsFit(args, values) ==
    IF values = <<>> /\ ~Wanted(args) THEN TRUE
    ELSE IF args = <<>> \/ values = <<>> THEN FALSE
    ELSE TypeCompatibleAssign(Head(args).type, Head(values)) /\ ArgumentsFit(NextArg(args), Tail(values))
ThreadCall(f, values) == f.rep = "func" /\ ArgumentsFit(f.args, values)

\* What CompileCall makes a tail call of the return statement of a function of type ret: the value
\* of the function that is called is not compared with ret again.
TailCalls_Ordered(ret, t) == ~TypePoly(t) /\ TypeIsOrdered(ret, t)
TailCalls(ret, t) == ~TypePoly(t) /\ TypeIsSupertype(ret, t)

---------------------------------------------------------------------------
(* The value of a variable that is used before it has one: structs are     *)
(* filled with the defaults of their members, but not with themselves.     *)

RECURSIVE SetDefault(_, _)
SetDefault(t, chain) ==
    LET c == TypeCanon(t)
    IN  IF c \in chain THEN NoValue
        ELSE CASE c.tag = "union"  -> [rep |-> "union", structs |-> c.structs]
               [] c.tag = "struct" -> [rep |-> "struct", structs |-> c.structs,
                                       values |-> [i \in DOMAIN c.structs |-> SetDefault(c.structs[i].type, chain \union {c})]]
               [] OTHER            -> NoValue
ThreadBoxSetDefault(t) == SetDefault(t, {})
=============================================================================
