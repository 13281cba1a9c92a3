------------------------------ MODULE MCTypes -------------------------------
(***************************************************************************)
(* The types of Types beside the arithmetic of MCNumbers: the operands of  *)
(* a state also number two types of a list.                                *)
(***************************************************************************)
EXTENDS MCNumbers

T == INSTANCE Types WITH Typedefs <-
       [n \in {"Int", "List", "Pair"} |->
          CASE n = "Int"  -> [tag |-> "prim", prim |-> 1]
            [] n = "List" -> [tag |-> "struct",
                              structs |-> <<[atom |-> "value", type |-> [tag |-> "prim", prim |-> 2]],
                                            [atom |-> "next", type |-> [tag |-> "ref", ref |-> [tag |-> "name", name |-> "List"]]]>>]
            [] n = "Pair" -> [tag |-> "struct",
                              structs |-> <<[atom |-> "a", type |-> [tag |-> "prim", prim |-> 1]],
                                            [atom |-> "rest", type |-> [tag |-> "name", name |-> "Pair"]],
                                            [atom |-> "u", type |-> [tag |-> "union", structs |-> <<>>]]>>]]

Prim(r) == T!typePrim[r]
Ref(t) == T!NewTypeRef(t)
Arr(t, n) == T!NewTypeArray(t, n)
Arg(t) == T!NewArgType(t, FALSE)
Rest(t) == T!NewArgType(t, TRUE)
Fn(ret, args) == T!NewTypeFunc(ret, args)
Struct(ms) == T!NewTypeStruct(ms)
integer == Prim("integer")
rational == Prim("rational")
string == Prim("string")

\* Of these a variable takes just the values of its subtypes and supertypes.
Plain == <<T!typePoly, Prim("int"), integer, rational, Prim("float"), string, Prim("bool"),
           Ref(integer), Ref(rational), Ref(string), Ref(T!typePoly),
           Arr(integer, 1), Arr(rational, 1), Arr(string, 1), Arr(integer, 2),
           T!NewTypeHash(integer, string), T!NewTypeHash(rational, string), T!NewTypeName("Int")>>
Loose == <<Arr(T!typePoly, 1), Arr(rational, 0), Ref(Arr(integer, 1)), T!NewTypeHash(integer, T!typePoly)>>
Structs == <<Struct(<<T!Member("a", integer)>>), Struct(<<T!Member("a", rational)>>),
             Struct(<<T!Member("a", integer), T!Member("b", string)>>),
             Struct(<<T!Member("b", string), T!Member("a", rational)>>),
             T!NewTypeUnion(<<T!Member("a", integer)>>), T!NewTypeUnion(<<T!Member("a", integer), T!Member("b", string)>>),
             T!NewTypeName("List")>>
Functions == <<Fn(integer, <<Arg(rational)>>), Fn(rational, <<Arg(integer)>>), Fn(rational, <<Arg(integer), Rest(string)>>),
               Fn(integer, <<Rest(T!typePoly)>>), Fn(Prim("void"), <<Arg(integer), Arg(string)>>), Fn(integer, <<>>)>>
Unions == <<T!NewTypeTypes(<<integer, string>>), T!NewTypeTypes(<<Prim("bool"), rational, Arr(string, 1)>>)>>
TypeList == Plain \o Loose \o Structs \o Functions \o Unions
Index(i, s) == i \in DOMAIN s
t == TypeList[x]
u == TypeList[y]
Typed == Index(x, TypeList) /\ Index(y, TypeList)

OfRep(r) == [rep |-> r]
RefTo(type, value) == [rep |-> "ref", type |-> type, value |-> value]
ArrayOf(type, n, values) == [rep |-> "array", type |-> type, ndim |-> n, values |-> values]
TypeHash(type, key, elts) == [rep |-> "hash", type |-> type, keyType |-> key, elts |-> elts]
FuncOf(f) == [rep |-> "func", ret |-> f.ret, args |-> f.args]
Entry(k, v) == [key |-> k, value |-> v]
\* The values that were made for a variable of type w.
RECURSIVE ValuesOf(_)
ValuesOf(w) ==
    CASE w.tag = "none" -> {}
      [] T!TypePoly(w) -> {OfRep("int"), OfRep("string")}
      [] w.tag = "prim" -> {OfRep(r) : r \in {k \in DOMAIN T!RepOf : T!Primitive(w.prim, T!RepOf[k])}}
      [] w.tag = "name" -> ValuesOf(T!TypeNameType(w))
      [] w.tag = "types" -> UNION {ValuesOf(w.elt[i]) : i \in DOMAIN w.elt}
      [] w.tag = "ref" -> {RefTo(w.ref, v) : v \in {T!NoValue} \union (IF w.ref.tag = "name" THEN {} ELSE ValuesOf(w.ref))}
      [] w.tag = "array" -> {ArrayOf(w.type, IF w.dims = 0 THEN 1 ELSE w.dims, <<v>>) : v \in ValuesOf(w.type)}
      [] w.tag = "hash" -> {TypeHash(w.type, w.keyType, <<Entry(k, v)>>) : k \in ValuesOf(w.keyType), v \in ValuesOf(w.type)}
      [] w.tag = "func" -> {FuncOf(w)}
      [] w.tag \in {"struct", "union"} -> {[rep |-> w.tag, structs |-> w.structs]}

\* A subtype of a subtype is a subtype: the checks that the compiler makes one after the other, or
\* does not repeat, add up (type.c).  Not so where a dimension or the key of a hash is left open.
SubtypesChain ==
    Typed /\ T!TypeIsSupertype(t, u) =>
        LET open == {Arr(rational, 0), T!NewTypeHash(integer, T!typePoly)} \union T!ToSet(Unions)
        IN  {t, u} \intersect open = {} =>
                \A i \in DOMAIN TypeList :
                    TypeList[i] \notin open /\ T!TypeIsSupertype(u, TypeList[i]) => T!TypeIsSupertype(t, TypeList[i])

\* A variable takes every value that was made for one of a subtype (type.c, execute.c).
SubtypesAssignable ==
    Typed /\ T!TypeIsSupertype(t, u) /\ u \notin T!ToSet(Unions) => \A v \in ValuesOf(u) : T!TypeCompatibleAssign(t, v)

\* An assignment that does not compile would have failed: the type of no value that was made for
\* the right side fits the left one.
ErrorsAreErrors ==
    Typed /\ x <= Len(Plain \o Loose) /\ y <= Len(Plain \o Loose) /\ T!TypeCombineBinary(t, "ASSIGN", u) = T!NoType =>
        \A v \in ValuesOf(u) : ~T!TypeCompatibleAssign(t, v)

\* A value that a function of type t returns by calling one of type u in its place is one that it
\* could have returned: the check that the tail call skips would have passed.
TailCallsChecked ==
    Index(x, Plain) /\ Index(y, Plain) /\ T!TailCalls(t, u) =>
        \A i \in DOMAIN TypeList : \A v \in ValuesOf(TypeList[i]) :
            T!TypeCompatibleAssign(u, v) => T!TypeCompatibleAssign(t, v)

\* A variable of type t takes every value that is_type says to be of type t, though is_type asks
\* for subtypes the other way round where a value has a type inside of it (type.c).
TypedAssignable ==
    Typed => \A v \in ValuesOf(u) : T!ValueIsType(v, t) => T!TypeCompatibleAssign(t, v)

\* The number that an operator makes of two others has the type that the compiler gives it, which
\* is an error only if the operator fails (powers with exponents below 0 are not of the type).
Ops == {<<"PLUS", "Plus">>, <<"MINUS", "Minus">>, <<"TIMES", "Times">>, <<"DIVIDE", "Divide">>, <<"DIV", "Div">>,
        <<"MOD", "Mod">>, <<"LAND", "Land">>, <<"LOR", "Lor">>}
\* int is declared as integer, and that is the type of constants (lex.l).
OwnType(v) == IF v.rep = "int" THEN integer ELSE Prim(v.rep)
Typing(v, w, op, r) ==
    LET type == T!TypeCombineBinary(OwnType(v), op, OwnType(w))
    IN  r # V!Void => T!TypeCompatibleAssign(type, r)
ResultsTyped ==
    x <= 60 /\ y <= 40 =>
        LET c == (x % 15) - 7
            d == (y % 10) - 5
            v == IF x < 15 THEN Value(c) ELSE V!Divide(Value(c), Value(x \div 15))
            w == IF y < 10 THEN Value(d) ELSE V!Divide(Value(d), Value(y \div 10))
        IN  /\ \A o \in Ops : Typing(v, w, o[1], V!BinaryOperate(v, w, o[2]))
            /\ y \in 5..9 => Typing(v, w, "POW", V!Pow(v, w))

\* What may come of an operand that is one of several types is what may come of each of them, in
\* a list without repetitions.
Among(type, list) == type = T!NoType \/ \A w \in T!ToSet(T!Alternatives(type)) : w \in T!ToSet(T!Alternatives(list))
UnionsCombined ==
    Typed => \A op \in {"PLUS", "MINUS", "ASSIGN", "COLON", "EQ"} :
        LET all == T!TypeCombineBinary(t, op, u)
        IN  /\ t.tag = "types" => \A i \in DOMAIN t.elt : Among(T!TypeCombineBinary(t.elt[i], op, u), all)
            /\ u.tag = "types" => \A i \in DOMAIN u.elt : Among(T!TypeCombineBinary(t, op, u.elt[i]), all)
            /\ all.tag = "types" => /\ Len(all.elt) > 1
                                    /\ \A i, j \in DOMAIN all.elt : i # j => all.elt[i] # all.elt[j]
                                    /\ \A i \in DOMAIN all.elt : all.elt[i].tag # "types"

\* The sum of two structs or unions without a common member is a subtype of both.
SumsAreSubtypes ==
    LET sum == T!NewTypePlus(t, u)
        atoms(w) == {m.atom : m \in T!ToSet(T!TypeCanon(w).structs)}
    IN  Typed /\ sum # T!NoType /\ atoms(t) \intersect atoms(u) = {} =>
            T!TypeIsSupertype(t, sum) /\ T!TypeIsSupertype(u, sum)

\* A call that does not compile would have failed with any arguments of those types; ... stands for
\* one or two of them.
Calls == {<<>>} \union {<<T!Actual(TypeList[i], FALSE)>> : i \in {1, 3, 4, 6}}
         \union {<<T!Actual(TypeList[i], FALSE), T!Actual(TypeList[j], k)>> : i \in {3, 6}, j \in {6, 12, 14}, k \in BOOLEAN}
         \union {<<T!Actual(Arr(integer, 1), TRUE)>>}
Passed(arg) == IF arg.varactual /\ arg.type.tag = "array" THEN UNION {{<<v>>, <<v, v>>} : v \in ValuesOf(arg.type.type)}
             ELSE IF arg.varactual THEN {<<OfRep("int")>>}
             ELSE {<<v>> : v \in ValuesOf(arg.type)}
Passes(c) == IF c = <<>> THEN {<<>>}
             ELSE IF Len(c) = 1 THEN Passed(c[1])
             ELSE {p1 \o p2 : p1 \in Passed(c[1]), p2 \in Passed(c[2])}
CallErrorsAreErrors ==
    Index(x, TypeList) /\ y = 0 => \A c \in Calls :
        ~T!CompileTypecheckArgs(t, c) => \A f \in ValuesOf(t), vs \in Passes(c) : ~T!ThreadCall(f, vs)

\* A variable that is used before it is set has a value of its type, with values in the structs
\* inside of it, as long as they are not of types that they are part of.
RECURSIVE Filled(_, _)
Filled(v, over) ==
    v.rep = "struct" => \A i \in DOMAIN v.structs :
        LET w == T!TypeCanon(v.structs[i].type)
        IN  IF w.tag \in {"struct", "union"} /\ w \notin over
            THEN v.values[i] # T!NoValue /\ Filled(v.values[i], over \union {w})
            ELSE v.values[i] = T!NoValue
Wrapped == Struct(<<T!Member("t", t), T!Member("pair", T!NewTypeName("Pair"))>>)
DefaultsFilled ==
    Index(x, TypeList) /\ y = 0 =>
        LET v == T!ThreadBoxSetDefault(Wrapped)
        IN  T!TypeCompatibleAssign(Wrapped, v) /\ Filled(v, {Wrapped})

\* Subtypes form an order that assignment follows, also for what the rules combine.
SubtypingSound == [][SubtypesChain /\ SubtypesAssignable /\ UnionsCombined /\ SumsAreSubtypes]_<<x, y>>

\* What the compiler checks agrees with what happens: an error is one, and a value has the type
\* computed for it.
CheckingSound ==
    [][/\ ErrorsAreErrors /\ CallErrorsAreErrors /\ TailCallsChecked /\ TypedAssignable
      /\ ResultsTyped /\ DefaultsFilled]_<<x, y>>
=============================================================================
