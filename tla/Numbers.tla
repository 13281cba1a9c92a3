------------------------------ MODULE Numbers ------------------------------
(***************************************************************************)
(* Exact numbers as value.c, int.c, integer.c and rational.c compute with  *)
(* them: an int that fits a word, an integer of any size and a rational,   *)
(* and the operators that promote operands to the larger of their          *)
(* representations and reduce results to the smallest.                     *)
(***************************************************************************)
EXTENDS Gcd

CONSTANT IntBits    \* NICKLE_INT_BITS, 31 in the code

SIGN == 2 ^ (IntBits - 1)
MAX_NICKLE_INT == SIGN - 1
MIN_NICKLE_INT == 0 - SIGN
max_int_natural == NewNatural(MAX_NICKLE_INT)
Abs(i) == IF i < 0 THEN 0 - i ELSE i

Positive == "Positive"
Negative == "Negative"
IntSign(i) == IF i < 0 THEN Negative ELSE Positive
SignNegate(s) == IF s = Positive THEN Negative ELSE Positive
SignOf(a, b) == IF a.sign = b.sign THEN Positive ELSE Negative

\* An exception has been raised.
Void == [rep |-> "void"]
\* A word keeps IntBits bits of an int.
NewInt(i) == [rep |-> "int", int |-> ((i + SIGN) % (2 * SIGN)) - SIGN]
NewInteger(sign, mag) == [rep |-> "integer", sign |-> sign, mag |-> mag]
NewIntInteger(i) == NewInteger(IntSign(i), NewNatural(Abs(i)))
\* The operands' gcd is divided out.
NewRational(sign, num, den) ==
    LET g == NaturalGcd(num, den)
    IN  IF zerop(num) THEN [rep |-> "rational", sign |-> sign, num |-> num, den |-> one_natural]
        ELSE IF den = one_natural \/ g = one_natural THEN [rep |-> "rational", sign |-> sign, num |-> num, den |-> den]
        ELSE [rep |-> "rational", sign |-> sign, num |-> NaturalDivide(num, g).quo, den |-> NaturalDivide(den, g).quo]
NewIntRational(i) == NewRational(IntSign(i), NewNatural(Abs(i)), one_natural)
NewIntegerRational(i) == NewRational(i.sign, i.mag, one_natural)

Rank(v) == CASE v.rep = "int" -> 0 [] v.rep = "integer" -> 1 [] v.rep = "rational" -> 2
Numericp(v) == v.rep # "void"
Integralp(v) == v.rep \in {"int", "integer"}
Zerop(v) == CASE v.rep = "int" -> v.int = 0 [] v.rep = "integer" -> zerop(v.mag) [] v.rep = "rational" -> zerop(v.num)
Negativep(v) == IF v.rep = "int" THEN v.int < 0 ELSE v.sign = Negative

IntegerToInt(i) == IF i.sign = Negative THEN 0 - NaturalToInt(i.mag) ELSE NaturalToInt(i.mag)
IntegerReduce(v) == IF NaturalLess(v.mag, max_int_natural) THEN NewInt(IntegerToInt(v)) ELSE v
Reduce(v) ==
    CASE v.rep = "integer"  -> IntegerReduce(v)
      [] v.rep = "rational" -> IF v.den = one_natural THEN IntegerReduce(NewInteger(v.sign, v.num)) ELSE v
      [] OTHER              -> v

\* A value in the representation of another of the same or a higher rank.
Promote(v, rep) ==
    CASE v.rep = rep         -> v
      [] rep = "integer"     -> NewIntInteger(v.int)
      [] rep = "rational"    -> IF v.rep = "int" THEN NewIntRational(v.int) ELSE NewIntegerRational(v)

---------------------------------------------------------------------------
(* Ints.  Division in C truncates.                                         *)

IntDiv(a, b) ==
    CASE a >= 0 /\ b > 0 -> a \div b
      [] a >= 0 /\ b < 0 -> 0 - (a \div (0 - b))
      [] a < 0 /\ b > 0  -> 0 - ((0 - a) \div b) - (IF (0 - a) % b # 0 THEN 1 ELSE 0)
      [] a < 0 /\ b < 0  -> (0 - a) \div (0 - b) + (IF (0 - a) % (0 - b) # 0 THEN 1 ELSE 0)
IntMod(a, b) ==
    LET r == Abs(a) % Abs(b) IN IF a < 0 /\ r # 0 THEN Abs(b) - r ELSE r
\* The bits of an int.
Word(i) == i % (2 * SIGN)
IntNegate(a) == NewInt(0 - a.int)

---------------------------------------------------------------------------
(* Integers: sign and magnitude.                                           *)

\* |a| - |b| with the sign of a.
IntegerDifference(a, b) ==
    IF NaturalLess(a.mag, b.mag) THEN NewInteger(SignNegate(a.sign), NaturalMinus(b.mag, a.mag))
    ELSE NewInteger(a.sign, NaturalMinus(a.mag, b.mag))
IntegerPlus(a, b) == IF a.sign = b.sign THEN NewInteger(a.sign, NaturalPlus(a.mag, b.mag)) ELSE IntegerDifference(a, b)
IntegerMinus(a, b) == IF a.sign # b.sign THEN NewInteger(a.sign, NaturalPlus(a.mag, b.mag)) ELSE IntegerDifference(a, b)
IntegerTimes(a, b) == NewInteger(SignOf(a, b), NaturalTimes(a.mag, b.mag))
IntegerDivide(a, b) == IF zerop(b.mag) THEN Void ELSE NewRational(SignOf(a, b), a.mag, b.mag)
IntegerDiv(a, b) ==
    LET d == NaturalDivide(a.mag, b.mag)
    IN  IF zerop(b.mag) THEN Void
        ELSE NewInteger(SignOf(a, b), IF a.sign = Negative /\ ~zerop(d.rem) THEN NaturalPlus(d.quo, one_natural) ELSE d.quo)
IntegerMod(a, b) ==
    LET d == NaturalDivide(a.mag, b.mag)
    IN  IF zerop(b.mag) THEN Void
        ELSE NewInteger(Positive, IF a.sign = Negative /\ ~zerop(d.rem) THEN NaturalMinus(b.mag, d.rem) ELSE d.rem)
IntegerLess(a, b) ==
    \/ a.sign = Negative /\ b.sign = Positive
    \/ a.sign = Positive /\ b.sign = Positive /\ NaturalLess(a.mag, b.mag)
    \/ a.sign = Negative /\ b.sign = Negative /\ NaturalLess(b.mag, a.mag)
IntegerEqual(a, b) == a.sign = b.sign /\ NaturalEqual(a.mag, b.mag)

\* Two's complement, in as many digits as the other operand has.
Complemented(a, b) ==
    LET am == IF a.sign = Negative THEN NaturalNegate(a.mag, Len(b.mag)) ELSE a.mag
        bm == IF b.sign = Negative THEN NaturalNegate(b.mag, Len(am)) ELSE b.mag
    IN  <<am, bm>>
IntegerLand(a, b) ==
    LET c == Complemented(a, b)
        m == NaturalLand(c[1], c[2])
    IN  IF a.sign = Negative /\ b.sign = Negative THEN NewInteger(Negative, NaturalNegate(m, 0))
        ELSE NewInteger(Positive, m)
IntegerLor(a, b) ==
    LET c == Complemented(a, b)
        m == NaturalLor(c[1], c[2])
    IN  IF a.sign = Negative \/ b.sign = Negative THEN NewInteger(Negative, NaturalNegate(m, 0))
        ELSE NewInteger(Positive, m)

---------------------------------------------------------------------------
(* Rationals.                                                              *)

RationalPlusHelper(sign, a, b) ==
    NewRational(sign, NaturalPlus(NaturalTimes(a.num, b.den), NaturalTimes(b.num, a.den)), NaturalTimes(a.den, b.den))
RationalMinusHelper(a, b) ==
    LET ra == NaturalTimes(a.num, b.den)
        rb == NaturalTimes(b.num, a.den)
        den == NaturalTimes(a.den, b.den)
    IN  IF NaturalLess(ra, rb) THEN NewRational(Negative, NaturalMinus(rb, ra), den)
        ELSE NewRational(Positive, NaturalMinus(ra, rb), den)
RationalPlus(a, b) ==
    IF a.sign = b.sign THEN RationalPlusHelper(a.sign, a, b)
    ELSE IF a.sign = Positive THEN RationalMinusHelper(a, b) ELSE RationalMinusHelper(b, a)
RationalMinus(a, b) ==
    IF a.sign # b.sign THEN RationalPlusHelper(a.sign, a, b)
    ELSE IF a.sign = Positive THEN RationalMinusHelper(a, b) ELSE RationalMinusHelper(b, a)
RationalTimes(a, b) == NewRational(SignOf(a, b), NaturalTimes(a.num, b.num), NaturalTimes(a.den, b.den))
RationalDivide(a, b) ==
    IF zerop(b.num) THEN Void
    ELSE NewRational(SignOf(a, b), NaturalTimes(a.num, b.den), NaturalTimes(a.den, b.num))
RationalMod(a, b) ==
    LET div == NaturalTimes(b.num, a.den)
        rem == NaturalDivide(NaturalTimes(a.num, b.den), div).rem
    IN  IF zerop(b.num) THEN Void
        ELSE NewRational(Positive, IF a.sign = Negative /\ ~zerop(rem) THEN NaturalMinus(div, rem) ELSE rem,
                         NaturalTimes(a.den, b.den))
MagnitudeLess(a, b) ==
    IF NaturalEqual(a.den, b.den) THEN NaturalLess(a.num, b.num)
    ELSE NaturalLess(NaturalTimes(a.num, b.den), NaturalTimes(b.num, a.den))
RationalLess(a, b) ==
    \/ a.sign = Negative /\ b.sign = Positive
    \/ a.sign = Positive /\ b.sign = Positive /\ MagnitudeLess(a, b)
    \/ a.sign = Negative /\ b.sign = Negative /\ MagnitudeLess(b, a)
RationalEqual(a, b) == a.sign = b.sign /\ NaturalEqual(a.num, b.num) /\ NaturalEqual(a.den, b.den)
\* Whatever the sign.
RationalRound_AnySign(a, away) ==
    LET d == NaturalDivide(a.num, a.den)
    IN  NewInteger(a.sign, IF zerop(d.rem) THEN d.quo ELSE NaturalPlus(d.quo, one_natural))
\* Away from zero when the value has the sign away.
RationalRound(a, away) ==
    LET d == NaturalDivide(a.num, a.den)
    IN  NewInteger(a.sign, IF ~zerop(d.rem) /\ a.sign = away THEN NaturalPlus(d.quo, one_natural) ELSE d.quo)
RationalFloor(a) == RationalRound(a, Negative)
RationalCeil(a) == RationalRound(a, Positive)

---------------------------------------------------------------------------
(* The operators on values of any representation.                          *)

UnaryOperate(v, op) ==
    Reduce(CASE op = "Negate" ->
                  (CASE v.rep = "int"      -> IntNegate(v)
                     [] v.rep = "integer"  -> NewInteger(SignNegate(v.sign), v.mag)
                     [] v.rep = "rational" -> NewRational(SignNegate(v.sign), v.num, v.den))
             [] op = "Floor" -> IF v.rep = "rational" THEN RationalFloor(v) ELSE v
             [] op = "Ceil"  -> IF v.rep = "rational" THEN RationalCeil(v) ELSE v)
Negate(v) == UnaryOperate(v, "Negate")
Floor(v) == UnaryOperate(v, "Floor")
Ceil(v) == UnaryOperate(v, "Ceil")

Booleans == [t \in BOOLEAN |-> [rep |-> "bool", bool |-> t]]

RECURSIVE BinaryOperate(_, _, _)
NumericDiv(a, b) ==
    LET q == BinaryOperate(a, b, "Divide")
    IN  IF q = Void THEN Void ELSE IF Negativep(b) THEN Ceil(q) ELSE Floor(q)

IntOperate(av, bv, op) ==
    LET a == av.int
        b == bv.int
        Fits(r) == MIN_NICKLE_INT <= r /\ r <= MAX_NICKLE_INT
        Big == BinaryOperate(NewIntInteger(a), NewIntInteger(b), op)
    IN  CASE op = "Plus"   -> IF Fits(a + b) THEN NewInt(a + b) ELSE Big
          [] op = "Minus"  -> IF Fits(a - b) THEN NewInt(a - b) ELSE Big
          [] op = "Times"  -> IF Fits(a * b) THEN NewInt(a * b) ELSE NewIntInteger(a * b)
          [] op = "Divide" -> IF b = 0 THEN Void
                              ELSE IF Abs(a) % Abs(b) # 0 THEN BinaryOperate(NewIntRational(a), NewIntRational(b), op)
                              ELSE NewInt(IntDiv(a, b))
          [] op = "Div"    -> IF b = 0 THEN Void ELSE NewInt(IntDiv(a, b))
          [] op = "Mod"    -> IF b = 0 THEN Void ELSE NewInt(IntMod(a, b))
          [] op = "Less"   -> Booleans[a < b]
          [] op = "Equal"  -> Booleans[a = b]
          [] op = "Land"   -> NewInt(Word(a) & Word(b))
          [] op = "Lor"    -> NewInt(Word(a) | Word(b))
IntegerOperate(a, b, op) ==
    CASE op = "Plus"   -> IntegerPlus(a, b)
      [] op = "Minus"  -> IntegerMinus(a, b)
      [] op = "Times"  -> IntegerTimes(a, b)
      [] op = "Divide" -> IntegerDivide(a, b)
      [] op = "Div"    -> IntegerDiv(a, b)
      [] op = "Mod"    -> IntegerMod(a, b)
      [] op = "Less"   -> Booleans[IntegerLess(a, b)]
      [] op = "Equal"  -> Booleans[IntegerEqual(a, b)]
      [] op = "Land"   -> IntegerLand(a, b)
      [] op = "Lor"    -> IntegerLor(a, b)
RationalOperate(a, b, op) ==
    CASE op = "Plus"   -> RationalPlus(a, b)
      [] op = "Minus"  -> RationalMinus(a, b)
      [] op = "Times"  -> RationalTimes(a, b)
      [] op = "Divide" -> RationalDivide(a, b)
      [] op = "Div"    -> NumericDiv(a, b)
      [] op = "Mod"    -> RationalMod(a, b)
      [] op = "Less"   -> Booleans[RationalLess(a, b)]
      [] op = "Equal"  -> Booleans[RationalEqual(a, b)]
      [] op \in {"Land", "Lor"} -> Void
BinaryOperate(av, bv, op) ==
    LET rep == IF Rank(av) < Rank(bv) THEN bv.rep ELSE av.rep
        a == Promote(av, rep)
        b == Promote(bv, rep)
    IN  CASE rep = "int"      -> IntOperate(a, b, op)
          [] rep = "integer"  -> Reduce(IntegerOperate(a, b, op))
          [] rep = "rational" -> Reduce(RationalOperate(a, b, op))

Plus(a, b) == BinaryOperate(a, b, "Plus")
Minus(a, b) == BinaryOperate(a, b, "Minus")
Times(a, b) == BinaryOperate(a, b, "Times")
Divide(a, b) == BinaryOperate(a, b, "Divide")
Land(a, b) == BinaryOperate(a, b, "Land")
Lor(a, b) == BinaryOperate(a, b, "Lor")
True(t) == t.bool
Less(a, b) == True(BinaryOperate(a, b, "Less"))
Equal(a, b) == True(BinaryOperate(a, b, "Equal"))
One == NewInt(1)

Lnot(a) == Minus(Negate(a), One)
Lxor(a, b) == Land(Lnot(Land(a, b)), Lor(a, b))
Truncate(a) == IF Negativep(a) THEN Ceil(a) ELSE Floor(a)
Round(a) == Floor(Plus(a, NewRational(Positive, one_natural, two_natural)))
Gcd(a, b) ==
    IF ~Integralp(a) \/ ~Integralp(b) THEN Void
    ELSE Reduce(NewInteger(Positive, NaturalGcd(Promote(a, "integer").mag, Promote(b, "integer").mag)))

\* 1 * 2 * ... up to a, from i on.
RECURSIVE FactorialFrom(_, _, _)
FactorialFrom(a, i, t) == IF ~Less(i, a) THEN t ELSE FactorialFrom(a, Plus(i, One), Times(Plus(i, One), t))
Factorial(a) == IF ~Integralp(a) \/ Negativep(a) THEN Void ELSE FactorialFrom(a, One, One)

RECURSIVE ValuePowFrom(_, _, _)
ValuePowFrom(p, i, result) ==
    IF i = 0 THEN result
    ELSE ValuePowFrom(IF i = 1 THEN p ELSE Times(p, p), i \div 2, IF i % 2 = 1 THEN Times(result, p) ELSE result)
RECURSIVE ValuePowNatural(_, _, _)
ValuePowNatural(p, i, result) ==
    IF zerop(i) THEN result
    ELSE LET q == NaturalDivide(i, two_natural).quo
         IN  ValuePowNatural(IF zerop(q) THEN p ELSE Times(p, p), q, IF evenp(i) THEN result ELSE Times(result, p))
\* A negative exponent flips the result; with base 0 that raises an exception.
Pow(a, b) ==
    LET result == IF b.rep = "int" THEN ValuePowFrom(a, Abs(b.int), One) ELSE ValuePowNatural(a, b.mag, One)
    IN  IF ~Integralp(b) THEN Void
        ELSE IF Negativep(b) THEN Divide(One, result) ELSE result

\* Shifts by an int that is not negative; the other direction is taken for a negative one.
ShiftLeft(a, b) ==
    IF a.rep = "int" /\ b < IntBits
    THEN LET r == a.int * 2 ^ b IN IF MIN_NICKLE_INT <= r /\ r <= MAX_NICKLE_INT THEN NewInt(r) ELSE NewIntInteger(r)
    ELSE Reduce(NewInteger(IF Negativep(a) THEN Negative ELSE Positive, NaturalLsl(Promote(a, "integer").mag, b)))
\* A negative integer is lowered to the next multiple, so that the bits that go are zero.
ShiftRight(a, b) ==
    IF a.rep = "int" /\ b < IntBits THEN NewInt(a.int \div 2 ^ b)
    ELSE LET low == IF Negativep(a) THEN Minus(a, Minus(ShiftLeft(One, b), One)) ELSE a
         IN  Reduce(NewInteger(IF Negativep(a) THEN Negative ELSE Positive, NaturalRsl(Promote(low, "integer").mag, b)))
Shiftable(a, b) == Integralp(a) /\ Integralp(b)
ShiftL(a, b) ==
    IF ~Shiftable(a, b) THEN Void
    ELSE IF Zerop(b) THEN a
    ELSE IF b.rep = "integer" THEN Times(a, Pow(NewInt(2), b))
    ELSE IF Negativep(b) THEN ShiftRight(a, 0 - b.int) ELSE ShiftLeft(a, b.int)
ShiftR(a, b) ==
    IF ~Shiftable(a, b) THEN Void
    ELSE IF Zerop(b) THEN a
    ELSE IF b.rep = "integer" THEN BinaryOperate(a, Pow(NewInt(2), b), "Div")
    ELSE IF Negativep(b) THEN ShiftLeft(a, 0 - b.int) ELSE ShiftRight(a, b.int)

\* What a hash table tells keys apart by: an int by itself, the others by their digits.
HashOf(v) ==
    CASE v.rep = "int"      -> <<v.int>>
      [] v.rep = "integer"  -> <<v.sign, v.mag>>
      [] v.rep = "rational" -> <<v.sign, v.num, v.den>>

---------------------------------------------------------------------------
(* Fractions in a base: the digits before the period and the period.       *)

\* Powers of p out of a, and how many.
RECURSIVE DividedOut(_, _, _)
DividedOut(a, p, n) ==
    LET d == NaturalDivide(a, p) IN IF zerop(d.rem) THEN DividedOut(d.quo, p, n + 1) ELSE <<a, n>>
\* Euler's psi of what is left of a, times ret; none without a small factor, cut off when it
\* exceeds max.
RECURSIVE PsiFrom(_, _, _)
PsiFrom(a, max, ret) ==
    LET p == NaturalFactor(a, max)
        s == DividedOut(a, p, 0)
        pow == NaturalIntPow(p, s[2] - 1)
        fact == NaturalMinus(NaturalTimes(pow, p), pow)
        r == NaturalTimes(ret, fact)
    IN  IF a = one_natural THEN ret
        ELSE IF p = none THEN none
        ELSE IF ~zerop(max) /\ NaturalLess(max, fact) THEN r ELSE PsiFrom(s[1], max, r)
NaturalPsi(a, max) == PsiFrom(a, max, one_natural)

NewPartial(partial) == [partial |-> partial, power |-> 0]
NewFactor(prime, power) == [prime |-> prime, power |-> power, partials |-> <<NewPartial(prime)>>]
NextTrial(p) ==
    IF zerop(p) THEN two_natural ELSE IF p = two_natural THEN NewNatural(3) ELSE NaturalPlus(p, two_natural)
\* The prime factors of n above p, the largest first, up to max.
RECURSIVE GenerateFrom(_, _, _, _, _)
GenerateFrom(n, max, p, largest, f) ==
    LET q == NextTrial(p)
        s == DividedOut(n, q, 0)
    IN  IF n = one_natural THEN f
        ELSE IF s[2] > 0 THEN GenerateFrom(s[1], max, q, NaturalSqrt(s[1]), <<NewFactor(q, s[2])>> \o f)
        ELSE IF ~zerop(max) /\ NaturalLess(max, q) THEN f
        ELSE IF NaturalLess(largest, q) THEN <<NewFactor(n, 1)>> \o f
        ELSE GenerateFrom(n, max, q, largest, f)
GenerateFactors(n, max) == GenerateFrom(n, max, zero_natural, NaturalSqrt(n), <<>>)

\* The next product of the factors f, as <<product, f afterwards>>; none at the end.
RECURSIVE FactorBump(_)
\* The partials are walked, and one is added, as long as they have been multiplied.
RECURSIVE WalkPartials(_, _, _, _)
WalkPartials(ps, rest, i, min) ==
    LET b == FactorBump(rest)
        more == IF i < Len(ps) THEN ps ELSE IF b[1] = none THEN ps ELSE Append(ps, NewPartial(b[1]))
        left == IF i < Len(ps) THEN rest ELSE b[2]
    IN  IF ps[i].power = 0 THEN <<ps, rest, min>>
        ELSE IF i = Len(more) THEN <<more, left, min>>
        ELSE WalkPartials(more, left, i + 1, IF NaturalLess(more[i + 1].partial, more[min].partial) THEN i + 1 ELSE min)
FactorBump(f) ==
    LET w == WalkPartials(f[1].partials, Tail(f), 1, 1)
        min == w[3]
        next == [partial |-> NaturalTimes(w[1][min].partial, f[1].prime), power |-> w[1][min].power + 1]
        partials == IF w[1][min].power < f[1].power THEN [w[1] EXCEPT ![min] = next]
                    ELSE SubSeq(w[1], min + 1, Len(w[1]))
    IN  IF f = <<>> THEN <<none, f>>
        ELSE IF f[1].partials = <<>> THEN <<none, f>>
        ELSE <<w[1][min].partial, <<[f[1] EXCEPT !.partials = partials]>> \o w[2]>>

\* The first of the products factor, FactorBump (f), ... that is a period of 1 / nden; -1 beyond max.
RECURSIVE TryFactors(_, _, _, _, _)
TryFactors(factor, f, max, nden, nbase) ==
    LET b == FactorBump(f)
    IN  IF factor = none \/ NaturalPowMod(nbase, factor, nden) = one_natural THEN factor
        ELSE IF ~zerop(max) /\ b[1] # none /\ NaturalLess(max, b[1]) THEN <<-1, -1>>
        ELSE TryFactors(b[1], b[2], max, nden, nbase)
RECURSIVE TryAll(_, _, _, _)
TryAll(factor, max, nden, nbase) ==
    IF NaturalPowMod(nbase, factor, nden) = one_natural THEN factor
    ELSE IF NaturalLess(max, factor) THEN <<-1, -1>>
    ELSE TryAll(NaturalPlus(factor, one_natural), max, nden, nbase)

RationalRepeatLength(prec, nden, ibase) ==
    LET max == IF prec > 0 THEN NewNatural(prec) ELSE zero_natural
        ndigits == NaturalPsi(nden, max)
        factor == IF ndigits = none THEN TryAll(one_natural, max, nden, NewNatural(ibase))
                  ELSE TryFactors(one_natural, GenerateFactors(ndigits, max), max, nden, NewNatural(ibase))
    IN  IF nden = one_natural THEN 0
        ELSE IF factor = <<-1, -1>> THEN -1
        ELSE NaturalToInt(IF factor = none THEN ndigits ELSE factor)

\* As <<initial, repeat>>; prec < 0 is no limit, a negative initial asks for rounding.
RECURSIVE DecimalLength(_, _, _, _)
DecimalLength(prec, nden, ibase, offset) ==
    LET g == NaturalGcd(nden, NewNatural(ibase))
    IN  IF g # one_natural
        THEN IF prec >= 0 /\ offset + 1 > prec THEN <<0 - prec, 0>>
             ELSE DecimalLength(prec, NaturalDivide(nden, g).quo, ibase, offset + 1)
        ELSE IF prec >= 0 /\ offset >= prec THEN <<prec, 0>>
        ELSE IF nden = one_natural THEN <<offset, 0>>
        ELSE <<offset, RationalRepeatLength(IF prec >= 0 THEN prec - offset ELSE prec, nden, ibase)>>
CheckDecimalLength(prec, nden, ibase) == DecimalLength(prec, nden, ibase, 0)

\* digits of a in the base, filled with zeros to width characters
Filled(a, base, width) == LET d == NaturalSprint(a, base) IN Zeros(Larger(0, width - Len(d))) \o d

\* The parts of the output are pared down until they fit.
RECURSIVE Pared(_, _)
Pared(w, space) ==
    LET total == w.dot + w.initial + w.rep + w.brace
        rep == Larger(0, space - (w.dot + w.initial + (IF w.brace > 1 THEN 1 ELSE w.brace)))
    IN  IF space < 0 \/ total <= space THEN w
        ELSE IF w.rep # 0
             THEN Pared([w EXCEPT !.rep = rep, !.brace = IF w.brace > 1 THEN 1 ELSE w.brace,
                                  !.repeat = IF w.brace > 1 THEN 0 - w.repeat ELSE w.repeat], space)
        ELSE IF w.brace # 0 THEN Pared([w EXCEPT !.brace = 0], space)
        ELSE IF w.initial # 0 THEN Pared([w EXCEPT !.initial = Larger(0, space - w.dot)], space)
        ELSE Pared([w EXCEPT !.dot = 0], space)

\* What the formats other than "e" and "g" print of a rational: the digits before the point, those
\* after it, the period and whether it is closed by a brace.
RationalDecimalPrint(v, format, base, width, prec) ==
    LET use_braces == format # "f"
        len == CheckDecimalLength(prec, v.den, base)
        fill == len[2] # 0 /\ ~use_braces /\ prec # -1
        repeat == IF fill THEN 0 ELSE len[2]
        rep == IF repeat < 0 THEN prec - len[1] ELSE repeat
        \* negative: round to this many digits
        wanted == IF fill THEN 0 - prec ELSE len[1]
        half == NaturalTimes(NaturalIntPow(NewNatural(base), Abs(wanted)), two_natural)
        r == IF wanted < 0 THEN RationalPlusHelper(v.sign, v, NewRational(Positive, one_natural, half)) ELSE v
        initial == IF wanted > 0 /\ repeat = 0 /\ ~use_braces THEN Larger(wanted, prec) ELSE Abs(wanted)
        d == NaturalDivide(r.num, r.den)
        whole == NaturalSprint(d.quo, base)
        dot == IF initial + rep # 0 THEN 1 ELSE 0
        most == Larger(0, Abs(width) - Len(whole))
        space == IF width # 0 THEN IF prec > 0 THEN Smaller(most, prec + dot) ELSE most
                 ELSE IF prec > 0 THEN prec + dot ELSE -1
        w == Pared([dot |-> dot, initial |-> initial, rep |-> rep, repeat |-> repeat,
                    brace |-> IF repeat > 0 THEN 2 ELSE IF repeat < 0 THEN 1 ELSE 0], space)
        Shifted(partial, n) == NaturalDivide(NaturalTimes(partial, NaturalIntPow(NewNatural(base), n)), r.den)
        i == Shifted(d.rem, w.initial)
        p == Shifted(IF w.initial # 0 THEN i.rem ELSE d.rem, w.rep)
    IN  [sign |-> r.sign, whole |-> whole,
         initial |-> IF w.initial # 0 THEN Filled(i.quo, base, w.initial) ELSE <<>>,
         repeat |-> IF w.rep # 0 THEN Filled(p.quo, base, w.rep) ELSE <<>>,
         braces |-> w.rep # 0 /\ use_braces,
         closed |-> w.rep # 0 /\ use_braces /\ w.repeat > 0]
=============================================================================
