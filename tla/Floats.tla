------------------------------- MODULE Floats -------------------------------
(***************************************************************************)
(* Floats as float.c computes with them: mant * 2^exp where the mantissa   *)
(* is a signed natural of at most prec bits, odd unless it is 0.  An       *)
(* exponent is an integer of any size in the code and a number here.       *)
(***************************************************************************)
EXTENDS Numbers

NewFpart(sign, mag) == [sign |-> IF zerop(mag) THEN Positive ELSE sign, mag |-> mag]
NewIntFpart(i) == NewFpart(IntSign(i), NewNatural(Abs(i)))
zero_fpart == NewFpart(Positive, zero_natural)
one_fpart == NewFpart(Positive, one_natural)
FpartZero(a) == zerop(a.mag)

FpartNegate(a) == NewFpart(SignNegate(a.sign), a.mag)
FpartAdd(a, b, negate) ==
    LET bsign == IF negate THEN SignNegate(b.sign) ELSE b.sign
    IN  IF a.sign = bsign THEN NewFpart(a.sign, NaturalPlus(a.mag, b.mag))
        ELSE IF NaturalLess(a.mag, b.mag) THEN NewFpart(bsign, NaturalMinus(b.mag, a.mag))
        ELSE NewFpart(a.sign, NaturalMinus(a.mag, b.mag))
FpartMult(a, b) == NewFpart(SignOf(a, b), NaturalTimes(a.mag, b.mag))
FpartDivide(a, b) ==
    LET d == NaturalDivide(a.mag, b.mag)
    IN  [quo |-> NewFpart(SignOf(a, b), d.quo), rem |-> d.rem]
FpartRsl(a, shift) == NewFpart(a.sign, NaturalRsl(a.mag, shift))
FpartLsl(a, shift) == NewFpart(a.sign, NaturalLsl(a.mag, shift))
FpartLess(a, b) ==
    \/ a.sign = Negative /\ b.sign = Positive
    \/ a.sign = Positive /\ b.sign = Positive /\ NaturalLess(a.mag, b.mag)
    \/ a.sign = Negative /\ b.sign = Negative /\ NaturalLess(b.mag, a.mag)
FpartEqual(a, b) == a.sign = b.sign /\ NaturalEqual(a.mag, b.mag)

RECURSIVE BitsOf(_)
BitsOf(top) == IF top = 0 THEN 0 ELSE 1 + BitsOf(top \div 2)
FpartLength(a) == IF FpartZero(a) THEN 0 ELSE (Len(a.mag) - 1) * Bits + BitsOf(a.mag[Len(a.mag)])
RECURSIVE ZerosFrom(_, _)
ZerosFrom(n, i) ==
    IF i < Len(n) /\ n[i] = 0 THEN Bits + ZerosFrom(n, i + 1)
    ELSE CHOOSE z \in 0..(Bits - 1) : n[i] % 2 ^ z = 0 /\ (n[i] \div 2 ^ z) % 2 = 1
FpartZeros(a) == IF FpartZero(a) THEN 0 ELSE ZerosFrom(a.mag, 1)

\* What a shift to the right drops: the highest bit of it, and whether a bit below that is set.
RoundOf(half, rest) == [half |-> half, rest |-> rest]
RECURSIVE RoundFrom(_, _, _, _)
RoundFrom(n, i, shift, below) ==
    IF i > Len(n) THEN RoundOf(FALSE, below)
    ELSE IF shift > Bits THEN RoundFrom(n, i + 1, shift - Bits, below \/ n[i] # 0)
    ELSE RoundOf((n[i] \div 2 ^ (shift - 1)) % 2 = 1, below \/ n[i] % 2 ^ (shift - 1) # 0)
FpartRound(a, shift) == IF shift = 0 THEN RoundOf(FALSE, FALSE) ELSE RoundFrom(a.mag, 1, shift, FALSE)

---------------------------------------------------------------------------
\* The mantissa in prec bits, rounded to the nearest and, halfway, to the even one; a carry out of
\* the top leaves one bit too many.
Trimmed(mant, exp, prec) ==
    LET dist == FpartLength(mant) - prec
        round == FpartRound(mant, dist)
        short == FpartRsl(mant, dist)
        up == NewFpart(short.sign, NaturalPlus(short.mag, one_natural))
    IN  IF dist <= 0 THEN [mant |-> mant, exp |-> exp]
        ELSE IF ~(round.half /\ (round.rest \/ ~evenp(short.mag))) THEN [mant |-> short, exp |-> exp + dist]
        ELSE IF FpartLength(up) # prec THEN [mant |-> FpartRsl(up, 1), exp |-> exp + dist + 1]
        ELSE [mant |-> up, exp |-> exp + dist]
NewFloat(mant, exp, prec) ==
    LET t == Trimmed(mant, exp, prec)
        dist == FpartZeros(t.mant)
        m == IF dist = 0 THEN t.mant ELSE FpartRsl(t.mant, dist)
    IN  [rep |-> "float", mant |-> m, exp |-> IF FpartZero(m) THEN 0 ELSE t.exp + dist, prec |-> prec]

FloatNegate(a) == NewFloat(FpartNegate(a.mant), a.exp, a.prec)

\* The operand with the greater exponent is shifted to the other's, unless nothing of the other one
\* would be left in its precision: it is the result then.
Aligned(high, low, d) == FpartLength(high.mant) + d <= FpartLength(low.mant) + high.prec
AlignedPrec(high, low, d) == Smaller(low.prec, high.prec + d)
FloatAdd(a, b, negate) ==
    LET d == a.exp - b.exp
        high == IF d >= 0 THEN a ELSE b
        low == IF d >= 0 THEN b ELSE a
        shifted == FpartLsl(high.mant, Abs(d))
    IN  IF FpartZero(a.mant) THEN IF negate THEN FloatNegate(b) ELSE b
        ELSE IF FpartZero(b.mant) THEN a
        ELSE IF Abs(d) < MAX_NICKLE_INT /\ Aligned(high, low, Abs(d))
             THEN NewFloat(IF d >= 0 THEN FpartAdd(shifted, b.mant, negate) ELSE FpartAdd(a.mant, shifted, negate),
                           low.exp, AlignedPrec(high, low, Abs(d)))
        ELSE IF d >= 0 THEN a
        ELSE IF negate THEN FloatNegate(b) ELSE b
FloatPlus(a, b) == FloatAdd(a, b, FALSE)
FloatMinus(a, b) == FloatAdd(a, b, TRUE)
FloatTimes(a, b) == NewFloat(FpartMult(a.mant, b.mant), a.exp + b.exp, Smaller(a.prec, b.prec))

\* The quotient has two bits more than are kept, the lowest one set if there is a remainder.
Sticky_None(quo, rem) == quo
Sticky(quo, rem) ==
    IF zerop(rem) \/ ~evenp(quo.mag) THEN quo ELSE NewFpart(quo.sign, <<quo.mag[1] + 1>> \o Tail(quo.mag))
FloatDivide(a, b) ==
    LET prec == Smaller(a.prec, b.prec)
        pad == Larger(0, prec + FpartLength(b.mant) + 2 - FpartLength(a.mant))
        d == FpartDivide(FpartLsl(a.mant, pad), b.mant)
    IN  IF FpartZero(b.mant) THEN Void
        ELSE NewFloat(Sticky(d.quo, d.rem), a.exp - (b.exp + pad), prec)

FloatLess(a, b) ==
    IF FpartZero(a.mant) THEN b.mant.sign = Positive /\ ~FpartZero(b.mant)
    ELSE IF FpartZero(b.mant) THEN a.mant.sign = Negative
    ELSE IF a.exp = b.exp THEN FpartLess(a.mant, b.mant)
    ELSE FloatMinus(a, b).mant.sign = Negative
FloatEqual(a, b) ==
    IF a.exp = b.exp THEN FpartEqual(a.mant, b.mant) ELSE FpartZero(FloatMinus(a, b).mant)

---------------------------------------------------------------------------
FloatInteger(a) ==
    IF a.exp < 0 THEN Void ELSE Reduce(NewInteger(a.mant.sign, NaturalLsl(a.mant.mag, a.exp)))
\* Toward the given sign: a mantissa with fraction bits is odd, so what a shift drops is not 0.
FloatRound(a, away) ==
    LET d == Abs(a.exp)
        whole == FpartRsl(a.mant, d)
    IN  IF a.exp >= 0 THEN FloatInteger(a)
        ELSE IF a.prec < d THEN NewInt(IF a.mant.sign # away THEN 0 ELSE IF away = Negative THEN -1 ELSE 1)
        ELSE IF a.mant.sign = away
             THEN FloatInteger(NewFloat(FpartAdd(whole, one_fpart, away = Negative), 0, a.prec - (d - 1)))
        ELSE FloatInteger(NewFloat(whole, 0, a.prec - d))
FloatFloor(a) == FloatRound(a, Negative)
FloatCeil(a) == FloatRound(a, Positive)

NewNaturalFloat(sign, n, prec) == NewFloat(NewFpart(sign, n), 0, prec)
NewIntFloat(i, prec) == NewFloat(NewIntFpart(i), 0, prec)
NewIntegerFloat(i, prec) == NewNaturalFloat(i.sign, i.mag, prec)
\* Both parts are rounded, and their quotient.
NewRationalFloat(r, prec) ==
    FloatDivide(NewNaturalFloat(r.sign, r.num, prec), NewNaturalFloat(Positive, r.den, prec))
NewValueFloat(v, prec) ==
    CASE v.rep = "int"      -> NewIntFloat(v.int, prec)
      [] v.rep = "integer"  -> NewIntegerFloat(v, prec)
      [] v.rep = "rational" -> NewRationalFloat(v, prec)
      [] v.rep = "float"    -> IF prec = v.prec THEN v ELSE NewFloat(v.mant, v.exp, prec)
\* Another number beside a float takes its precision.
FloatPromote(v, other) == IF v.rep = "float" THEN v ELSE NewValueFloat(v, other.prec)
\* The exponent is an int or an integer; anything else counts as 0.
FloatLdexp(a, e) ==
    NewFloat(a.mant, a.exp + (CASE e.rep = "int" -> e.int [] e.rep = "integer" -> IntegerToInt(e) [] OTHER -> 0), a.prec)
FloatOperate(av, bv, op) ==
    LET a == FloatPromote(av, bv)
        b == FloatPromote(bv, av)
    IN  CASE op = "Plus"   -> FloatPlus(a, b)
          [] op = "Minus"  -> FloatMinus(a, b)
          [] op = "Times"  -> FloatTimes(a, b)
          [] op = "Divide" -> FloatDivide(a, b)
          [] op = "Less"   -> Booleans[FloatLess(a, b)]
          [] op = "Equal"  -> Booleans[FloatEqual(a, b)]
=============================================================================
