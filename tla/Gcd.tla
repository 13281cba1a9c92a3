-------------------------------- MODULE Gcd --------------------------------
(***************************************************************************)
(* The greatest common divisor of gcd.c: small operands by the binary      *)
(* algorithm, larger ones by Weber's reductions modulo powers of two,      *)
(* which leave a multiple of it, and two rounds that fix the multiple.     *)
(***************************************************************************)
EXTENDS Natural

CONSTANT WidthGap    \* operands whose widths differ by more are divided, 10 in the code

RECURSIVE DigitWidth(_)
DigitWidth(i) == IF i < 2 THEN 0 ELSE 1 + DigitWidth(i \div 2)
NaturalWidth(u) == IF zerop(u) THEN 0 ELSE DigitWidth(u[Len(u)]) + (Len(u) - 1) * Bits

RECURSIVE DigitZeroBits(_)
DigitZeroBits(d) == IF d % 2 = 1 THEN 0 ELSE 1 + DigitZeroBits(d \div 2)
RECURSIVE NaturalZeroBits(_)
NaturalZeroBits(u) ==
    IF zerop(u) THEN 0 ELSE IF u[1] = 0 THEN Bits + NaturalZeroBits(Tail(u)) ELSE DigitZeroBits(u[1])

\* u / v modulo 2^Bits, bit by bit from bit i on.
RECURSIVE BmodFrom(_, _, _, _)
BmodFrom(u, v, i, m) ==
    IF i = Bits THEN m
    ELSE LET take == u % 2 ^ (i + 1) # 0
         IN  BmodFrom(IF take THEN (u - v) % BASE ELSE u, (v * 2) % BASE, i + 1, IF take THEN m + 2 ^ i ELSE m)
DigitBmod(u, v) == BmodFrom(u, v, 0, 0)

\* d ^ (2^Bits - 1), the inverse of an odd d modulo 2^Bits.
RECURSIVE InverseFrom(_, _, _)
InverseFrom(d, b, result) ==
    LET r == (result * d) % BASE
    IN  IF b = 1 THEN r ELSE InverseFrom((d * d) % BASE, b \div 2, r)
DigitInverse(d) == InverseFrom(d, MAXDIGIT, 1)

\* The two's complement of digits that were borrowed from below zero.
RECURSIVE Negated(_, _)
Negated(x, carry) ==
    IF zerop(x) THEN <<>>
    ELSE <<(MAXDIGIT - x[1] + carry) % BASE>> \o Negated(Tail(x), IF x[1] # 0 THEN 0 ELSE carry)

\* |u - b v|, without the lowest digit when shift.
NaturalBdivmodStep(u, v, b, shift) ==
    LET row == TimesFrom(v, b, 1, 0)
        n == Larger(Len(u), Len(v))
        s == Ripple(SubDigit, u, row, 1, n, 0)
        carry == s[2] + Digit(row, n + 1)
        Kept(x) == IF shift THEN Tail(x) ELSE x
    IN  DigitsTrim(IF carry = 0 THEN Kept(s[1]) ELSE Negated(Kept(Append(s[1], (0 - carry) % BASE)), 1))

RECURSIVE NaturalBdivmod(_, _, _)
NaturalBdivmod(u, v, bits) ==
    LET inverse == DigitInverse(v[1])
        q == (Digit(u, 1) * inverse) % BASE
        dmask == 2 ^ bits
        qlow == ((Digit(u, 1) % dmask) * inverse) % dmask
    IN  IF bits >= Bits
        THEN NaturalBdivmod(IF q = 0 THEN NaturalRsl(u, Bits) ELSE NaturalBdivmodStep(u, v, q, TRUE), v, bits - Bits)
        ELSE IF bits = 0 THEN u
        ELSE NaturalRsl(IF qlow = 0 THEN u ELSE NaturalBdivmodStep(u, v, qlow, FALSE), bits)

\* A small n / d that is x / y modulo 2^Bits: Euclid's algorithm on it, stopped half way.
RECURSIVE Subtract(_, _, _)
Subtract(big, small, i) ==
    LET n == (small.n * 2 ^ i) % BASE
        next == IF big.n < n THEN big
                ELSE [n |-> big.n - n, d |-> (big.d - small.d * 2 ^ i) % BASE]
    IN  IF big.n < small.n THEN big ELSE Subtract(next, small, i - 1)
RECURSIVE Halve(_, _)
Halve(one, two) ==
    IF DigitWidth(two.n) <= Bits \div 2 THEN two
    ELSE Halve(two, Subtract(one, two, DigitWidth(one.n) - DigitWidth(two.n)))
ReducedRatMod(x, y) ==
    LET c == DigitBmod(x[1], y[1])
    IN  Halve([n |-> c, d |-> 1], [n |-> (0 - c) % BASE, d |-> MAXDIGIT])

abort == <<-1>>
\* |d u - n v| / BASE, or d u + n v when d is negative.
NaturalKaryReduction(u, v) ==
    LET r == ReducedRatMod(u, v)
        half == 2 ^ (Bits \div 2)
        add == (r.d \div half) % 2 = 1
        d == IF add THEN (0 - r.d) % half ELSE r.d
        n == Larger(Len(u), Len(v)) + 1
        du == TimesFrom(u, d, 1, 0)
        nv == TimesFrom(v, r.n, 1, 0)
        sum == Ripple(AddDigit, du, nv, 1, n, 0)
        diff == Ripple(SubDigit, du, nv, 1, n, 0)
    IN  IF add THEN IF sum[2] # 0 THEN abort ELSE DigitsTrim(Tail(sum[1]))
        ELSE DigitsTrim(IF diff[2] # 0 THEN Negated(Tail(diff[1]), 1) ELSE Tail(diff[1]))

RECURSIVE OddPart(_)
OddPart(d) == IF d % 2 = 1 THEN d ELSE OddPart(d \div 2)
RECURSIVE BinaryGcd(_, _)
BinaryGcd(u, v) ==
    IF v = 0 THEN u
    ELSE LET w == OddPart(v) IN IF w < u THEN BinaryGcd(w, u - w) ELSE BinaryGcd(u, w - u)

\* Both odd, until one is 0: what is left is the gcd times a factor.
RECURSIVE Weber(_, _)
Weber(u, v) ==
    IF zerop(v) THEN u
    ELSE LET gap == NaturalWidth(u) - NaturalWidth(v)
             w == IF gap > WidthGap THEN NaturalBdivmod(u, v, gap + 1) ELSE NaturalKaryReduction(u, v)
         IN  IF w = abort THEN w ELSE Weber(v, NaturalRsl(w, NaturalZeroBits(w)))

RECURSIVE FixLoop(_, _)
FixLoop(u, v) ==
    IF zerop(v) THEN u
    ELSE LET w == NaturalRsl(v, NaturalZeroBits(v))
             small == IF NaturalLess(w, u) THEN w ELSE u
             large == IF NaturalLess(w, u) THEN u ELSE w
         IN  FixLoop(small, Number(NaturalSubtractOffset(Sized(large, Len(large)), small, 0)[1]))
\* gcd (v, u) for an odd v.
Fix(u, v) ==
    LET w == NaturalBdivmod(u, v, NaturalWidth(u) - NaturalWidth(v) + 1)
    IN  IF zerop(w) THEN v ELSE FixLoop(w, v)

NaturalGcd(u0, v0) ==
    LET normal == Smaller(NaturalZeroBits(u0), NaturalZeroBits(v0))
        a == NaturalRsl(u0, NaturalZeroBits(u0))
        b == NaturalRsl(v0, NaturalZeroBits(v0))
        u == IF NaturalLess(a, b) THEN b ELSE a
        v == IF NaturalLess(a, b) THEN a ELSE b
        odd == IF Len(u) <= 2 THEN NewNatural(BinaryGcd(NaturalToInt(u), NaturalToInt(v)))
               ELSE Fix(v0, Fix(u0, Weber(u, v)))
    IN  IF zerop(u0) \/ zerop(v0) THEN zero_natural ELSE NaturalLsl(odd, normal)
=============================================================================
