----------------------------- MODULE MCNumbers -----------------------------
(***************************************************************************)
(* The arithmetic of Natural, Gcd and Numbers against that of the          *)
(* integers.  A state is a pair of operands; digits of 2 bits (and         *)
(* Karatsuba products from two digits on) for the naturals, of 6 bits for  *)
(* the gcd, of 4 bits with ints of 3 for integers and fractions, and of 2  *)
(* bits for floats, whose mantissas have 3 to 5.  What is claimed of a     *)
(* pair is claimed of the step that leaves it for the next, so it holds    *)
(* of every y below MaxY: TLC profiles the expressions of an invariant one *)
(* by one, and these call each other too deeply for that.                  *)
(***************************************************************************)
EXTENDS Integers, Sequences, FiniteSetsExt

CONSTANTS MaxX, MaxY

VARIABLES x, y

N == INSTANCE Natural WITH Bits <- 2, KaratsubaLimit <- 2
G == INSTANCE Gcd WITH Bits <- 6, KaratsubaLimit <- 2, WidthGap <- 2
V == INSTANCE Numbers WITH Bits <- 4, KaratsubaLimit <- 2, WidthGap <- 2, IntBits <- 3
F == INSTANCE Floats WITH Bits <- 2, KaratsubaLimit <- 2, WidthGap <- 2, IntBits <- 6

OperandsInit == x \in 0..MaxX /\ y = 0
NextOperand == y < MaxY /\ y' = y + 1 /\ UNCHANGED x
MCSpec == OperandsInit /\ [][NextOperand]_<<x, y>>

X == N!NewNatural(x)
Y == N!NewNatural(y)

\* Sums, differences, comparisons and products of naturals are those of the numbers, in the one
\* form without zeros at the top, whatever carries and however products are split (natural.c).
SumsAndProductsExact ==
    /\ N!NaturalPlus(X, Y) = N!NewNatural(x + y)
    /\ x >= y => N!NaturalMinus(X, Y) = N!NewNatural(x - y)
    /\ N!NaturalLess(X, Y) <=> x < y
    /\ N!NaturalTimes(X, Y) = N!NewNatural(x * y)

\* The estimated, corrected digits of NaturalDivide are those of the quotient, and what is left is
\* the remainder (divide.c).
DivideExact ==
    y # 0 => LET d == N!NaturalDivide(X, Y)
             IN  d.quo = N!NewNatural(x \div y) /\ N!NaturalToInt(d.rem) = x % y

\* Shifts and masks that cross digits are those of the number (natural.c).
BitShiftsExact ==
    y < 12 => /\ N!NaturalRsl(X, y) = N!NewNatural(x \div 2 ^ y)
              /\ N!NaturalLsl(X, y) = N!NewNatural(x * 2 ^ y)
              /\ N!NaturalMask(X, y) = N!NewNatural(x % 2 ^ y)

RECURSIVE Horner(_, _)
Horner(s, base) == IF s = <<>> THEN 0 ELSE s[Len(s)] + base * Horner(SubSeq(s, 1, Len(s) - 1), base)

\* The recursive split of NaturalSprint prints every digit once, with the zeros inside and none in
\* front.
PrintedDigits(s, n, base) == Horner(s, base) = n /\ (IF n = 0 THEN Len(s) = 1 ELSE s[1] # 0)
SprintExact ==
    /\ y \in 2..4 => PrintedDigits(N!NaturalSprint(X, y), x, y)
    /\ y \in 5..12 => PrintedDigits(V!NaturalSprint(V!NewNatural(x * x + y), y), x * x + y, y)

\* The bisection ends at the root or right above it (5 apart, which it begins at 2), trial division
\* at the smallest factor, and the powers by squaring are powers.
RootsAndPowersExact ==
    /\ x >= 4 /\ y = 0 => LET r == N!NaturalToInt(N!NaturalSqrt(X)) IN (r - 1) * (r - 1) < x /\ (r * r >= x \/ x = 5)
    /\ x >= 2 /\ y = 0 => N!NaturalToInt(N!NaturalFactor(X, <<>>)) = Min({p \in 2..x : x % p = 0})
    /\ y < 7 /\ x \in 1..15 => /\ N!NaturalToInt(N!NaturalPow(X, Y)) = x ^ y
                               /\ x > 1 => N!NaturalToInt(N!NaturalPowMod(N!NewNatural(7), Y, X)) = (7 ^ y) % x

RECURSIVE Euclid(_, _)
Euclid(a, b) == IF b = 0 THEN a ELSE Euclid(b, a % b)
GcdIs(u, v) ==
    G!NaturalGcd(G!NewNatural(u), G!NewNatural(v)) = G!NewNatural(IF u = 0 \/ v = 0 THEN 0 ELSE Euclid(u, v))

\* Weber's reductions, with the two rounds that remove the factors they bring in, find the gcd that
\* Euclid's algorithm does (gcd.c).
Common == 1 + ((7 * x + 3 * y) % 40)
GcdExact == GcdIs(16 * x * Common, y * Common) /\ GcdIs(2111 * x + 7, 173 * y + 1) /\ GcdIs(x * x * 3 + 5, y)

\* Naturals are computed exactly, digit by digit.
NaturalsExact ==
    [][/\ SumsAndProductsExact /\ DivideExact /\ BitShiftsExact
       /\ SprintExact /\ RootsAndPowersExact /\ GcdExact]_<<x, y>>

---------------------------------------------------------------------------
(* Signed operands, and the fractions of them.                             *)

Most == V!MAX_NICKLE_INT
Value(i) == IF i \in V!MIN_NICKLE_INT..Most THEN V!NewInt(i) ELSE V!NewIntInteger(i)
a == x - (MaxX + 1) \div 2
b == y - MaxY \div 2
A == Value(a)
B == Value(b)
\* The quotient in C of the least int and -1 does not fit an int.
Overflows == a = V!MIN_NICKLE_INT /\ b = -1

Num(v) == CASE v.rep = "int"      -> v.int
            [] v.rep = "integer"  -> V!IntegerToInt(v)
            [] v.rep = "rational" -> (IF v.sign = V!Negative THEN -1 ELSE 1) * V!NaturalToInt(v.num)
Den(v) == IF v.rep = "rational" THEN V!NaturalToInt(v.den) ELSE 1
\* v is n / d in the representation that equality and hashing rely on: an int if it is below the
\* greatest one, a rational in lowest terms only when it is not an integer.
Is(v, n, d) ==
    /\ Num(v) * d = n * Den(v)
    /\ v.rep = "integer" => V!NaturalToInt(v.mag) >= Most
    /\ v.rep = "rational" => Den(v) > 1 /\ Euclid(V!NaturalToInt(v.num), Den(v)) = 1
FloorDiv(n, d) == IF d > 0 THEN n \div d ELSE 0 - (n \div (0 - d))
\* Bits of ints in two's complement.
Wide == 65536
Signed(w) == IF w >= Wide \div 2 THEN w - Wide ELSE w

\* Every operator on ints and integers gives the number it should, promoted when it does not fit and
\* reduced when it does; division by an int is exact unless it overflows.
IntegersExact ==
    LET o(op) == V!BinaryOperate(A, B, op)
    IN  /\ Is(o("Plus"), a + b, 1) /\ Is(o("Minus"), a - b, 1) /\ Is(o("Times"), a * b, 1)
        /\ b # 0 /\ ~Overflows => /\ Num(o("Divide")) * b = a * Den(o("Divide"))
                                  /\ Is(o("Div"), FloorDiv(a, b), 1)
                                  /\ Is(o("Mod"), a - b * FloorDiv(a, b), 1)
        /\ V!Less(A, B) <=> a < b
        /\ V!Equal(A, B) <=> a = b

\* Shifts and bitwise operators are those of two's complement (Land when an operand is not negative,
\* Lor when both are not), in either representation of the operands.
BitsExact ==
    LET o(op) == V!BinaryOperate(A, B, op)
    IN  /\ a >= 0 \/ b >= 0 => Is(o("Land"), Signed(N!&(a % Wide, b % Wide)), 1)
        /\ a >= 0 /\ b >= 0 => /\ Is(o("Lor"), Signed(N!|(a % Wide, b % Wide)), 1)
                               /\ Is(V!Lxor(A, B), Signed(N!^^(a % Wide, b % Wide)), 1)
        /\ a # V!MIN_NICKLE_INT => Is(V!Lnot(A), 0 - a - 1, 1)
        /\ b \in 1..Most => /\ Is(V!ShiftL(A, B), a * 2 ^ b, 1) /\ Is(V!ShiftR(A, B), a \div 2 ^ b, 1)
                            /\ V!ShiftL(A, Value(0 - b)) = V!ShiftR(A, B)

\* Powers, of fractions for a negative exponent, and factorials.
PowersExact ==
    /\ b \in 0..3 /\ a # 0 => Is(V!Pow(A, B), a ^ b, 1)
    /\ b \in -3..-1 /\ a \in -30..30 \ {0} => Num(V!Pow(A, B)) * a ^ (0 - b) = Den(V!Pow(A, B))
    /\ b = 0 /\ a \in 1..8 => Is(V!Factorial(A), ProductSet(1..a), 1)

\* Arithmetic on fractions is exact and leaves them in lowest terms.
RationalsExact ==
    LET da == 1 + (x % 7)
        db == 1 + (y % 5)
        p == V!Divide(A, Value(da))
        q == V!Divide(B, Value(db))
        o(op) == V!BinaryOperate(p, q, op)
        f == FloorDiv(a * db, da * b)
    IN  /\ Is(o("Plus"), a * db + b * da, da * db) /\ Is(o("Minus"), a * db - b * da, da * db)
        /\ Is(o("Times"), a * b, da * db)
        /\ b # 0 /\ ~Overflows => /\ Num(o("Divide")) * b * da = a * db * Den(o("Divide"))
                                  /\ Is(o("Div"), f, 1)
                                  /\ Is(o("Mod"), a * db - f * b * da, da * db)
        /\ V!Less(p, q) <=> a * db < b * da
        /\ V!Equal(p, q) <=> a * db = b * da
        /\ Is(V!Floor(p), a \div da, 1) /\ Is(V!Ceil(p), 0 - ((0 - a) \div da), 1)
        /\ Is(V!Round(p), (2 * a + da) \div (2 * da), 1)

RECURSIVE PowerMod(_, _, _)
PowerMod(base, k, m) == IF k = 0 THEN 1 % m ELSE (PowerMod(base, k - 1, m) * base) % m
\* n without the factors it shares with base, and how many rounds that takes.
RECURSIVE Coprime(_, _)
Coprime(n, base) ==
    LET g == Euclid(n, base)
        c == Coprime(n \div g, base)
    IN  IF g = 1 THEN <<n, 0>> ELSE <<c[1], 1 + c[2]>>
Base == CASE y = 0 -> 10 [] y = 1 -> 2 [] y = 2 -> 3 [] y = 3 -> 12 [] OTHER -> 7

\* 1 / x has as many digits before its period as CheckDecimalLength says, and what it finds among
\* the products of the factors of psi (x) is a period (not always the shortest).
RepeatIsPeriod ==
    x \in 2..160 /\ y <= 4 => LET l == V!CheckDecimalLength(-1, V!NewNatural(x), Base)
                           c == Coprime(x, Base)
                       IN  /\ l[1] = c[2]
                           /\ IF c[1] = 1 THEN l[2] = 0 ELSE l[2] > 0 /\ PowerMod(Base, l[2], c[1]) = 1

\* The digits of a fraction denote it exactly when a brace closes the period or nothing was cut off,
\* and to a unit of the last place otherwise; what is printed is not wider than a field that has
\* room for a digit after the point.
PrintedAs(v, format, base, width, prec) ==
    LET r == V!RationalDecimalPrint(v, format, base, width, prec)
        n == Num(v)
        unit == base ^ Len(r.initial \o r.repeat)
        digits == Horner(r.whole \o r.initial \o r.repeat, base)
        cycle == base ^ Len(r.repeat) - 1
        off == n * unit - digits * Den(v)
    IN  /\ r.closed => (Horner(r.whole \o r.initial, base) * cycle + Horner(r.repeat, base)) * Den(v)
                       = n * cycle * base ^ Len(r.initial)
        /\ ~r.closed => off < Den(v) /\ 0 - off < Den(v)
        /\ format # "f" /\ width = 0 /\ prec = -1 /\ ~r.closed => off = 0
        /\ width > Len(r.whole) + 1 =>
               Len(r.whole \o r.initial \o r.repeat) + 1
               + (IF r.closed THEN 2 ELSE IF r.braces THEN 1 ELSE 0) <= width
Formats == <<<<"d", 10, 0, -1>>, <<"d", 2, 0, -1>>, <<"f", 10, 0, 2>>, <<"f", 10, 0, 1>>,
             <<"d", 10, 5, 15>>, <<"f", 3, 6, 3>>, <<"d", 2, 0, 4>>>>
PrintDenotes ==
    LET v == V!NewRational(V!Positive, V!NewNatural(x), V!NewNatural(2 + (y % 12)))
        f == Formats[1 + (y \div 12)]
    IN  x \in 1..63 /\ Den(v) > 1 => PrintedAs(v, f[1], f[2], f[3], f[4])

\* Ints, integers and fractions are computed and printed exactly, whatever represents them.
NumbersExact ==
    [][IntegersExact /\ BitsExact /\ PowersExact /\ RationalsExact /\ RepeatIsPeriod /\ PrintDenotes]_<<x, y>>

---------------------------------------------------------------------------
(* Floats of 3 to 5 bits.  All of them are multiples of 1 / Scale.         *)

Scale == 16
P == F!NewFloat(F!NewIntFpart((x % 32) - 16), (x \div 32) - 4, 3 + (x % 3))
Q == F!NewFloat(F!NewIntFpart((y % 27) - 13), 3 * (y \div 27) - 4, 3 + (y % 2))
Mant(v) == (IF v.mant.sign = F!Negative THEN -1 ELSE 1) * F!NaturalToInt(v.mant.mag)
Scaled(v) == Mant(v) * 2 ^ (v.exp + 4)
p == Scaled(P)
q == Scaled(Q)

Canonical(v) == IF Mant(v) = 0 THEN v.exp = 0 ELSE Mant(v) % 2 = 1 /\ F!FpartLength(v.mant) <= v.prec
\* v is the float of its precision nearest to n / d and, of two, the one with an even last bit.
\* Below a power of two, toward zero, the floats are half as far apart as above it.
Nearest(v, n, d) ==
    LET m == IF Mant(v) = 0 THEN 0 ELSE Mant(v) * 2 ^ (v.prec - F!FpartLength(v.mant))
        e == IF Mant(v) = 0 THEN 0 ELSE v.exp - (v.prec - F!FpartLength(v.mant))
        off == 2 * (IF e < 0 THEN m * d - n * 2 ^ (0 - e) ELSE m * d * 2 ^ e - n)
        room == IF V!Abs(Mant(v)) = 1 /\ Mant(v) * off > 0 THEN 2 * V!Abs(off) ELSE V!Abs(off)
        unit == IF e < 0 THEN d ELSE d * 2 ^ e
    IN  /\ Canonical(v)
        /\ Mant(v) = 0 => n = 0
        /\ room <= unit
        /\ room = unit => m % 2 = 0
\* v is the operand high, a power of two, although low takes less than half of its last place from
\* it, where a quarter would make the float below it the nearest.
Absorbed(v, high, low) ==
    /\ V!Abs(Mant(v)) = 1 /\ Scaled(v) = high
    /\ V!Abs(low) * 2 ^ v.prec < V!Abs(high)

\* Sums, differences, products and quotients of floats are the exact ones, rounded once to the
\* nearest even mantissa, in a precision that is not less than that of the operand that has less
\* (float.c: alignment, guard bits, rounding and the carry it may cause); but FloatAdd drops an
\* operand that is too small, and then a power of two is left as it is.
FloatsNearest ==
    LET enough(v) == v.prec >= V!Smaller(P.prec, Q.prec)
        sum == F!FloatPlus(P, Q)
        less == F!FloatMinus(P, Q)
        quo == F!FloatDivide(P, Q)
    IN  /\ Nearest(sum, p + q, Scale) \/ Absorbed(sum, p, q) \/ Absorbed(sum, q, p)
        /\ Nearest(less, p - q, Scale) \/ Absorbed(less, p, q) \/ Absorbed(less, 0 - q, p)
        /\ enough(sum) /\ enough(less)
        /\ Nearest(F!FloatTimes(P, Q), p * q, Scale * Scale)
        /\ IF q = 0 THEN quo = F!Void ELSE Nearest(quo, IF q < 0 THEN 0 - p ELSE p, V!Abs(q))
        /\ Nearest(F!NewValueFloat(P, 2), p, Scale)

\* Floats are ordered as the numbers are, although they are compared by a difference that may be
\* rounded away or be one of the operands.
FloatOrderExact == (F!FloatLess(P, Q) <=> p < q) /\ (F!FloatEqual(P, Q) <=> p = q)

\* The floor and the ceiling of a float are exact, although they are computed in the bits of its
\* precision that are left.
FloatsToIntegers ==
    LET value(v) == IF v.rep = "int" THEN v.int ELSE F!IntegerToInt(v)
    IN  y = 0 => /\ value(F!FloatFloor(P)) = p \div Scale
                 /\ value(F!FloatCeil(P)) = 0 - ((0 - p) \div Scale)
                 /\ P.exp >= 0 => value(F!FloatInteger(P)) * Scale = p

\* A fraction becomes a float that is less than two units of its last place off: its parts are
\* rounded, and so is their quotient.
FractionsClose ==
    LET n == x \div Euclid(x, y)
        d == y \div Euclid(x, y)
        r == [rep |-> "rational", sign |-> F!Positive, num |-> F!NewNatural(n), den |-> F!NewNatural(d)]
        f == F!NewValueFloat(r, 4)
        m == Mant(f) * 2 ^ (4 - F!FpartLength(f.mant))
        e == f.exp - (4 - F!FpartLength(f.mant))
        off == IF e < 0 THEN m * d - n * 2 ^ (0 - e) ELSE m * d * 2 ^ e - n
    IN  x # 0 /\ y > 1 => Canonical(f) /\ V!Abs(off) < 2 * (IF e < 0 THEN d ELSE d * 2 ^ e)

\* Floats are rounded once, to the nearest but for a far smaller operand taken from a power of two,
\* and compared by their values.
FloatsRounded == [][FloatsNearest /\ FloatOrderExact /\ FloatsToIntegers /\ FractionsClose]_<<x, y>>
=============================================================================
