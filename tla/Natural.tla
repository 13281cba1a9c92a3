------------------------------ MODULE Natural ------------------------------
(***************************************************************************)
(* Natural numbers as natural.c and divide.c compute with them: a natural  *)
(* is the tuple of its digits in base 2^Bits, the least significant one    *)
(* first.  A digit wraps at 2^Bits; the code tells a carry from a sum that *)
(* is smaller than its first operand.  A digit that an array has beyond    *)
(* the length of its number is 0.                                          *)
(***************************************************************************)
EXTENDS Integers, Sequences, Bitwise

CONSTANTS Bits,            \* LBASE2, 32 in the code
          KaratsubaLimit   \* KARATSUBA_LIMIT, 100 in the code

BASE == 2 ^ Bits
MAXDIGIT == BASE - 1
zero_natural == <<>>
one_natural == <<1>>
two_natural == <<2>>
zerop(n) == Len(n) = 0
evenp(n) == zerop(n) \/ n[1] % 2 = 0
Smaller(a, b) == IF a < b THEN a ELSE b
Larger(a, b) == IF a < b THEN b ELSE a
Digit(n, i) == IF i <= Len(n) THEN n[i] ELSE 0
Zeros(n) == [i \in 1..n |-> 0]

\* Without the zeros at the top.
RECURSIVE DigitsTrim(_)
DigitsTrim(x) == IF zerop(x) \/ x[Len(x)] # 0 THEN x ELSE DigitsTrim(SubSeq(x, 1, Len(x) - 1))

RECURSIVE NewNatural(_)
NewNatural(v) == IF v = 0 THEN zero_natural ELSE <<v % BASE>> \o NewNatural(v \div BASE)

RECURSIVE NaturalToInt(_)
NaturalToInt(n) == IF zerop(n) THEN 0 ELSE n[1] + BASE * NaturalToInt(Tail(n))

RECURSIVE DigitsLess(_, _)
DigitsLess(a, b) == /\ ~zerop(a)
                    /\ LET k == Len(a)
                       IN  \/ a[k] < b[k]
                           \/ a[k] = b[k] /\ DigitsLess(SubSeq(a, 1, k - 1), SubSeq(b, 1, k - 1))
NaturalLess(a, b) == Len(a) < Len(b) \/ (Len(a) = Len(b) /\ DigitsLess(a, b))
NaturalEqual(a, b) == a = b

---------------------------------------------------------------------------
(* Sums and differences: one digit, then the carry from digit to digit.    *)

\* The digit and the carry of x + y; no carry is looked at when y wraps to 0.
AddDigit(x, y, carry) ==
    LET v == (y + carry) % BASE
        r == (x + v) % BASE
    IN  IF v = 0 THEN <<x, carry>> ELSE <<r, IF r < x THEN 1 ELSE 0>>
SubDigit(x, y, carry) ==
    LET v == (y + carry) % BASE
        r == (x - v) % BASE
    IN  IF v = 0 THEN <<x, carry>> ELSE <<r, IF r > x THEN 1 ELSE 0>>

\* n digits of x and y from digit k on, as <<digits, carry>>.
RECURSIVE Ripple(_, _, _, _, _, _)
Ripple(Step(_, _, _), x, y, k, n, carry) ==
    IF k > n THEN <<<<>>, carry>>
    ELSE LET s == Step(Digit(x, k), Digit(y, k), carry)
             r == Ripple(Step, x, y, k + 1, n, s[2])
         IN  <<<<s[1]>> \o r[1], r[2]>>

\* Digits off + 1, ... of x replaced by w.
Overlay(x, off, w) == SubSeq(x, 1, off) \o w \o SubSeq(x, off + Len(w) + 1, Len(x))

DigitsAdd(x, y) ==
    LET r == Ripple(AddDigit, x, y, 1, Larger(Len(x), Len(y)), 0)
    IN  DigitsTrim(IF r[2] # 0 THEN Append(r[1], r[2]) ELSE r[1])

\* y added to x from digit off on; the result keeps its zeros.
DigitsAddInPlace(x, y, off) ==
    LET top == SubSeq(x, off + 1, Len(x))
        r == Ripple(AddDigit, top, y, 1, Larger(Len(top), Len(y)), 0)
    IN  SubSeq(x, 1, off) \o (IF r[2] # 0 THEN Append(r[1], r[2]) ELSE r[1])

DigitsSubInPlace(x, y, off) ==
    LET top == SubSeq(x, off + 1, Len(x))
    IN  Overlay(x, off, Ripple(SubDigit, top, y, 1, Len(top), 0)[1])

NaturalPlus(a, b) == DigitsAdd(a, b)

\* Meant for a >= b: the length is that of a and a last borrow is dropped.
MinusDigit(x, y, carry) == LET t == x - y - carry IN IF t < 0 THEN <<t + BASE, 1>> ELSE <<t, 0>>
NaturalMinus(a, b) == DigitsTrim(Ripple(MinusDigit, a, b, 1, Len(a), 0)[1])

---------------------------------------------------------------------------
(* Products.                                                               *)

RECURSIVE TimesFrom(_, _, _, _)
TimesFrom(x, y, k, carry) ==
    IF k > Len(x) THEN IF carry # 0 THEN <<carry>> ELSE <<>>
    ELSE LET q == y * x[k] + carry IN <<q % BASE>> \o TimesFrom(x, y, k + 1, q \div BASE)
DigitTimes(x, y) == IF y = 1 THEN x ELSE TimesFrom(x, y, 1, 0)

\* The product of x and y from row k on, added up in result.
RECURSIVE Rows(_, _, _, _)
Rows(x, y, k, result) ==
    IF k > Len(x) THEN result
    ELSE Rows(x, y, k + 1, DigitsAddInPlace(result, TimesFrom(y, x[k], 1, 0), k - 1))
DigitsGradeSchool(x, y) ==
    IF zerop(x) \/ zerop(y) THEN <<>>
    ELSE IF Len(x) = 1 THEN DigitTimes(y, x[1])
    ELSE IF Len(y) = 1 THEN DigitTimes(x, y[1])
    ELSE DigitsTrim(Rows(x, y, 1, Zeros(Len(x) + Len(y) + 1)))

\* x * y is (b^2 - b) x1 y1 + b (x1 + x0) (y1 + y0) + (1 - b) x0 y0 for b = BASE ^ off.
RECURSIVE DigitsKaratsuba(_, _)
DigitsKaratsuba(x, y) ==
    IF Len(x) < KaratsubaLimit \/ Len(y) < KaratsubaLimit THEN DigitsGradeSchool(x, y)
    ELSE LET off == Larger(Len(x), Len(y)) \div 2
             Low(z) == IF Len(z) > off THEN DigitsTrim(SubSeq(z, 1, off)) ELSE z
             High(z) == IF Len(z) > off THEN DigitsTrim(SubSeq(z, off + 1, Len(z))) ELSE <<>>
             m1 == DigitsAdd(Low(x), High(x))
             m2 == DigitsAdd(Low(y), High(y))
             middle == IF zerop(m1) \/ zerop(m2) THEN <<>> ELSE Zeros(off) \o DigitsKaratsuba(m1, m2)
             \* f added at one place of r and subtracted at off
             Spread(r, a, b, at) ==
                 IF zerop(a) \/ zerop(b) THEN r
                 ELSE LET f == DigitsKaratsuba(a, b)
                      IN  DigitsSubInPlace(DigitsAddInPlace(r, f, at), f, off)
         IN  Spread(Spread(middle, High(x), High(y), 2 * off), Low(x), Low(y), 0)

NaturalTimes(a, b) ==
    IF Len(a) >= KaratsubaLimit /\ Len(b) >= KaratsubaLimit THEN DigitsTrim(DigitsKaratsuba(a, b))
    ELSE IF zerop(a) \/ zerop(b) THEN zero_natural
    ELSE IF a = one_natural THEN b
    ELSE IF b = one_natural THEN a
    ELSE DigitsGradeSchool(a, b)

---------------------------------------------------------------------------
(* Bits.                                                                   *)

NaturalLand(a, b) == DigitsTrim([i \in 1..Smaller(Len(a), Len(b)) |-> a[i] & b[i]])
NaturalLor(a, b) == [i \in 1..Larger(Len(a), Len(b)) |-> Digit(a, i) | Digit(b, i)]

\* Of len digits, more when a has more; zeros at the top above len go away.
RECURSIVE NaturalCompliment(_, _)
NaturalCompliment(a, len) ==
    IF Len(a) > len /\ a[Len(a)] = MAXDIGIT THEN NaturalCompliment(SubSeq(a, 1, Len(a) - 1), len)
    ELSE IF zerop(a) THEN zero_natural
    ELSE [i \in 1..Larger(Len(a), len) |-> MAXDIGIT - Digit(a, i)]
NaturalNegate(n, len) == NaturalPlus(NaturalCompliment(n, len), one_natural)

\* digit i of v shifted by less than a digit
ShiftedDown(v, shift, i) == Digit(v, i) \div 2 ^ shift + ((Digit(v, i + 1) * 2 ^ (Bits - shift)) % BASE)
NaturalRsl(v, shift) ==
    LET dshift == shift \div Bits
        s == shift % Bits
        n == Len(v) - dshift - (IF v[Len(v)] \div 2 ^ s = 0 THEN 1 ELSE 0)
    IN  IF zerop(v) \/ n <= 0 THEN zero_natural
        ELSE [i \in 1..n |-> IF s = 0 THEN v[i + dshift] ELSE ShiftedDown(v, s, i + dshift)]

NaturalLsl(v, shift) ==
    LET dshift == shift \div Bits
        s == shift % Bits
        n == Len(v) + (IF s # 0 /\ v[Len(v)] \div 2 ^ (Bits - s) # 0 THEN 1 ELSE 0)
        \* the digit that comes up from below digit i
        Up(i) == IF i = 1 THEN 0 ELSE v[i - 1] \div 2 ^ (Bits - s)
    IN  IF zerop(v) THEN zero_natural
        ELSE Zeros(dshift)
             \o [i \in 1..n |-> IF s = 0 THEN v[i] ELSE ((Digit(v, i) * 2 ^ s) % BASE) + Up(i)]

\* The low bits of v: the mask is for the last digit only while no digit has been dropped.
NaturalMask(v, bits) ==
    LET len == (bits + Bits) \div Bits
        mask == 2 ^ (bits % Bits) - 1
        low == IF len > Len(v) THEN v ELSE Append(SubSeq(v, 1, len - 1), v[len] & mask)
    IN  DigitsTrim(low)

\* The exponent of a power of two, otherwise -1.
NaturalPowerOfTwo(v) ==
    IF zerop(v) \/ (\E i \in 1..(Len(v) - 1) : v[i] # 0) \/ v[Len(v)] & (v[Len(v)] - 1) # 0 THEN -1
    ELSE (Len(v) - 1) * Bits + CHOOSE bit \in 0..(Bits - 1) : v[Len(v)] = 2 ^ bit

---------------------------------------------------------------------------
(* Division: estimate each digit from two digits of the divisor, subtract  *)
(* the partial product and add the divisor back when that was too much.    *)

\* A number in an array: n of its digits count.
Sized(digits, n) == [digits |-> digits, n |-> n]
SizedTrim(digits, n) == Sized(digits, Len(DigitsTrim(SubSeq(digits, 1, n))))
Number(r) == SubSeq(r.digits, 1, r.n)

\* As <<a, carry>>: a borrow is taken from the next digit of a, or returned when a has no more.
NaturalSubtractOffset(a, b, offset) ==
    LET n == Smaller(a.n - offset, Len(b))
        s == Ripple(SubDigit, SubSeq(a.digits, offset + 1, a.n), b, 1, n, 0)
        d == Overlay(a.digits, offset, s[1])
    IN  IF s[2] # 0 /\ a.n > Len(b) + offset
        THEN <<SizedTrim(Overlay(d, offset + n, <<(d[offset + n + 1] - s[2]) % BASE>>), a.n), 0>>
        ELSE <<SizedTrim(d, a.n), s[2]>>

\* A carry goes into the next digit of the array; zeros go only when that is the top one.
NaturalAddOffset(a, b, offset) ==
    LET s == Ripple(AddDigit, SubSeq(a.digits, offset + 1, Len(a.digits)), b, 1, Len(b), 0)
        at == offset + Len(b) + 1
        d == Overlay(a.digits, offset, Append(s[1], (Digit(a.digits, at) + s[2]) % BASE))
    IN  IF at = a.n THEN SizedTrim(d, a.n) ELSE Sized(d, a.n)

normalize(d) == CHOOSE n \in 0..(Bits - 1) : 2 ^ (Bits - 1) <= d * 2 ^ n /\ d * 2 ^ n < BASE

\* The top Bits bits of hi:lo shifted left by normal, and those of a double digit hi.
Scaled(hi, lo, normal) == ((hi * 2 ^ normal) % BASE) + (IF normal = 0 THEN 0 ELSE lo \div 2 ^ (Bits - normal))
ScaledDouble(hi, lo, normal) == hi * 2 ^ normal + (IF normal = 0 THEN 0 ELSE lo \div 2 ^ (Bits - normal))

\* The estimate is lowered as long as the second digit of the divisor shows it to be too high.
RECURSIVE Correct(_, _, _, _, _)
Correct(d, temp, divisorc, divisorc2, temp2) ==
    IF temp < BASE /\ divisorc2 * d > temp * BASE + temp2
    THEN Correct(d - 1, temp + divisorc, divisorc, divisorc2, temp2) ELSE d

Estimate(rem, b, index) ==
    LET Top(k) == IF index >= k THEN Digit(rem.digits, index - k + 1) ELSE 0
        divisor(k) == IF Len(b) >= k THEN b[Len(b) - k + 1] ELSE 0
        normal == normalize(divisor(1))
        divisorc == Scaled(divisor(1), divisor(2), normal)
        divisorc2 == Scaled(divisor(2), divisor(3), normal)
        temp == ScaledDouble(Top(0) * BASE + Top(1), Top(2), normal)
        d == IF (temp \div BASE) % BASE = divisorc THEN MAXDIGIT ELSE temp \div divisorc
    IN  IF d = 0 THEN 0
        ELSE Correct(d, temp - d * divisorc, divisorc, divisorc2, Scaled(Top(2), Top(3), normal))

\* A digit that turns out too high is kept.
DivideDigit_NoAddBack(rem, b, index) ==
    LET d == Estimate(rem, b, index)
    IN  <<d, IF d = 0 THEN rem ELSE NaturalSubtractOffset(rem, DigitTimes(b, d), index - Len(b))[1]>>
\* One digit of the quotient, as <<digit, remainder>>.
DivideDigit(rem, b, index) ==
    LET d == Estimate(rem, b, index)
        s == NaturalSubtractOffset(rem, DigitTimes(b, d), index - Len(b))
    IN  CASE d = 0     -> <<0, rem>>
          [] s[2] = 0  -> <<d, s[1]>>
          [] OTHER     -> <<d - 1, NaturalAddOffset(s[1], b, index - Len(b))>>

RECURSIVE DivideFrom(_, _, _, _)
DivideFrom(rem, b, index, quo) ==
    IF index < Len(b) \/ rem.n = 0 THEN [quo |-> DigitsTrim(Zeros(index - Len(b) + 1) \o quo), rem |-> Number(rem)]
    ELSE LET s == DivideDigit(rem, b, index) IN DivideFrom(s[2], b, index - 1, <<s[1]>> \o quo)

NaturalDivide(a, b) ==
    LET offset == NaturalPowerOfTwo(b)
    IN  IF NaturalLess(a, b) THEN [quo |-> zero_natural, rem |-> a]
        ELSE IF b = one_natural THEN [quo |-> a, rem |-> zero_natural]
        ELSE IF offset >= 0 THEN [quo |-> NaturalRsl(a, offset), rem |-> NaturalMask(a, offset)]
        ELSE DivideFrom(Sized(Append(a, 0), Len(a)), b, Len(a), <<>>)

---------------------------------------------------------------------------
(* Roots, factors and powers.                                              *)

\* For n below 4 the difference h - l wraps and the loop still ends.
RECURSIVE Bisect(_, _, _)
Bisect(n, l, h) ==
    IF ~NaturalLess(one_natural, NaturalMinus(h, l)) THEN h
    ELSE LET m == NaturalDivide(NaturalPlus(l, h), two_natural).quo
         IN  IF NaturalLess(NaturalTimes(m, m), n) THEN Bisect(n, m, h) ELSE Bisect(n, l, m)
NaturalSqrt(n) == Bisect(n, two_natural, NaturalDivide(n, two_natural).quo)

none == <<-1>>
\* The smallest odd divisor from v to lim, n if there is none, none beyond max (<<>> is no limit).
RECURSIVE FactorFrom(_, _, _, _)
FactorFrom(n, v, lim, max) ==
    IF NaturalLess(lim, v) THEN n
    ELSE IF zerop(NaturalDivide(n, v).rem) THEN v
    ELSE IF ~zerop(max) /\ NaturalLess(max, v) THEN none
    ELSE FactorFrom(n, NaturalPlus(v, two_natural), lim, max)
NaturalFactor(n, max) ==
    IF zerop(n) THEN zero_natural
    ELSE IF n[1] % 2 = 0 THEN two_natural
    ELSE FactorFrom(n, NewNatural(3), NaturalSqrt(n), max)

RECURSIVE PowFrom(_, _, _)
PowFrom(n, p, result) ==
    IF zerop(p) THEN result
    ELSE LET r == IF evenp(p) THEN result ELSE NaturalTimes(result, n)
             q == NaturalRsl(p, 1)
         IN  PowFrom(IF zerop(q) THEN n ELSE NaturalTimes(n, n), q, r)
NaturalPow(n, p) == PowFrom(n, p, one_natural)

RECURSIVE IntPowFrom(_, _, _)
IntPowFrom(n, p, result) ==
    IF p = 0 THEN result
    ELSE LET r == IF p % 2 = 0 THEN result ELSE NaturalTimes(result, n)
         IN  IntPowFrom(IF p = 1 THEN n ELSE NaturalTimes(n, n), p \div 2, r)
NaturalIntPow(n, p) == IntPowFrom(n, p, one_natural)

RECURSIVE PowModFrom(_, _, _, _)
PowModFrom(n, p, m, result) ==
    IF zerop(p) THEN result
    ELSE LET r == IF evenp(p) THEN result ELSE NaturalDivide(NaturalTimes(result, n), m).rem
             q == NaturalDivide(p, two_natural).quo
         IN  PowModFrom(IF zerop(q) THEN n ELSE NaturalDivide(NaturalTimes(n, n), m).rem, q, m, r)
NaturalPowMod(n, p, m) == PowModFrom(n, p, m, one_natural)

---------------------------------------------------------------------------
(* Printing: the digits in a base, the most significant first.  Naturals   *)
(* are split by base ^ digits, squared until it exceeds them.              *)

RECURSIVE Reversed(_, _)
Reversed(partial, base) == IF partial = 0 THEN <<>> ELSE Append(Reversed(partial \div base, base), partial % base)

\* One digit in the base, at least one character, filled with zeros to digits characters.
NaturalBottom(partial, base, digits, fill) ==
    LET s == IF partial = 0 THEN <<0>> ELSE Reversed(partial, base)
    IN  IF fill THEN Zeros(Larger(0, digits - Len(s))) \o s ELSE s

RECURSIVE NaturalSplit(_, _, _, _, _)
NaturalSplit(a, divisors, base, digits, fill) ==
    IF zerop(a) THEN IF fill THEN Zeros(digits) ELSE <<>>
    ELSE IF divisors = <<>> THEN NaturalBottom(a[1], base, digits, fill)
    ELSE LET n == Len(divisors)
             s == NaturalDivide(a, divisors[n])
             rest == SubSeq(divisors, 1, n - 1)
             rfill == ~zerop(s.quo) \/ fill
         IN  (IF rfill THEN NaturalSplit(s.quo, rest, base, digits \div 2, fill) ELSE <<>>)
             \o NaturalSplit(s.rem, rest, base, digits \div 2, rfill)

\* How many characters of the base a digit holds.
RECURSIVE BaseDigits(_, _)
BaseDigits(base, power) == IF power * base > BASE THEN 0 ELSE 1 + BaseDigits(base, power * base)

\* divisor and its squares below a, as <<divisors, characters>>.
RECURSIVE Divisors(_, _, _)
Divisors(a, divisor, digits) ==
    LET square == NaturalTimes(divisor, divisor)
        more == Divisors(a, square, 2 * digits)
    IN  IF NaturalLess(square, a) THEN <<<<divisor>> \o more[1], more[2]>> ELSE <<<<divisor>>, 2 * digits>>

RECURSIVE Bottoms(_, _, _)
Bottoms(a, base, digits) ==
    IF Len(a) = 1 THEN NaturalBottom(a[1], base, digits, FALSE)
    ELSE Bottoms(Tail(a), base, digits) \o NaturalBottom(a[1], base, digits, TRUE)

NaturalSprint(a, base) ==
    LET digits == BaseDigits(base, 1)
        divisors == Divisors(a, NewNatural(base ^ digits), digits)
    IN  IF zerop(a) THEN <<0>>
        ELSE IF base ^ digits = BASE THEN Bottoms(a, base, digits)
        ELSE NaturalSplit(a, divisors[1], base, divisors[2], FALSE)
=============================================================================
