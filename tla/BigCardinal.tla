---------------------------- MODULE BigCardinal -----------------------------
(***************************************************************************)
(* bign::BigCardinal (cpp/lib/bign/BigCardinal.h): unsigned numbers, the   *)
(* operators of the language over BigNumberCore.  An assigning operator    *)
(* takes and returns objects; a binary one works on a fresh copy, so it is *)
(* given by the digits of its operands and of its result.                  *)
(***************************************************************************)
EXTENDS Integers, Sequences, SequencesExt

CONSTANTS Bytes, CharBit, IntBits, Threshold,
          ShiftLimit    \* the 1000 bits that operator <<= allows itself

D == INSTANCE BigDigit
N == INSTANCE BigNumberNaive
C == INSTANCE BigNumberCore

(* Constructors: from a digit, from digits (a copy), from a text.  The     *)
(* chunks of a text become digits in the order they are read.              *)
cardinal(a) == [digits |-> a, active |-> "auto", impl |-> C!createBest]
fromText(s, base) == IF s = <<>> THEN N!Zero ELSE D!vector(D!parse(s, base))

(* The digits of the number one after the other, as written to a stream.   *)
format(a, base) ==
  IF N!isZero(a) THEN <<0>>
  ELSE D!trimmed(FlattenSeq([i \in DOMAIN a |-> D!format(a[i], base)]))

(* Arithmetic.                                                             *)
plusAssign(o, n, same) ==
  IF C!isZero(n) THEN D!Returns(o)
  ELSE IF C!isZero(o) THEN D!Returns(C!copyOf(n)) ELSE C!add(o, n, same)
increment(o) == C!add(o, cardinal(<<1>>), FALSE)
(* Mutant of minusAssign: equal numbers are refused too. *)
minusAssignStrict(o, n) ==
  IF C!isZero(n) THEN D!Returns(o)
  ELSE IF C!compare(o, n) <= 0 THEN D!Throws(o) ELSE C!subtract(o, n)
minusAssign(o, n) ==
  IF C!isZero(n) THEN D!Returns(o)
  ELSE IF C!compare(o, n) < 0 THEN D!Throws(o) ELSE C!subtract(o, n)
decrement(o) == IF C!isZero(o) THEN D!Throws(o) ELSE C!subtract(o, cardinal(<<1>>))
timesAssign(o, n) ==
  IF C!isZero(n) \/ C!isZero(o) THEN D!Returns(cardinal(N!Zero))
  ELSE IF C!isOne(n) THEN D!Returns(o) ELSE C!multiply(o, n)

Digits(r) == [ok |-> r.ok, v |-> r.v.digits]
plus(a, b)  == Digits(plusAssign(cardinal(a), cardinal(b), FALSE))
minus(a, b) == Digits(minusAssign(cardinal(a), cardinal(b)))
times(a, b) == Digits(timesAssign(cardinal(a), cardinal(b)))

(* divide works on copies: quotient and remainder are fresh objects.       *)
divide(a, b) ==
  LET written(d) == N!pair(d.ok, d.q.digits, d.r.digits)
  IN  written(C!divide(cardinal(a), cardinal(b), cardinal(N!Zero), cardinal(N!Zero)))
over(a, b) == N!quotientOf(divide(a, b))
rem(a, b)  == N!remainderOf(divide(a, b))
(* Mutant of overAssign: the division writes the object itself. *)
overAssignInPlace(o, n) ==
  LET written(d) == [ok |-> d.ok, v |-> cardinal(d.v)] IN written(over(o.digits, n.digits))

(* /= and %=: a new object is moved in, or the throw leaves the old one.   *)
movedIn(o, d) == IF d.ok THEN D!Returns(cardinal(d.v)) ELSE D!Throws(o)
overAssign(o, n) == movedIn(o, over(o.digits, n.digits))
remAssign(o, n)  == movedIn(o, rem(o.digits, n.digits))

(* The functions that these operators are enough for.                      *)
M == INSTANCE CardinalMath
bits(a) == IF a = <<>> THEN 0 ELSE D!size(a[Len(a)]) + (Len(a) - 1) * D!Bits
less(a, b) == N!compare(a, b) < 0
equal(a, b) == N!compare(a, b) = 0
pow(base, exp) == M!pow(base, exp)
gcd(a, b) == M!gcd(a, b)
lcm(a, b) == M!lcm(a, b)
sqrt(n) == M!sqrt(n)
mod_pow(base, exp, mod) == M!mod_pow(base, exp, mod)

(* A shift below the width of a digit shifts bits; any other multiplies or *)
(* divides a copy by a power of two, which is then moved in.               *)
small(n) == Len(n) = 1 /\ n[1] < D!Bits
shlAssign(o, n) ==
  LET assigned(product) == IF product.ok THEN D!Returns(C!copyOf(product.v)) ELSE D!Throws(o)
      times2(power) == IF power.ok THEN assigned(timesAssign(C!copyOf(o), cardinal(power.v)))
                       ELSE D!Throws(o)
  IN  IF N!isZero(n) \/ C!isZero(o) THEN D!Returns(o)
      ELSE IF bits(n) > ShiftLimit THEN D!Throws(o)
      ELSE IF small(n) THEN C!shiftLeft(o, n[1])
      ELSE times2(M!powerOfTwo(n, bits(o.digits) + ShiftLimit))
shrAssign(o, n) ==
  LET over2(power) == IF power.ok THEN overAssign(o, cardinal(power.v)) ELSE D!Throws(o)
  IN  IF N!isZero(n) \/ C!isZero(o) THEN D!Returns(o)
      ELSE IF small(n) THEN C!shiftRight(o, n[1])
      ELSE over2(M!powerOfTwo(n, M!NoLimit(n)))
shl(a, n) == Digits(shlAssign(cardinal(a), n))
shr(a, n) == Digits(shrAssign(cardinal(a), n))

(* Bitwise operations; ~ returns a changed copy.                           *)
andAssign(o, n) == C!bitwiseAnd(o, n)
orAssign(o, n)  == C!bitwiseOr(o, n)
xorAssign(o, n) == C!bitwiseXor(o, n)
complement(o)   == C!bitwiseNot(C!copyOf(o))
=============================================================================
