----------------------------- MODULE BigNumber ------------------------------
(***************************************************************************)
(* bign::BigNumber (cpp/lib/bign/BigNumber.h): a variant that holds a      *)
(* cardinal, an integer or a decimal and promotes the operands of a call   *)
(* to a common type.                                                       *)
(***************************************************************************)
EXTENDS Integers, Sequences

CONSTANTS Bytes, CharBit, IntBits, Threshold, ShiftLimit, Radix, Half, ExtraPlaces

D == INSTANCE BigDigit
N == INSTANCE BigNumberNaive
B == INSTANCE BigCardinal
plusAbs(a, b) == B!plus(a, b)
subtractAbs(a, b) == N!subtract(a, b)
timesAbs(a, b) == B!times(a, b)
divideAbs(a, b) == B!divide(a, b)
S == INSTANCE BigSigned
I == INSTANCE BigInteger
F == INSTANCE BigDecimal

Then(r, next(_)) == IF r.ok THEN next(r.v) ELSE r
Number(type, v) == [type |-> type, v |-> v]
As(type, r) == [ok |-> r.ok, v |-> Number(type, r.v)]
card(a) == Number("cardinal", a)
isCardinal(n) == n.type = "cardinal"
isInteger(n) == n.type = "integer"
isDecimal(n) == n.type = "decimal"
Any(is(_), a, b) == is(a) \/ is(b)

(* Constructors: a 64-bit integer keeps its sign, an int is converted to a *)
(* digit; a text is decimal with a point, an integer with a sign.          *)
fromI64(n) ==
  IF n < 0 THEN Number("integer", S!integer(-1, <<(-n) % D!Base>>)) ELSE card(<<n % D!Base>>)
fromInt(n) == card(<<n % D!Base>>)
fromText(t, base) ==
  IF t.dot THEN As("decimal", F!fromText(t))
  ELSE IF t.negative \/ t.int = <<>>
       THEN D!Returns(Number("integer", S!fromText(t.negative, t.int, base)))
  ELSE D!Returns(card(B!fromText(t.int, base)))

(* Conversions.  A decimal as an integer loses its point; a negative       *)
(* number or a decimal as a cardinal throws.                               *)
asCardinal(n) ==
  CASE isCardinal(n) -> D!Returns(n.v)
    [] isInteger(n) -> IF S!isNegative(n.v) THEN D!Throws(n.v.digits) ELSE D!Returns(n.v.digits)
    [] isDecimal(n) -> D!Throws(n.v.int.digits)
asInteger(n) ==
  CASE isCardinal(n) -> S!integer(1, n.v)
    [] isInteger(n) -> n.v
    [] isDecimal(n) -> n.v.int
asDecimal(n) == IF isDecimal(n) THEN n.v ELSE S!decimal(asInteger(n), 0)

(* The three ways a call of two operands can go.                           *)
Decimals(op(_, _), a, b) == op(asDecimal(a), asDecimal(b))
Integers2(op(_, _), a, b) == op(asInteger(a), asInteger(b))
Cardinals(op(_, _), a, b) ==
  Then(asCardinal(a), LAMBDA x : Then(asCardinal(b), LAMBDA y : op(x, y)))
promoted(fd(_, _), fi(_, _), fc(_, _), a, b) ==
  IF Any(isDecimal, a, b) THEN As("decimal", Decimals(fd, a, b))
  ELSE IF Any(isInteger, a, b) THEN As("integer", Integers2(fi, a, b))
  ELSE As("cardinal", Cardinals(fc, a, b))

plus(a, b)  == promoted(F!plus, I!plus, B!plus, a, b)
times(a, b) == promoted(F!times, I!times, B!times, a, b)
over(a, b)  == promoted(F!over, I!over, B!over, a, b)
(* A difference of cardinals below zero becomes an integer.                *)
minus(a, b) ==
  IF isCardinal(a) /\ isCardinal(b) /\ B!less(a.v, b.v)
  THEN As("integer", Integers2(I!minus, a, b))
  ELSE promoted(F!minus, I!minus, B!minus, a, b)
(* A remainder of decimals is taken of their integers.                     *)
rem(a, b) ==
  IF isCardinal(a) /\ isCardinal(b) THEN As("cardinal", Cardinals(B!rem, a, b))
  ELSE As("integer", Integers2(I!rem, a, b))

One == S!Int1
increment(n) ==
  CASE isDecimal(n) -> As("decimal", F!plus(n.v, S!decimal(One, 0)))
    [] isInteger(n) -> As("integer", I!plus(n.v, One))
    [] isCardinal(n) -> D!Returns(card(N!add(n.v, <<1>>)))
decrement(n) ==
  IF isDecimal(n) THEN As("decimal", F!minus(n.v, S!decimal(One, 0)))
  ELSE As("integer", I!minus(asInteger(n), One))

(* Shifts and bitwise operations are those of BigCardinal for integers too *)
(* (they return cardinals), and throw for a decimal without an integer.    *)
unsigned(op(_, _), a, b) ==
  LET magnitudes(x, y) == op(x.digits, y.digits)
  IN  IF Any(isInteger, a, b) THEN As("cardinal", Integers2(magnitudes, a, b))
      ELSE As("cardinal", Cardinals(op, a, b))
shl(a, b) == unsigned(B!shl, a, b)
shr(a, b) == unsigned(B!shr, a, b)
bitAnd(a, b) == unsigned(LAMBDA x, y : D!Returns(N!bitwiseAnd(x, y)), a, b)
bitOr(a, b)  == unsigned(LAMBDA x, y : D!Returns(N!bitwiseOr(x, y)), a, b)
bitXor(a, b) == unsigned(LAMBDA x, y : D!Returns(N!bitwiseXor(x, y)), a, b)
bitNot(a) ==
  IF isInteger(a) THEN D!Returns(card(N!bitwiseNot(a.v.digits)))
  ELSE Then(asCardinal(a), LAMBDA x : D!Returns(card(N!bitwiseNot(x))))
(* >>= by an int shifts in place and keeps the type.                       *)
shrInPlace(a, bits) ==
  CASE isInteger(a) -> D!Returns([a EXCEPT !.v.digits = N!shiftRight(@, bits)])
    [] isCardinal(a) -> D!Returns([a EXCEPT !.v = N!shiftRight(@, bits)])
    [] isDecimal(a) -> D!Throws(a)

isZero(n) == IF isCardinal(n) THEN N!isZero(n.v) ELSE S!isZero(asInteger(n))
isOne(n) ==
  IF isDecimal(n) THEN F!equal(n.v, S!decimal(One, 0))
  ELSE D!Returns(N!isOne(asInteger(n).digits))
equal(a, b) ==
  IF isZero(a) /\ isZero(b) THEN D!Returns(TRUE)
  ELSE IF Any(isDecimal, a, b) THEN Decimals(F!equal, a, b)
  ELSE D!Returns(Integers2(S!equal, a, b))
less(a, b) ==
  IF Any(isDecimal, a, b) THEN Decimals(F!less, a, b)
  ELSE D!Returns(Integers2(S!less, a, b))
more(a, b) == less(b, a)

format(n, base) ==
  LET text(t) == [negative |-> t.negative, int |-> t.text, dot |-> FALSE, frac |-> <<>>]
  IN  CASE isDecimal(n) -> F!format(n.v, -1)
        [] isInteger(n) -> D!Returns(text(S!format(n.v, base)))
        [] isCardinal(n) -> D!Returns(text(S!format(S!integer(1, n.v), base)))
size(n) == Len(asInteger(n).digits)
bits(n) == B!bits(asInteger(n).digits)

negate(n) ==
  IF isDecimal(n) THEN As("decimal", F!Make(S!negate(n.v.int), n.v.places))
  ELSE D!Returns(Number("integer", S!negate(asInteger(n))))
(* Mutant of abs: a decimal is returned as it is. *)
absWhole(n) ==
  IF isInteger(n) THEN D!Returns(Number("integer", S!abs(n.v))) ELSE D!Returns(n)
abs(n) ==
  CASE isDecimal(n) /\ S!isNegative(n.v.int) ->
         As("decimal", F!Make(S!abs(n.v.int), n.v.places))
    [] isInteger(n) -> D!Returns(Number("integer", S!abs(n.v)))
    [] OTHER -> D!Returns(n)
sign(n) == S!sign(asInteger(n))
isPositive(n) == S!isPositive(asInteger(n))
isNegative(n) == S!isNegative(asInteger(n))

(* Utility functions: integers if an operand is one, else cardinals.       *)
utility(fi(_, _), fc(_, _), a, b) ==
  IF Any(isInteger, a, b) THEN As("integer", Integers2(fi, a, b))
  ELSE As("cardinal", Cardinals(fc, a, b))
pow(base, exp) == utility(I!pow, B!pow, base, exp)
gcd(a, b) == utility(I!gcd, B!gcd, a, b)
lcm(a, b) == utility(I!lcm, B!lcm, a, b)
sqrt(n) ==
  IF isInteger(n) THEN As("integer", I!sqrt(n.v))
  ELSE As("cardinal", Then(asCardinal(n), LAMBDA x : B!sqrt(x)))
mod_pow(base, exp, mod) ==
  IF isInteger(base) \/ isInteger(exp) \/ isInteger(mod)
  THEN As("integer", I!mod_pow(asInteger(base), asInteger(exp), asInteger(mod)))
  ELSE As("cardinal", Then(asCardinal(base), LAMBDA x : Then(asCardinal(exp), LAMBDA e :
                      Then(asCardinal(mod), LAMBDA m : B!mod_pow(x, e, m)))))
=============================================================================
