---------------------------- MODULE LibCardinal -----------------------------
(***************************************************************************)
(* uniq::BigCardinal (cpp/lib/BigCardinal.h), the version before bign: one *)
(* class over a vector of digits.  Its loops are the ones that bign later  *)
(* moved to BigNumberNaive, but the vector is normalised in fewer places:  *)
(* not after a sum, a decrement or a left shift.                           *)
(***************************************************************************)
EXTENDS Integers, Sequences, SequencesExt

CONSTANTS Bytes, CharBit, IntBits, ShiftLimit

D == INSTANCE BigDigit
N == INSTANCE BigNumberNaive

add(a, d, i) == N!addDigit(a, d, i)
subtractAbs(a, b) == N!subtract(a, b)
subtractAbsDigit(a, d, i) == N!subtractDigit(a, d, i)

(* The texts of uniq::BigDigit (cpp/lib/BigDigit.h).                       *)
parse(s, base) == D!parse(s, base)
textOf(d, base) == D!format(d, base)
isZero(a) == N!isZero(a)
isOne(a) == N!isOne(a)

fromText(s, base) == IF s = <<>> THEN N!Zero ELSE D!vector(parse(s, base))
format(a, base) ==
  IF isZero(a) THEN <<0>>
  ELSE D!trimmed(FlattenSeq([i \in DOMAIN a |-> textOf(a[i], base)]))

sum(a, b) == FoldLeftDomain(LAMBDA v, i : add(v, b[i], i), a, b)
plus(a, b) ==
  D!Returns(IF isZero(b) THEN a ELSE IF isZero(a) THEN b ELSE sum(a, b))
increment(a) == D!Returns(add(a, 1, 1))
minus(a, b) ==
  IF isZero(b) THEN D!Returns(a)
  ELSE IF N!compare(a, b) < 0 THEN D!Throws(a) ELSE subtractAbs(a, b)
decrement(a) == IF isZero(a) THEN D!Throws(a) ELSE subtractAbsDigit(a, 1, 1)
times(a, b) ==
  D!Returns(IF isZero(a) \/ isZero(b) THEN N!Zero
            ELSE IF isOne(b) THEN a ELSE N!multiply(a, b))

divide(a, b) == N!divide(a, b, [q |-> N!Zero, r |-> N!Zero])
over(a, b) == N!quotientOf(divide(a, b))
rem(a, b)  == N!remainderOf(divide(a, b))

bitAnd(a, b) == N!bitwiseAnd(a, b)
bitOr(a, b)  == N!bitwiseOr(a, b)
bitXor(a, b) == N!bitwiseXor(a, b)
bitNot(a)    == N!bitwiseNot(a)

M == INSTANCE CardinalMath
bits(a) == M!bits(a)
equal(a, b) == M!equal(a, b)
less(a, b) == M!less(a, b)
shl(a, n) == M!shl(a, n)
shr(a, n) == M!shr(a, n)
pow(base, exp) == M!pow(base, exp)
gcd(a, b) == M!gcd(a, b)
lcm(a, b) == M!lcm(a, b)
sqrt(n) == M!sqrt(n)
mod_pow(base, exp, mod) == M!mod_pow(base, exp, mod)
=============================================================================
