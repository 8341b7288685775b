----------------------------- MODULE LibInteger -----------------------------
(***************************************************************************)
(* uniq::BigInteger (cpp/lib/BigInteger.h): the text of bign::BigInteger   *)
(* over the older cardinals.  The constructor from a machine integer is    *)
(* the one thing it does not have.                                         *)
(***************************************************************************)
EXTENDS Integers, Sequences

CONSTANTS Bytes, CharBit, IntBits, ShiftLimit

C == INSTANCE LibCardinal
plusAbs(a, b) == C!plus(a, b)
subtractAbs(a, b) == C!subtractAbs(a, b)
timesAbs(a, b) == C!times(a, b)
divideAbs(a, b) == C!divide(a, b)
S == INSTANCE BigInteger

integer(signal, digits) == S!integer(signal, digits)
fromText(negative, s, base) == S!fromText(negative, s, base)
format(n, base) == S!format(n, base)
sign(n) == S!sign(n)
abs(n) == S!abs(n)
negate(n) == S!negate(n)
plus(a, b) == S!plus(a, b)
increment(a) == S!increment(a)
minus(a, b) == S!minus(a, b)
decrement(a) == S!decrement(a)
times(a, b) == S!times(a, b)
divide(a, b) == S!divide(a, b)
over(a, b) == S!over(a, b)
rem(a, b) == S!rem(a, b)
equal(a, b) == S!equal(a, b)
less(a, b) == S!less(a, b)
pow(base, exp) == S!pow(base, exp)
gcd(a, b) == S!gcd(a, b)
lcm(a, b) == S!lcm(a, b)
sqrt(n) == S!sqrt(n)
mod_pow(base, exp, mod) == S!mod_pow(base, exp, mod)
=============================================================================
