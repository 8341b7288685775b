------------------------------- MODULE Number -------------------------------
(***************************************************************************)
(* uniq::Number (cpp/lib/Number.h), the oldest of the three: a vector of   *)
(* digits.  The sign and the length of the text that its constructor keeps *)
(* are copied and moved with it and read by no operation, so a number is   *)
(* its digits.  It divides by doubling, and its -- does not test for 0.    *)
(***************************************************************************)
EXTENDS Integers, Sequences, SequencesExt

CONSTANTS Bytes, CharBit, IntBits, ShiftLimit

D == INSTANCE BigDigit
N == INSTANCE BigNumberNaive

(* The texts of uniq::Digit (cpp/lib/Digit.h).                             *)
parse(s, base) == D!parse(s, base)
textOf(d, base) == D!format(d, base)
isZero(a) == N!isZero(a)
isOne(a) == N!isOne(a)

fromText(s, base) == IF s = <<>> THEN N!Zero ELSE D!vector(parse(s, base))
format(a, base) == D!trimmed(FlattenSeq([i \in DOMAIN a |-> textOf(a[i], base)]))

add(a, d, i) == N!addDigit(a, d, i)
plus(a, b) == D!Returns(FoldLeftDomain(LAMBDA v, i : add(v, b[i], i), a, b))
increment(a) == D!Returns(add(a, 1, 1))

subtract(a, d, i) == N!subtractDigit(a, d, i)
minus(a, b) == IF N!compare(a, b) < 0 THEN D!Throws(a) ELSE N!subtract(a, b)
decrement(a) == subtract(a, 1, 1)

times(a, b) ==
  D!Returns(IF isZero(a) \/ isZero(b) THEN N!Zero
            ELSE IF isOne(b) THEN a ELSE N!multiply(a, b))

(* Mutant of divide: a remainder as large as the divisor is left. *)
divideEarly(a, b) ==
  LET from[q \in Seq(D!digit), r \in Seq(D!digit)] ==
        IF N!compare(r, b) <= 0 THEN [ok |-> TRUE, q |-> q, r |-> r]
        ELSE from[plus(q, <<1>>).v, minus(r, b).v]
  IN  IF isZero(b) THEN [ok |-> FALSE, q |-> N!Zero, r |-> a] ELSE from[N!Zero, a]

(* The divisor, doubled as long as it is not above the remainder, is taken *)
(* away and its multiple added to the quotient.                            *)
twice(x) == times(x, <<2>>).v
largest(b, r) ==
  LET from[t \in Seq(D!digit), m \in Seq(D!digit)] ==
        LET next(u) == IF N!compare(u, r) > 0 THEN [temp |-> t, multiple |-> m]
                       ELSE from[u, twice(m)]
        IN  next(twice(t))
  IN  from[b, <<1>>]
divide(a, b) ==
  LET from[q \in Seq(D!digit), r \in Seq(D!digit)] ==
        LET next(l, left) == IF left.ok THEN from[plus(q, l.multiple).v, left.v]
                             ELSE N!pair(FALSE, q, r)
            taken(l) == next(l, minus(r, l.temp))
        IN  IF N!compare(r, b) < 0 THEN N!pair(TRUE, q, r) ELSE taken(largest(b, r))
  IN  CASE isZero(b) -> N!pair(FALSE, N!Zero, a)
        [] ~isZero(b) /\ N!compare(a, b) < 0 -> N!pair(TRUE, N!Zero, a)
        [] OTHER -> IF isOne(b) THEN N!pair(TRUE, a, N!Zero) ELSE from[N!Zero, a]
over(a, b) == N!quotientOf(divide(a, b))
rem(a, b)  == N!remainderOf(divide(a, b))

bitAnd(a, b) == N!bitwiseAnd(a, b)
bitOr(a, b)  == N!bitwiseOr(a, b)
bitXor(a, b) == N!bitwiseXor(a, b)
bitNot(a)    == N!bitwiseNot(a)

M == INSTANCE CardinalMath
bits(a) == M!bits(a)
equal(a, b) == M!equal(a, b)
less(a, b) == M!less(a, b)
shl(a, n) == M!shl(a, n)
shr(a, n) == M!shr(a, n)
pow(base, exp) == M!pow(base, exp)
gcd(a, b) == M!gcd(a, b)
lcm(a, b) == M!lcm(a, b)
sqrt(n) == M!sqrt(n)
mod_pow(base, exp, mod) == M!mod_pow(base, exp, mod)
=============================================================================
