---------------------------- MODULE CardinalMath ----------------------------
(***************************************************************************)
(* The functions of cpp/lib/bign/BigCardinal.h that are written with the   *)
(* operators of the numbers alone: powers of two by doubling, pow, gcd,    *)
(* lcm, sqrt, mod_pow.  cpp/lib/BigCardinal.h and cpp/lib/Number.h repeat  *)
(* them word for word over their own operators, so these are parameters;   *)
(* the shifts are those of the two older versions.                         *)
(* A call returns [ok, v]: ok is FALSE when it throws.                     *)
(***************************************************************************)
EXTENDS Integers, Sequences

CONSTANTS Bytes, CharBit, IntBits,
          ShiftLimit,   \* the 1000 bits that operator <<= allows itself
          plus(_, _), minus(_, _), times(_, _), over(_, _), rem(_, _)

D == INSTANCE BigDigit
N == INSTANCE BigNumberNaive

(* The next call of an expression, unless the one before threw.            *)
Then(r, next(_)) == IF r.ok THEN next(r.v) ELSE r

bits(a) == IF a = <<>> THEN 0 ELSE D!size(a[Len(a)]) + (Len(a) - 1) * D!Bits
less(a, b) == N!compare(a, b) < 0
equal(a, b) == N!compare(a, b) = 0

Numbers == Seq(D!digit) \ {<<>>}      \* a number has a digit

(* 2 to the power n by repeated doubling, until its bits exceed the limit: *)
(* i doublings have made p, and from is what the loop makes of a state.    *)
doubling(from, n, limit, i, p, twice) ==
  IF ~less(i, n) THEN D!Returns(p)
  ELSE IF ~twice.ok \/ bits(twice.v) > limit THEN D!Throws(p)
  ELSE from[<<N!add(i, <<1>>), twice.v>>]
powerOfTwo(n, limit) ==
  LET from[s \in Numbers \X Numbers] ==
        doubling(from, n, limit, s[1], s[2], times(s[2], <<2>>))
  IN  from[<<N!Zero, <<1>>>>]
NoLimit(n) == bits(<<1>>) + (D!Base)^Len(n)     \* more bits than n doublings give

(* A shift below the width of a digit shifts bits; any other multiplies or *)
(* divides by a power of two.                                              *)
small(n) == Len(n) = 1 /\ n[1] < D!Bits
shl(a, n) ==
  IF N!isZero(n) \/ N!isZero(a) THEN D!Returns(a)
  ELSE IF bits(n) > ShiftLimit THEN D!Throws(a)
  ELSE IF small(n) THEN D!Returns(N!shiftedUp(a, 0, n[1]))
  ELSE Then(powerOfTwo(n, bits(a) + ShiftLimit), LAMBDA p : times(a, p))
shr(a, n) ==
  IF N!isZero(n) \/ N!isZero(a) THEN D!Returns(a)
  ELSE IF small(n) THEN D!Returns(N!shiftRight(a, n[1]))
  ELSE Then(powerOfTwo(n, NoLimit(n)), LAMBDA p : over(a, p))

(* Utility functions.                                                      *)
pow(base, exp) ==
  LET rec[e \in Seq(D!digit)] ==
        LET parity == rem(e, <<2>>)
            half == Then(over(e, <<2>>), LAMBDA h : rec[h])
        IN  IF N!isZero(e) THEN D!Returns(<<1>>)
            ELSE IF N!isOne(e) THEN D!Returns(base)
            ELSE IF parity.ok /\ equal(parity.v, N!Zero) THEN Then(half, LAMBDA h : times(h, h))
            ELSE Then(parity, LAMBDA p :
                 Then(minus(e, <<1>>), LAMBDA f : Then(rec[f], LAMBDA h : times(base, h))))
  IN  rec[exp]

gcd(x, y) ==
  LET rec[a \in Seq(D!digit), b \in Seq(D!digit)] ==
        IF N!isZero(b) THEN D!Returns(a) ELSE Then(rem(a, b), LAMBDA r : rec[b, r])
  IN  rec[x, y]

lcm(a, b) == Then(times(a, b), LAMBDA p : Then(gcd(a, b), LAMBDA g : over(p, g)))

(* Mutant of sqrt: a middle below the root is not kept. *)
sqrtLow(n) ==
  LET from[low \in Seq(D!digit), high \in Seq(D!digit), result \in Seq(D!digit)] ==
        LET mid == Then(plus(low, high), LAMBDA s : over(s, <<2>>))
            square == Then(mid, LAMBDA m : times(m, m))
        IN  IF less(high, low) THEN D!Returns(result)
            ELSE IF equal(square.v, n) THEN mid
            ELSE IF less(square.v, n)
                 THEN Then(plus(mid.v, <<1>>), LAMBDA l : from[l, high, low])
            ELSE Then(minus(mid.v, <<1>>), LAMBDA h : from[low, h, result])
  IN  IF N!isZero(n) THEN D!Returns(N!Zero) ELSE from[<<1>>, n, N!Zero]

(* Bisection between 1 and n.                                              *)
sqrt(n) ==
  LET from[low \in Seq(D!digit), high \in Seq(D!digit), result \in Seq(D!digit)] ==
        LET mid == Then(plus(low, high), LAMBDA s : over(s, <<2>>))
            square == Then(mid, LAMBDA m : times(m, m))
            up == Then(mid, LAMBDA m : plus(m, <<1>>))
            down == Then(mid, LAMBDA m : minus(m, <<1>>))
        IN  IF less(high, low) THEN D!Returns(result)
            ELSE IF ~square.ok THEN square
            ELSE IF equal(square.v, n) THEN mid
            ELSE IF less(square.v, n) THEN Then(up, LAMBDA l : from[l, high, mid.v])
            ELSE Then(down, LAMBDA h : from[low, h, result])
  IN  IF N!isZero(n) THEN D!Returns(N!Zero)
      ELSE IF N!isOne(n) THEN D!Returns(<<1>>) ELSE from[<<1>>, n, N!Zero]

(* Square and multiply.                                                    *)
mod_pow(base, exp, mod) ==
  LET mulmod(a, b) == Then(times(a, b), LAMBDA p : rem(p, mod))
      from[b \in Seq(D!digit), e \in Seq(D!digit), result \in Seq(D!digit)] ==
        LET parity == rem(e, <<2>>)
            next == IF parity.ok /\ equal(parity.v, <<1>>) THEN mulmod(result, b) ELSE D!Returns(result)
        IN  IF N!isZero(e) THEN D!Returns(result)
            ELSE Then(parity, LAMBDA p : Then(next, LAMBDA r : Then(over(e, <<2>>), LAMBDA f :
                 Then(mulmod(b, b), LAMBDA c : from[c, f, r]))))
  IN  CASE N!isZero(mod) -> D!Throws(mod)
        [] N!isOne(mod) -> D!Returns(N!Zero)
        [] ~N!isZero(mod) /\ ~N!isOne(mod) /\ N!isZero(exp) -> D!Returns(<<1>>)
        [] OTHER -> IF N!isOne(exp) THEN rem(base, mod)
                    ELSE Then(rem(base, mod), LAMBDA b : from[b, exp, <<1>>])
=============================================================================
