----------------------------- MODULE BigInteger -----------------------------
(***************************************************************************)
(* bign::BigInteger (cpp/lib/bign/BigInteger.h): a sign and a BigCardinal. *)
(* The binary operators and the functions, each by the value it returns;   *)
(* the temporaries they work on are fresh, so their implementation is the  *)
(* automatic one.                                                          *)
(***************************************************************************)
EXTENDS BigSigned

CONSTANTS plusAbs(_, _),      \* +, subtractAbs, * and divide of BigCardinal
          subtractAbs(_, _),
          timesAbs(_, _),
          divideAbs(_, _)     \* [ok, q, r]

(* A cardinal result under a sign.                                         *)
Signed(signal, r) == [ok |-> r.ok, v |-> integer(signal, r.v)]
(* Mutant of difference: the sign of the left operand, whichever is larger. *)
differenceLeft(a, b, signal) ==
  Signed(signal, IF lessAbs(a.digits, b.digits) THEN subtractAbs(b.digits, a.digits)
                 ELSE subtractAbs(a.digits, b.digits))

(* The difference of the absolute values, with the sign of the larger one; *)
(* a difference of 0 is positive.                                          *)
difference(a, b, signal) ==
  LET under(s, d) == Signed(IF d.ok /\ N!isZero(d.v) THEN 1 ELSE s, d)
  IN  IF lessAbs(a.digits, b.digits) THEN under(-signal, subtractAbs(b.digits, a.digits))
      ELSE under(signal, subtractAbs(a.digits, b.digits))

plus(a, b) ==
  IF isZero(b) THEN D!Returns(a)
  ELSE IF isZero(a) THEN D!Returns(b)
  ELSE IF a.signal = b.signal THEN Signed(a.signal, plusAbs(a.digits, b.digits))
  ELSE difference(a, b, a.signal)

minus(a, b) ==
  IF isZero(b) THEN D!Returns(a)
  ELSE IF isZero(a) THEN D!Returns(negate(b))
  ELSE IF a.signal # b.signal THEN Signed(a.signal, plusAbs(a.digits, b.digits))
  ELSE difference(a, b, a.signal)

increment(a) == plus(a, Int1)
decrement(a) == minus(a, Int1)

(* isOne looks at the digits only, so it also returns the left operand of  *)
(* a product by -1, before the case for -1 is reached.                     *)
times(a, b) ==
  IF isZero(b) \/ isZero(a) THEN D!Returns(Int0)
  ELSE IF isOne(b) THEN D!Returns(a)
  ELSE IF equal(b, integer(-1, <<1>>)) THEN D!Returns([a EXCEPT !.signal = -a.signal])
  ELSE Signed(a.signal * b.signal, timesAbs(a.digits, b.digits))

(* Mutant of divide: the remainder has the sign of the quotient. *)
divideSigned(a, b) ==
  LET under(s, d) == N!pair(d.ok, integer(s, d.q), integer(s, d.r))
  IN  IF isZero(b) THEN N!pair(FALSE, Int0, Int0)
      ELSE IF lessAbs(a.digits, b.digits) THEN N!pair(TRUE, Int0, a)
      ELSE under(a.signal * b.signal, divideAbs(a.digits, b.digits))

(* Division towards zero; the remainder has the sign of the dividend.      *)
divide(a, b) ==
  LET under(d) == N!pair(d.ok, integer(a.signal * b.signal, d.q),
                         integer(IF N!isZero(d.r) THEN 1 ELSE a.signal, d.r))
  IN  CASE isZero(b) -> N!pair(FALSE, Int0, Int0)
        [] ~isZero(b) /\ isZero(a) -> N!pair(TRUE, Int0, Int0)
        [] OTHER ->
             IF equal(abs(b), Int1) THEN N!pair(TRUE, integer(a.signal * b.signal, a.digits), Int0)
             ELSE IF lessAbs(a.digits, b.digits) THEN N!pair(TRUE, Int0, a)
             ELSE under(divideAbs(a.digits, b.digits))
over(a, b) == N!quotientOf(divide(a, b))
rem(a, b)  == N!remainderOf(divide(a, b))

(* Utility functions.  A negative exponent counts by its absolute value.   *)
pow(base, exp) ==
  LET rec[e \in Seq(D!digit)] ==
        LET even == Then(over(integer(1, e), integer(1, <<2>>)), LAMBDA f :
                    Then(rec[f.digits], LAMBDA h : times(h, h)))
            odd == Then(minus(integer(1, e), Int1), LAMBDA f :
                   Then(rec[f.digits], LAMBDA h : times(base, h)))
        IN  IF N!isZero(e) THEN D!Returns(Int1)
            ELSE IF N!isOne(e) THEN D!Returns(base)
            ELSE Then(rem(integer(1, e), integer(1, <<2>>)), LAMBDA parity :
                      IF isZero(parity) THEN even ELSE odd)
  IN  rec[exp.digits]

gcd(x, y) ==
  LET rec[a \in Integer, b \in Integer] ==
        IF isZero(b) THEN D!Returns(abs(a))
        ELSE Then(rem(a, b), LAMBDA r : rec[abs(b), abs(r)])
  IN  rec[x, y]

lcm(a, b) ==
  Then(times(abs(a), abs(b)), LAMBDA p : Then(gcd(a, b), LAMBDA g : over(p, g)))

(* n.abs() is again a BigInteger, so that the inner calls of these two are *)
(* calls of the functions themselves, never of those of BigCardinal.       *)
sqrt(n) ==
  IF isZero(n) THEN D!Returns(Int0)
  ELSE IF isOne(n) THEN D!Returns(Int1)
  ELSE IF isNegative(n) THEN D!Throws(n) ELSE Diverges
mod_pow(base, exp, mod) == IF isZero(mod) THEN D!Throws(mod) ELSE Diverges
=============================================================================
