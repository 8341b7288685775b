----------------------------- MODULE BigDecimal -----------------------------
(***************************************************************************)
(* bign::BigDecimal (cpp/lib/bign/BigDecimal.h): a BigInteger and a number *)
(* of decimal places.  The radix 10, the rounding digit 5 and the ten      *)
(* extra places of a division are parameters, so that small digits hold    *)
(* several places.  A text is its sign and the characters before and after *)
(* the point.                                                              *)
(***************************************************************************)
EXTENDS Integers, Sequences, FiniteSetsExt

CONSTANTS Bytes, CharBit, IntBits,
          plusAbs(_, _), subtractAbs(_, _), timesAbs(_, _), divideAbs(_, _),
          Radix,        \* 10 in the code
          Half,         \* 5
          ExtraPlaces   \* 10

D == INSTANCE BigDigit
S == INSTANCE BigSigned
I == INSTANCE BigInteger

Then(r, next(_)) == IF r.ok THEN next(r.v) ELSE r

Zero == S!decimal(S!Int0, 0)
Ten == S!integer(1, <<Radix>>)

(* 10^n by repeated multiplication, as every operation here computes it.   *)
scale(n) ==
  LET tens[k \in Nat] ==
        IF k = 0 THEN D!Returns(S!Int1) ELSE Then(tens[k - 1], LAMBDA p : I!times(p, Ten))
  IN  tens[n]

(* The zeros at the end of the fractional part, at most the given number.  *)
trailingZeros(frac, places) ==
  LET from[c \in S!Integer, z \in Nat] ==
        IF z >= places \/ S!isZero(c) THEN D!Returns(z)
        ELSE Then(I!rem(c, Ten), LAMBDA last :
             IF ~S!isZero(last) THEN D!Returns(z)
             ELSE Then(I!over(c, Ten), LAMBDA d : from[d, z + 1]))
  IN  IF S!isZero(frac) THEN D!Returns(places) ELSE from[frac, 0]

zerosOf(n, places) ==
  Then(scale(places), LAMBDA s : Then(I!rem(n, s), LAMBDA f : trailingZeros(f, places)))

normalize(x) ==
  LET shorter(n, z) == S!decimal(S!Restore(S!isNegative(x.int), n), x.places - z)
      without(z) == Then(scale(z), LAMBDA s :
                    Then(I!over(S!abs(x.int), s), LAMBDA n : D!Returns(shorter(n, z))))
  IN  IF S!isZero(x.int) THEN D!Returns(S!decimal(x.int, 0))
      ELSE IF x.places = 0 THEN D!Returns(x)
      ELSE Then(zerosOf(S!abs(x.int), x.places), LAMBDA z :
                IF z > 0 THEN without(z) ELSE D!Returns(x))

Make(n, places) == normalize(S!decimal(n, places))   \* the constructor from a BigInteger

(* Both operands with the larger number of places.                         *)
raised(x, places) ==
  IF x.places = places THEN D!Returns(x)
  ELSE Then(scale(places - x.places), LAMBDA s : S!Decimal(I!times(x.int, s), places))
alignDecimalPlaces(a, b) ==
  LET places == Max({a.places, b.places})
  IN  Then(raised(a, places), LAMBDA x :
      Then(raised(b, places), LAMBDA y : D!Returns([a |-> x, b |-> y])))

(* The constructor from a text: the parts are joined and the length of the *)
(* second one is the number of places.  Without places normalize does      *)
(* nothing.                                                                *)
fromText(t) ==
  LET int == IF t.int = <<>> THEN <<0>> ELSE t.int
  IN  IF t.int = <<>> /\ t.frac = <<>> THEN D!Returns(Zero)
      ELSE IF ~t.dot \/ t.frac = <<>>
      THEN D!Returns(S!decimal(S!fromText(t.negative, int, Radix), 0))
      ELSE Then(Make(S!fromText(FALSE, int \o t.frac, Radix), Len(t.frac)), LAMBDA x :
                normalize([x EXCEPT !.int = S!Restore(t.negative, x.int)]))

plus(a, b) ==
  Then(alignDecimalPlaces(a, b), LAMBDA p :
  Then(I!plus(p.a.int, p.b.int), LAMBDA n : Make(n, p.a.places)))
minus(a, b) ==
  Then(alignDecimalPlaces(a, b), LAMBDA p :
  Then(I!minus(p.a.int, p.b.int), LAMBDA n : Make(n, p.a.places)))
(* Mutant of times: the places of the longer operand. *)
timesMax(a, b) == S!Decimal(I!times(a.int, b.int), Max({a.places, b.places}))

(* A product keeps all its places.                                         *)
times(a, b) == S!Decimal(I!times(a.int, b.int), a.places + b.places)

(* The dividend is scaled by the larger number of places and the extra     *)
(* ones, the divisor by its own.                                           *)
over(a, b) ==
  LET factor == Max({a.places, b.places}) + ExtraPlaces
      dividend == Then(scale(factor), LAMBDA s : I!times(a.int, s))
      divisor == Then(scale(b.places), LAMBDA s : I!times(b.int, s))
  IN  IF S!isZero(b.int) THEN D!Throws(a)
      ELSE Then(dividend, LAMBDA n : Then(divisor, LAMBDA m :
           Then(I!over(n, m), LAMBDA q : Make(q, factor - b.places))))

(* The first digit that rounding removes: s is the power of the radix      *)
(* above it.                                                               *)
removed(value, s) ==
  Then(I!over(s, Ten), LAMBDA t : Then(I!over(value, t), LAMBDA u : I!rem(u, Ten)))

(* Mutant of up: a half goes down. *)
upAbove(n, d) == IF S!less(S!integer(1, <<Half>>), d) THEN I!plus(n, S!Int1) ELSE D!Returns(n)
up(n, d) == IF S!less(d, S!integer(1, <<Half>>)) THEN D!Returns(n) ELSE I!plus(n, S!Int1)

(* Rounding half away from zero.                                           *)
round(x, places) ==
  LET rounded(s) == Then(removed(S!abs(x.int), s), LAMBDA d :
                    Then(I!over(S!abs(x.int), s), LAMBDA n : up(n, d)))
  IN  IF places >= x.places \/ places < 0 THEN D!Returns(x)
      ELSE Then(scale(x.places - places), LAMBDA s : Then(rounded(s), LAMBDA n :
           Make(S!Restore(S!isNegative(x.int), n), places)))

truncate(x, places) ==
  IF places >= x.places \/ places < 0 THEN D!Returns(x)
  ELSE Then(scale(x.places - places), LAMBDA s :
       Then(I!over(x.int, s), LAMBDA n : Make(n, places)))

setDecimalPlaces(x, places) ==
  CASE places < 0 \/ places = x.places -> D!Returns(x)
    [] places >= 0 /\ places < x.places ->
         Then(scale(x.places - places), LAMBDA s : S!Decimal(I!over(x.int, s), places))
    [] places > x.places /\ places >= 0 -> raised(x, places)

format(x, wanted) ==
  LET places == IF wanted < 0 THEN x.places ELSE wanted
  IN  Then(IF places < x.places THEN round(x, places) ELSE setDecimalPlaces(x, places),
           LAMBDA y : D!Returns(S!textOf(y.int, y.places, Radix)))

(* Comparisons, [ok, v] with a Boolean: the alignment may throw.           *)
equal(a, b) ==
  Then(alignDecimalPlaces(a, b), LAMBDA p : D!Returns(S!equal(p.a.int, p.b.int)))
less(a, b) ==
  Then(alignDecimalPlaces(a, b), LAMBDA p : D!Returns(S!less(p.a.int, p.b.int)))
=============================================================================
