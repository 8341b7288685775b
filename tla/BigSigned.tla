----------------------------- MODULE BigSigned ------------------------------
(***************************************************************************)
(* What bign::BigInteger and bign::BigDecimal (cpp/lib/bign/BigInteger.h   *)
(* and BigDecimal.h) do without the arithmetic of their digits: integers   *)
(* are a sign and digits, decimals an integer and a number of places;      *)
(* constructors, signs, comparisons and texts.  A zero may carry the sign  *)
(* -1: the constructor from the text "-0" leaves it so.                    *)
(***************************************************************************)
EXTENDS Integers, Sequences, SequencesExt, FiniteSetsExt

CONSTANTS Bytes, CharBit, IntBits

D == INSTANCE BigDigit
N == INSTANCE BigNumberNaive

(* The next call of an expression, unless the one before threw.            *)
Then(r, next(_)) == IF r.ok THEN next(r.v) ELSE r
lessAbs(a, b) == N!compare(a, b) < 0
equalAbs(a, b) == N!compare(a, b) = 0

Integer == [signal : {-1, 1}, digits : Seq(D!digit)]
integer(signal, digits) == [signal |-> signal, digits |-> digits]
Int0 == integer(1, N!Zero)
Int1 == integer(1, <<1>>)
isZero(n) == N!isZero(n.digits)
isOne(n) == N!isOne(n.digits)

(* The call does not return: it calls itself with the same argument.       *)
Diverges == [ok |-> FALSE, v |-> "diverges"]

(* Constructors: from a machine integer, and from a text, of which only    *)
(* the sign and the part after it are told apart.                          *)
fromInt(n) == IF n < 0 THEN integer(-1, <<(-n) % D!Base>>) ELSE integer(1, <<n % D!Base>>)
fromText(negative, s, base) ==
  IF s = <<>> THEN Int0 ELSE integer(IF negative THEN -1 ELSE 1, D!vector(D!parse(s, base)))

(* format: the digits after the sign; zeros at the front are only dropped  *)
(* where no sign comes before them.                                        *)
format(n, base) ==
  LET signed(text) == IF isZero(n) \/ text = <<0>> THEN [negative |-> FALSE, text |-> <<0>>]
                      ELSE IF n.signal < 0 THEN [negative |-> TRUE, text |-> text]
                      ELSE [negative |-> FALSE, text |-> D!trimmed(text)]
  IN  signed(FlattenSeq([i \in DOMAIN n.digits |-> D!format(n.digits[i], base)]))

sign(n) == IF isZero(n) THEN 0 ELSE n.signal
isPositive(n) == n.signal > 0 /\ ~isZero(n)
isNegative(n) == n.signal < 0
abs(n) == [n EXCEPT !.signal = 1]
negate(n) == IF isZero(n) THEN n ELSE [n EXCEPT !.signal = -n.signal]

equal(a, b) ==
  \/ isZero(a) /\ isZero(b)
  \/ a.signal = b.signal /\ equalAbs(a.digits, b.digits)
(* Mutant of less: negative numbers in the order of their digits. *)
lessUnsigned(a, b) ==
  IF a.signal # b.signal THEN a.signal < 0 ELSE lessAbs(a.digits, b.digits)
less(a, b) ==
  IF a.signal # b.signal THEN a.signal < 0
  ELSE IF a.signal < 0 THEN lessAbs(b.digits, a.digits) ELSE lessAbs(a.digits, b.digits)

decimal(n, places) == [int |-> n, places |-> places]
Decimal(r, places) == [ok |-> r.ok, v |-> decimal(r.v, places)]
Restore(negative, n) == IF negative THEN negate(n) ELSE n

(* Mutant of textOf: no zeros are put before the digits. *)
textOfShort(n, places, radix) ==
  LET str == format(abs(n), radix).text
      at == Max({0, Len(str) - places})
      frac == SubSeq(str, at + 1, Len(str))
  IN  [negative |-> isNegative(n), int |-> IF at = 0 THEN <<0>> ELSE SubSeq(str, 1, at),
       dot |-> frac # <<>>, frac |-> frac]

(* format: zeros are put before the digits until they fill the places, and *)
(* dropped at the end, save one where there are digits before the point.   *)
textOf(n, places, radix) ==
  LET out(i, f) == [negative |-> isNegative(n), int |-> i, dot |-> f # <<>>, frac |-> f]
      kept(int, frac) ==
        SubSeq(frac, 1, Max({i \in DOMAIN frac : frac[i] # 0} \cup {IF int = <<>> THEN 0 ELSE 1}))
      parts(int, frac) == out(IF int = <<>> THEN <<0>> ELSE int, kept(int, frac))
      point(str, at) == parts(SubSeq(str, 1, at), SubSeq(str, at + 1, Len(str)))
      filled(digits) == IF places = 0 THEN out(digits, <<>>)
                        ELSE point(N!Zeros(places - Len(digits)) \o digits,
                                   Max({0, Len(digits) - places}))
  IN  filled(format(abs(n), radix).text)
=============================================================================
