----------------------------- MODULE LibDecimal -----------------------------
(***************************************************************************)
(* uniq::BigDecimal (cpp/lib/BigDecimal.h): the text of bign::BigDecimal   *)
(* over the older integers, save that a product and setDecimalPlaces drop  *)
(* the zeros at the end, and that format with a number of places does not  *)
(* round but moves the point.                                              *)
(***************************************************************************)
EXTENDS Integers, Sequences

CONSTANTS Bytes, CharBit, IntBits, ShiftLimit, Radix, Half, ExtraPlaces

I == INSTANCE LibInteger
plusAbs(a, b) == I!plusAbs(a, b)
subtractAbs(a, b) == I!subtractAbs(a, b)
timesAbs(a, b) == I!timesAbs(a, b)
divideAbs(a, b) == I!divideAbs(a, b)
S == INSTANCE BigDecimal

Then(r, next(_)) == IF r.ok THEN next(r.v) ELSE r
decimal(n, places) == S!S!decimal(n, places)
normalize(x) == S!normalize(x)
alignDecimalPlaces(a, b) == S!alignDecimalPlaces(a, b)
Make(n, places) == S!Make(n, places)
fromText(t) == S!fromText(t)
plus(a, b) == S!plus(a, b)
minus(a, b) == S!minus(a, b)
times(a, b) == Then(S!times(a, b), normalize)
(* Mutant of over: no places beyond those of the dividend. *)
overCut(a, b) == Then(S!over(a, b), LAMBDA q : S!truncate(q, a.places))
over(a, b) == S!over(a, b)
round(x, places) == S!round(x, places)
truncate(x, places) == S!truncate(x, places)
format(x, wanted) == S!S!textOf(x.int, IF wanted < 0 THEN x.places ELSE wanted, Radix)

(* Mutant of setDecimalPlaces: the point moves over the digits. *)
setDecimalPlacesOnly(x, places) == normalize([x EXCEPT !.places = places])

(* Not called with a negative number, which bign ignores and this version  *)
(* takes for a number of places.                                           *)
setDecimalPlaces(x, places) ==
  Then(S!setDecimalPlaces(x, places), normalize)
equal(a, b) == S!equal(a, b)
less(a, b) == S!less(a, b)
=============================================================================
