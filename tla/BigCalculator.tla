--------------------------- MODULE BigCalculator ----------------------------
(***************************************************************************)
(* A program that calculates: it keeps a bign::BigNumber, num, and does    *)
(* one operation after the other on it with operands it reads from texts;  *)
(* it does the same with a uniq::BigDecimal, dec, of the older library.    *)
(* Between them it may fill the table of primes.  The properties say what  *)
(* the next call would return in every state that the program can reach.   *)
(* The bounds keep the numbers within one machine word, where the borrows  *)
(* of BigObjects do not occur.                                             *)
(***************************************************************************)
EXTENDS BigPrime, Spiral

CONSTANTS Bytes, CharBit, IntBits, Threshold, ShiftLimit, Radix, Half, ExtraPlaces,
          Texts,        \* the operands, as texts: sign, digits, point, digits
          Places,       \* the numbers of places asked for
          Shifts,       \* the bits num is shifted by in place
          Candidates,   \* the numbers tested for primality
          MaxInt,       \* bound: num without its point
          MaxPlaces     \* bound: the places of num

ASSUME CalculatorAssumption ==
  /\ Half \in Nat /\ Radix = 2 * Half /\ Half > 0 /\ ExtraPlaces \in Nat
  /\ Threshold \in Nat /\ Threshold >= 4 /\ ShiftLimit \in Nat
  /\ Places \cup Shifts \cup Candidates \subseteq Nat /\ MaxInt \in Nat /\ MaxPlaces \in Nat
  /\ \A t \in Texts : t.negative \in BOOLEAN /\ t.dot \in BOOLEAN

G == INSTANCE BigNumber         \* bign::BigNumber
L == INSTANCE LibDecimal        \* uniq::BigDecimal
O == INSTANCE LibCardinal       \* uniq::BigCardinal
U == INSTANCE Number            \* uniq::Number

VARIABLES num, dec
vars == <<num, dec, primeBase, maxPrime>>

(* The integer without the point and the places of a number.               *)
Value(digits) == FoldRight(LAMBDA d, v : v * G!D!Base + d, digits, 0)
IntegerOf(i) == i.signal * Value(i.digits)
Mantissa(n) == IntegerOf(G!asInteger(n))
PlacesOf(n) == IF G!isDecimal(n) THEN n.v.places ELSE 0
(* i / Radix^p = j / Radix^q                                               *)
SameValue(i, p, j, q) == i * Radix^q = j * Radix^p

Operand(t) == G!fromText(t, Radix).v

-----------------------------------------------------------------------------
Init == /\ num = G!card(<<0>>) /\ dec = L!S!Zero
        /\ PrimeInit

Within(n) == /\ Mantissa(n) \in (-MaxInt) .. MaxInt
             /\ PlacesOf(n) <= MaxPlaces

(* The older library's number for the value of n.                          *)
older(n) == L!Make(G!asInteger(n), PlacesOf(n)).v

(* Calls that both libraries make; one that throws changes nothing.        *)
Both(r, s) == /\ r.ok /\ s.ok /\ Within(r.v)
              /\ num' = r.v /\ dec' = s.v
              /\ UNCHANGED primeVars
(* Calls that the older decimals do not have of their own (they inherit %, *)
(* negate, abs and the shifts from BigInteger, which knows no places), or  *)
(* that divide other operands there: dec is made anew.                     *)
Newer(r) == /\ r.ok /\ Within(r.v)
            /\ num' = r.v /\ dec' = older(r.v)
            /\ UNCHANGED primeVars

Read(t)  == Both(G!fromText(t, Radix), L!fromText(t))
Plus(t)  == Both(G!plus(num, Operand(t)), L!plus(dec, L!fromText(t).v))
Minus(t) == Both(G!minus(num, Operand(t)), L!minus(dec, L!fromText(t).v))
Times(t) == Both(G!times(num, Operand(t)), L!times(dec, L!fromText(t).v))
(* Whole numbers divide as such only in the newer library.  Decimals       *)
(* divide alike in both, but by their integers and places, so only where   *)
(* no product has left zeros on num that dec has dropped.                  *)
DecimalsAlike(t) == (G!isDecimal(num) \/ t.dot) /\ dec.places = PlacesOf(num)
OverBoth(t) ==
  DecimalsAlike(t) /\ Both(G!over(num, Operand(t)), L!over(dec, L!fromText(t).v))
OverNewer(t) == ~DecimalsAlike(t) /\ Newer(G!over(num, Operand(t)))
Over(t)  == OverBoth(t) \/ OverNewer(t)
Rem(t)   == Newer(G!rem(num, Operand(t)))
Increment == Both(G!increment(num), L!plus(dec, G!S!decimal(G!One, 0)))
Decrement == Both(G!decrement(num), L!minus(dec, G!S!decimal(G!One, 0)))
Negate == Newer(G!negate(num))
Abs == Newer(G!abs(num))
ShiftDown(k) == Newer(G!shrInPlace(num, k))
ShiftUpBy(t) == Newer(G!shl(num, Operand(t)))
ShiftDownBy(t) == Newer(G!shr(num, Operand(t)))

(* The methods of decimals, on the decimal that num holds.                 *)
OnDecimal(r, s) == G!isDecimal(num) /\ Both(G!As("decimal", r), s)
Round(p) == OnDecimal(G!F!round(num.v, p), L!round(dec, p))
Truncate(p) == OnDecimal(G!F!truncate(num.v, p), L!truncate(dec, p))
SetDecimalPlaces(p) == OnDecimal(G!F!setDecimalPlaces(num.v, p), L!setDecimalPlaces(dec, p))

InitPrimality(sz) == initPrimality(sz) /\ UNCHANGED <<num, dec>>

Next ==
  \/ \E t \in Texts : Read(t) \/ Plus(t) \/ Minus(t) \/ Times(t) \/ Over(t) \/ Rem(t)
                    \/ ShiftUpBy(t) \/ ShiftDownBy(t)
  \/ Increment \/ Decrement \/ Negate \/ Abs
  \/ \E k \in Shifts : ShiftDown(k)
  \/ \E p \in Places : Round(p) \/ Truncate(p) \/ SetDecimalPlaces(p)
  \/ \E sz \in Sizes : InitPrimality(sz)

Spec == Init /\ [][Next]_vars

-----------------------------------------------------------------------------
(* What the operands are to each other.                                    *)
Whole(n) == ~G!isDecimal(n)
SamePlaces(a, b) == PlacesOf(a) = PlacesOf(b)
Rank(n) == CASE G!isCardinal(n) -> 0 [] G!isInteger(n) -> 1 [] G!isDecimal(n) -> 2
Magnitude(i) == IF i < 0 THEN -i ELSE i
Sign(i) == IF i < 0 THEN -1 ELSE IF i = 0 THEN 0 ELSE 1
Zero(n) == Mantissa(n) = 0
(* Truncated division, the remainder with the sign of the dividend.        *)
Quotient(i, j) == Sign(i) * Sign(j) * (Magnitude(i) \div Magnitude(j))
(* The integers of a and b at the larger number of places, and r's value.  *)
Aligned(a, b) == Mantissa(a) * Radix^(IF PlacesOf(a) < PlacesOf(b) THEN PlacesOf(b) - PlacesOf(a) ELSE 0)
Common(a, b) == Max({PlacesOf(a), PlacesOf(b)})
Is(r, i, p) == r.ok /\ SameValue(Mantissa(r.v), PlacesOf(r.v), i, p)

(* The cardinals of the three libraries compute the same, throws included. *)
Cardinals == {t \in Texts : ~t.dot /\ ~t.negative}
Same(x, y, z) == /\ x.ok = y.ok /\ y.ok = z.ok
                 /\ x.ok => Value(x.v) = Value(y.v) /\ Value(y.v) = Value(z.v)
SameResults(a, c) ==
  /\ Same(G!B!plus(a, c), O!plus(a, c), U!plus(a, c))
  /\ Same(G!B!minus(a, c), O!minus(a, c), U!minus(a, c))
  /\ Same(G!B!times(a, c), O!times(a, c), U!times(a, c))
  /\ Same(G!B!over(a, c), O!over(a, c), U!over(a, c))
  /\ Same(G!B!rem(a, c), O!rem(a, c), U!rem(a, c))
  /\ Same(G!B!gcd(a, c), O!gcd(a, c), U!gcd(a, c))
  /\ Same(G!B!shl(a, c), O!shl(a, c), U!shl(a, c))
  /\ Same(G!B!shr(a, c), O!shr(a, c), U!shr(a, c))

(* The generations of the code agree: through every sequence of sums,      *)
(* differences, products, ++, --, round, truncate, setDecimalPlaces and    *)
(* quotients of decimals the two libraries stay at the same number,        *)
(* although one keeps the zeros at the end of a product and of             *)
(* setDecimalPlaces and the other drops them; only the quotient of such a  *)
(* number is not compared: it differs.  And cardinals, which divide in two *)
(* ways and normalise in different places, give the same results.          *)
VersionsAgree == /\ SameValue(Mantissa(num), PlacesOf(num), IntegerOf(dec.int), dec.places)
                 /\ G!isCardinal(num) => \A t \in Cardinals : SameResults(num.v, Operand(t).v)

(* Sums and differences of operands of any two types are exact and of the  *)
(* wider type, a difference of cardinals below 0 being an integer; --      *)
(* undoes ++.                                                              *)
SumExact(n, r, i) ==
  /\ Is(r, i, Common(num, n))
  /\ Rank(r.v) = IF Common(num, n) = 0 /\ i < 0 /\ Rank(n) = 0 /\ Rank(num) = 0 THEN 1
                 ELSE Max({Rank(num), Rank(n)})
SumsExact(n) == /\ SumExact(n, G!plus(num, n), Aligned(num, n) + Aligned(n, num))
                /\ SumExact(n, G!minus(num, n), Aligned(num, n) - Aligned(n, num))

(* Products are exact, save those by -1 (with any places), of which times  *)
(* returns the left operand.                                               *)
ProductsExact(n) ==
  Mantissa(n) # -1 => Is(G!times(num, n), Mantissa(num) * Mantissa(n), PlacesOf(num) + PlacesOf(n))

(* Whole numbers divide towards zero with num = q * n + r; decimals of the *)
(* same places give the quotient cut off ExtraPlaces places further on.    *)
Divided(n, q, r) ==
  IF Zero(n) THEN ~q.ok /\ ~r.ok
  ELSE IF Whole(num) /\ Whole(n)
  THEN /\ Is(q, Quotient(Mantissa(num), Mantissa(n)), 0)
       /\ Is(r, Mantissa(num) - Mantissa(q.v) * Mantissa(n), 0)
  ELSE SamePlaces(num, n) =>
         Is(q, Quotient(Mantissa(num) * Radix^ExtraPlaces, Mantissa(n)), ExtraPlaces)
QuotientsExact(n) == Divided(n, G!over(num, n), G!rem(num, n))

OperatorsExact(n) == SumsExact(n) /\ ProductsExact(n) /\ QuotientsExact(n)

(* What +, -, *, / and % return is exact and of the right type, in every   *)
(* state that a calculation reaches.                                       *)
ArithmeticExact ==
  /\ \A t \in Texts : OperatorsExact(Operand(t))
  /\ Is(G!decrement(G!increment(num).v), Mantissa(num), PlacesOf(num))

(* round goes to the nearest number with so many places, and to the one    *)
(* further from zero where two are as near; truncate goes towards zero.    *)
RoundingExact ==
  ~Whole(num) => \A p \in Places : p <= PlacesOf(num) =>
    LET unit == Radix^(PlacesOf(num) - p)
        m == Magnitude(Mantissa(num))
    IN  /\ Is(G!As("decimal", G!F!round(num.v, p)),
              Sign(Mantissa(num)) * ((2 * m + unit) \div (2 * unit)), p)
        /\ Is(G!As("decimal", G!F!truncate(num.v, p)), Sign(Mantissa(num)) * (m \div unit), p)

(* What a number writes is read back as the same number and the same kind, *)
(* unless its text has lost the sign or the point that tells the kind.     *)
ReadBack(t, back) == /\ Is(back, Mantissa(num), PlacesOf(num))
                     /\ Rank(back.v) <= Rank(num)
                     /\ t.dot <=> Rank(back.v) = 2
Written(t) == t.ok /\ ReadBack(t.v, G!fromText(t.v, Radix))
TextRoundTrip == Written(G!format(num, Radix))

(* Rounding and text agree with the places that earlier calls left.        *)
PlacesExact == RoundingExact /\ TextRoundTrip

(* sign, negate and abs agree with the value, and a whole number comes     *)
(* back from its 64-bit integer.  Nothing is claimed of a negative int:    *)
(* bign/BIGNUM.md promises the integer -50 for BigNumber(-50), and the     *)
(* code makes a large cardinal.                                            *)
SignsAgree ==
  /\ G!sign(num) = Sign(Mantissa(num))
  /\ Is(G!negate(num), -Mantissa(num), PlacesOf(num))
  /\ Is(G!abs(num), Magnitude(Mantissa(num)), PlacesOf(num))
  /\ Whole(num) => /\ Mantissa(G!fromI64(Mantissa(num))) = Mantissa(num)
                   /\ Mantissa(num) >= 0 => Mantissa(G!fromInt(Mantissa(num))) = Mantissa(num)

(* ==, < and > compare values across the types, and signs agree with the   *)
(* order.  Two zeros are left out of < and > when one of them is negative, *)
(* as >>= of a small negative number makes it.                             *)
NegativeZero(n) == Zero(n) /\ ~G!isCardinal(n) /\ G!asInteger(n).signal < 0
ZeroOfSign(n) == Zero(num) /\ Zero(n) /\ (NegativeZero(num) \/ NegativeZero(n))
Comparisons(n, e, l, m) ==
  /\ e.ok /\ l.ok /\ m.ok
  /\ e.v = SameValue(Mantissa(num), PlacesOf(num), Mantissa(n), PlacesOf(n))
  /\ ~ZeroOfSign(n) => /\ l.v = (Aligned(num, n) < Aligned(n, num))
                       /\ m.v = (Aligned(n, num) < Aligned(num, n))
Ordered(n) == Comparisons(n, G!equal(num, n), G!less(num, n), G!more(num, n))
OrderExact == SignsAgree /\ \A t \in Texts : Ordered(Operand(t))

(* gcd is the greatest common divisor, lcm its partner, sqrt the integer   *)
(* square root, and mod_pow the power's remainder.                         *)
IsRoot(root, a) == root * root <= a /\ a < (root + 1) * (root + 1)
Greatest(a, b) == Max({d \in 1 .. (a + b) : a % d = 0 /\ b % d = 0})
DivisorsOf(n, a, b) ==
  /\ a + b > 0 => Is(G!gcd(num, n), Greatest(a, b), 0)
  /\ a * b > 0 => Is(G!lcm(num, n), (a * b) \div Greatest(a, b), 0)
  /\ a # 0 => Is(G!mod_pow(n, G!card(<<3>>), num), b^3 % a, 0)
  /\ Is(G!pow(n, G!card(<<3>>)), b^3, 0)
PowersOf(n) == DivisorsOf(n, Mantissa(num), Mantissa(n))
PowersAndDivisors ==
  G!isCardinal(num) => /\ IsRoot(Mantissa(G!sqrt(num).v), Mantissa(num))
                       /\ \A t \in Cardinals : PowersOf(Operand(t))

(* The bits of two cardinals: and, or, xor, not.                           *)
BitsOf(n, a, o) == /\ a + o = Mantissa(num) + Mantissa(n)
                   /\ Is(G!bitXor(num, n), o - a, 0)
BitsExact(n) == /\ BitsOf(n, Mantissa(G!bitAnd(num, n).v), Mantissa(G!bitOr(num, n).v))
                /\ Mantissa(G!bitNot(num).v) + Mantissa(num) = G!D!Base - 1

(* The operators of one digit, on the lowest digit of num: they return     *)
(* exactly when the result is a digit (a quotient when nothing is left),   *)
(* and a throw keeps the digit; shifts and rotations undo each other and   *)
(* size is the number of bits.  So do the bits of two cardinals agree.     *)
(* What goes through an int, which is half a digit, is claimed only as far *)
(* as it reaches: distance where the digits differ in lower bits, the      *)
(* throw of >>= for shifts below its width.                                *)
Words == {Operand(t).v[1] : t \in Cardinals} \cup {G!D!Base - 1}
WordsExact ==
  G!isCardinal(num) =>
    LET w == num.v[1]
        result(r, v) == r = IF v \in G!D!digit THEN G!D!Returns(v) ELSE G!D!Throws(w)
    IN  /\ \A t \in Cardinals : BitsExact(Operand(t))
        /\ 2^G!D!size(w) > w /\ 2^G!D!log2(w) <= Max({w, 1})
        /\ \A d \in Words :
             /\ result(G!D!AddAssign(w, d), w + d)
             /\ result(G!D!SubAssign(w, d), w - d)
             /\ result(G!D!MulAssign(w, d), w * d)
             /\ d > 0 => /\ G!D!DivAssign(w, d).ok <=> w % d = 0
                         /\ G!D!MulAssign(G!D!div(w, d).v, d).v + G!D!ModAssign(w, d).v = w
             /\ G!D!BitXor(w, d) < 2^(IntBits - 1) =>
                  G!D!distance(w, d) = Cardinality({k \in 0 .. (G!D!Bits - 1) :
                                         G!D!getbit(w, k) # G!D!getbit(d, k)})
        /\ G!D!Decrement(G!D!Increment(w)) = w /\ G!D!Increment(G!D!Decrement(w)) = w
        /\ \A k \in 1 .. (G!D!Bits - 1) :
             /\ G!D!rotr(G!D!rotl(w, k), k) = w
             /\ LET up == G!D!ShlAssign(w, k)
                IN  up.ok => G!D!ShrAssign(up.v, k) = G!D!Returns(w)
             /\ k < IntBits => (G!D!ShrAssign(w, k).ok <=> w % 2^k = 0)
             /\ G!D!setbit(G!D!setbit(w, k, ~G!D!getbit(w, k)), k, G!D!getbit(w, k)) = w

(* The three tests of primality agree with the definition at any state of  *)
(* the table, the empty one included, save isPrimeQR of 3, 5 and 7 while   *)
(* the table is empty: its bases are then multiples of the number.         *)
Prime(n) == n >= 2 /\ \A d \in 2 .. (n - 1) : n % d # 0
Tested == IF Zero(num) THEN Candidates ELSE {Magnitude(Mantissa(num))}
PrimesAgree ==
  \A n \in Tested :
    /\ isPrimeTD(n) = Prime(n)
    /\ isPrimeMR(n) = Prime(n)
    /\ isPrimeQR(n) = Prime(n) \/ (primeBase = <<>> /\ n \in {3, 5, 7})
    /\ n >= 2 => firstFactor(n) = Min({d \in 2 .. n : n % d = 0})

(* The divisor searches of tests/prime.cc find the least divisor: the      *)
(* wheel leaves no candidate out.  The first block of paralelDivisor finds *)
(* it when it is not beyond the block, and never calls a number a divisor  *)
(* that is none.                                                           *)
DivisorsFound ==
  \A n \in Tested : n >= 2 =>
    LET least == Min({d \in 2 .. n : n % d = 0})
    IN  /\ firstDivisor0(n) = least /\ spiralDivisor(n, 0) = least
        /\ n % firstBlock(n) = 0
        /\ least <= 7 + BlockSize => firstBlock(n) = least

=============================================================================
