------------------------- MODULE BigNumberKaratsuba -------------------------
(***************************************************************************)
(* bign::BigNumberKaratsuba (cpp/lib/bign/BigNumberKaratsuba.cpp): the     *)
(* implementation BIG_AUTO selects.  It multiplies large vectors by three  *)
(* products of halves, and hands every other operation to the naive one.   *)
(***************************************************************************)
EXTENDS Integers, Sequences, SequencesExt, FiniteSetsExt

CONSTANTS Bytes, CharBit, IntBits,
          Threshold      \* KARATSUBA_THRESHOLD, 50 in the code; at least 4, or a
                         \* half's sum may be as long as the whole vector

N == INSTANCE BigNumberNaive     \* naive_, the object it delegates to
D == INSTANCE BigDigit

splitAt(src, pos) ==
  CASE pos >= Len(src) -> [low |-> src, high |-> N!Zero]
    [] pos <= 0 /\ pos < Len(src) -> [low |-> N!Zero, high |-> src]
    [] OTHER -> [low |-> N!normalize(SubSeq(src, 1, pos)),
                 high |-> N!normalize(SubSeq(src, pos + 1, Len(src)))]

(* z2 * B^2m + z1 * B^m + z0.                                              *)
combine(z0, z1, z2, m) ==
  N!normalize(N!add(N!add(N!Zeros(2 * m) \o z2, N!Zeros(m) \o z1), z0))

(* z0, z2 and z1 as the calls returned them; the naive subtractions may    *)
(* throw.                                                                  *)
less2(z0, z2, m, r) == IF r.ok THEN D!Returns(combine(z0, r.v, z2, m)) ELSE D!Throws(z0)
less0(z0, z2, m, r) == IF r.ok THEN less2(z0, z2, m, N!subtract(r.v, z2)) ELSE D!Throws(z0)
joined(z0, z2, z1, m) ==
  IF z0.ok /\ z2.ok /\ z1.ok THEN less0(z0.v, z2.v, m, N!subtract(z1.v, z0.v))
  ELSE D!Throws(z0.v)

(* The product of halves of halves; rec is the product of shorter vectors. *)
halves(rec, sa, sb, m) ==
  joined(rec[<<sa.low, sb.low>>], rec[<<sa.high, sb.high>>],
         rec[<<N!add(sa.low, sa.high), N!add(sb.low, sb.high)>>], m)
splitBoth(rec, a, b, m) ==
  halves(rec, splitAt(a, m),
         IF Len(b) <= m THEN [low |-> b, high |-> N!Zero] ELSE splitAt(b, m), m)
product(rec, a, b) ==
  IF Len(a) < Threshold \/ Len(b) < Threshold THEN D!Returns(N!multiply(a, b))
  ELSE IF Len(a) < Len(b) THEN rec[<<b, a>>]
  ELSE splitBoth(rec, a, b, (Len(a) + 1) \div 2)
threeProducts(x, y) ==
  LET rec[p \in Seq(D!digit) \X Seq(D!digit)] == product(rec, p[1], p[2])
  IN  rec[<<x, y>>]

(* The vector is written last: a throw leaves it as it was.                *)
multiplyKaratsubaRecursive(x, y) ==
  LET written(r) == IF r.ok THEN r ELSE D!Throws(x) IN written(threeProducts(x, y))

multiply(a, b) ==
  IF a = <<>> \/ b = <<>> THEN D!Returns(N!Zero) ELSE multiplyKaratsubaRecursive(a, b)

(* Everything else is the naive implementation's.                          *)
add(a, b) == N!add(a, b)
addToItself(a) == N!addToItself(a)
subtract(a, b) == N!subtract(a, b)
divide(a, b, old) == N!divide(a, b, old)
compare(a, b) == N!compare(a, b)
bitwiseAnd(a, b) == N!bitwiseAnd(a, b)
bitwiseOr(a, b) == N!bitwiseOr(a, b)
bitwiseXor(a, b) == N!bitwiseXor(a, b)
bitwiseNot(a) == N!bitwiseNot(a)
shiftLeft(a, bits) == N!shiftLeft(a, bits)
shiftRight(a, bits) == N!shiftRight(a, bits)
=============================================================================
