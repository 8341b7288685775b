--------------------------- MODULE BigNumberCore ----------------------------
(***************************************************************************)
(* bign::BigNumberCore (cpp/lib/bign/BigNumberCore.h and .cpp): a vector   *)
(* of digits, the implementation type asked for, and a pointer to the      *)
(* implementation that does the work.  The pointer of an object that was   *)
(* moved from is null ("none"): visitImpl then skips the operation.        *)
(***************************************************************************)
EXTENDS Integers, Sequences

CONSTANTS Bytes, CharBit, IntBits, Threshold

D == INSTANCE BigDigit
N == INSTANCE BigNumberNaive
K == INSTANCE BigNumberKaratsuba

BigImpl == {"auto", "naive", "karatsuba"}
Core == [digits : Seq(D!digit), active : BigImpl, impl : {"naive", "karatsuba", "none"}]

(* The factory, the constructors and what a move leaves behind.            *)
createBest == "karatsuba"              \* its available() is always true
create(type) == IF type = "naive" THEN "naive" ELSE createBest
construct(type) == [digits |-> N!Zero, active |-> type, impl |-> create(type)]
copyOf(o) == [digits |-> o.digits, active |-> o.active, impl |-> create(o.active)]
movedFrom == [digits |-> N!Zero, active |-> "auto", impl |-> "none"]
(* Mutant of setImplementation: the type asked for is not kept. *)
setImplementationOnly(o, type) == [o EXCEPT !.impl = create(type)]
setImplementation(o, type) == [digits |-> o.digits, active |-> type, impl |-> create(type)]
getImplementationName(o) == IF o.impl = "none" THEN "Unknown" ELSE o.impl

(* An operation that writes the digits, through the implementation: naive  *)
(* and karatsuba are what the two make of them.                            *)
visitImpl(o, naive, karatsuba) ==
  LET r == IF o.impl = "naive" THEN naive ELSE karatsuba
  IN  IF o.impl = "none" THEN D!Returns(o)
      ELSE [ok |-> r.ok, v |-> [o EXCEPT !.digits = r.v]]
visitTotal(o, naive, karatsuba) == visitImpl(o, D!Returns(naive), D!Returns(karatsuba))

(* same: the argument is the object itself.                                *)
add(o, n, same) ==
  IF same THEN visitTotal(o, N!addToItself(o.digits), K!addToItself(o.digits))
  ELSE visitTotal(o, N!add(o.digits, n.digits), K!add(o.digits, n.digits))
subtract(o, n) ==
  visitImpl(o, N!subtract(o.digits, n.digits), K!subtract(o.digits, n.digits))
multiply(o, n) ==
  visitImpl(o, D!Returns(N!multiply(o.digits, n.digits)), K!multiply(o.digits, n.digits))
bitwiseAnd(o, n) ==
  visitTotal(o, N!bitwiseAnd(o.digits, n.digits), K!bitwiseAnd(o.digits, n.digits))
bitwiseOr(o, n) ==
  visitTotal(o, N!bitwiseOr(o.digits, n.digits), K!bitwiseOr(o.digits, n.digits))
bitwiseXor(o, n) ==
  visitTotal(o, N!bitwiseXor(o.digits, n.digits), K!bitwiseXor(o.digits, n.digits))
bitwiseNot(o) == visitTotal(o, N!bitwiseNot(o.digits), K!bitwiseNot(o.digits))
shiftLeft(o, bits) ==
  visitTotal(o, N!shiftLeft(o.digits, bits), K!shiftLeft(o.digits, bits))
shiftRight(o, bits) ==
  visitTotal(o, N!shiftRight(o.digits, bits), K!shiftRight(o.digits, bits))

(* divide writes the digits of two other objects.                          *)
divide(o, n, quotient, remainder) ==
  LET old == [q |-> quotient.digits, r |-> remainder.digits]
      written(d) == [ok |-> d.ok, q |-> [quotient EXCEPT !.digits = d.q],
                                  r |-> [remainder EXCEPT !.digits = d.r]]
  IN  CASE o.impl = "none"      -> [ok |-> TRUE, q |-> quotient, r |-> remainder]
        [] o.impl = "naive"     -> written(N!divide(o.digits, n.digits, old))
        [] o.impl = "karatsuba" -> written(K!divide(o.digits, n.digits, old))

compare(o, n) ==
  CASE o.impl = "none"      -> 0
    [] o.impl = "naive"     -> N!compare(o.digits, n.digits)
    [] o.impl = "karatsuba" -> K!compare(o.digits, n.digits)

isZero(o) == N!isZero(o.digits)
isOne(o) == N!isOne(o.digits)
=============================================================================
