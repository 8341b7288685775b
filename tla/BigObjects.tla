----------------------------- MODULE BigObjects -----------------------------
(***************************************************************************)
(* A program with some objects of bign::BigCardinal: every constructor,    *)
(* assignment and assigning operator is an action, in any order, moved     *)
(* objects and the change of the implementation included.  A throw leaves  *)
(* the object as the throwing code left it.                                *)
(***************************************************************************)
EXTENDS BigCardinal

CONSTANTS Objects,    \* the program's variables
          Starts,     \* the digits that it constructs numbers from
          Types,      \* the implementation types that it asks for
          Shifts,     \* the amounts it shifts by, as digits
          MaxDigits   \* bound: no object is given more digits

ASSUME ObjectsAssumption ==
  /\ D!Widths
  /\ Threshold \in Nat /\ Threshold >= 4      \* or Karatsuba's recursion does not end
  /\ ShiftLimit \in Nat /\ MaxDigits \in Nat
  /\ Types \subseteq {"auto", "naive", "karatsuba"}
  /\ Starts \cup Shifts \subseteq Seq(D!digit) \ {<<>>}

VARIABLE obj     \* obj[x]: the digits and the implementation of x

Init == obj = [x \in Objects |-> cardinal(N!Zero)]

Becomes(x, o) == Len(o.digits) <= MaxDigits /\ obj' = [obj EXCEPT ![x] = o]

(* Constructors and assignments.                                           *)
Construct(x, a) == Becomes(x, cardinal(a))
ConstructWith(x, type) == Becomes(x, C!construct(type))
SetDigit(x, d) == Becomes(x, [obj[x] EXCEPT !.digits = <<d>>])
Copy(x, y) == x # y /\ Becomes(x, C!copyOf(obj[y]))
Move(x, y) == x # y /\ obj' = [obj EXCEPT ![x] = obj[y], ![y] = C!movedFrom]
SetImplementation(x, type) == Becomes(x, C!setImplementation(obj[x], type))

(* Arithmetic: the object is what the call left, whether it returned or    *)
(* threw.                                                                  *)
PlusAssign(x, y) == Becomes(x, plusAssign(obj[x], obj[y], x = y).v)
PlusPlus(x) == Becomes(x, increment(obj[x]).v)
MinusAssign(x, y) == Becomes(x, minusAssign(obj[x], obj[y]).v)
MinusMinus(x) == Becomes(x, decrement(obj[x]).v)
TimesAssign(x, y) == Becomes(x, timesAssign(obj[x], obj[y]).v)
OverAssign(x, y) == Becomes(x, overAssign(obj[x], obj[y]).v)
RemAssign(x, y) == Becomes(x, remAssign(obj[x], obj[y]).v)
ShiftUp(x, n) == Becomes(x, shlAssign(obj[x], n).v)
ShiftDown(x, n) == Becomes(x, shrAssign(obj[x], n).v)

AndAssign(x, y) == Becomes(x, andAssign(obj[x], obj[y]).v)
OrAssign(x, y) == Becomes(x, orAssign(obj[x], obj[y]).v)
XorAssign(x, y) == Becomes(x, xorAssign(obj[x], obj[y]).v)
Complement(x) == Becomes(x, complement(obj[x]).v)

Next ==
  \/ \E x \in Objects :
       \/ \E a \in Starts : Construct(x, a)
       \/ \E d \in D!digit : SetDigit(x, d)
       \/ \E type \in Types : ConstructWith(x, type) \/ SetImplementation(x, type)
       \/ \E n \in Shifts : ShiftUp(x, n) \/ ShiftDown(x, n)
       \/ PlusPlus(x) \/ MinusMinus(x) \/ Complement(x)
  \/ \E x, y \in Objects :
       \/ Copy(x, y) \/ Move(x, y)
       \/ PlusAssign(x, y) \/ MinusAssign(x, y) \/ TimesAssign(x, y)
       \/ OverAssign(x, y) \/ RemAssign(x, y)
       \/ AndAssign(x, y) \/ OrAssign(x, y) \/ XorAssign(x, y)

Spec == Init /\ [][Next]_obj

-----------------------------------------------------------------------------
(* The number that a vector of digits stands for.                          *)
Value(a) == FoldRight(LAMBDA d, v : v * D!Base + d, a, 0)
V(x) == Value(obj[x].digits)
Exact(r, v) == r.ok /\ Value(r.v.digits) = v
Live(x) == obj[x].impl # "none"
Normal(a) == a = N!normalize(a)

(* No digit of b is above the digit of a at its place.                     *)
NoBorrow(a, b) == \A i \in DOMAIN b : b[i] <= N!At(a, i)

(* The implementation is the one that the active type selects, or none for *)
(* an object that was moved from and not given another since.              *)
ImplementationSelected ==
  \A x \in Objects : obj[x].impl \in {C!create(obj[x].active), "none"}
                     /\ (~Live(x) => obj[x].active = "auto")

(* Whether Karatsuba splits the vectors of x and y to multiply them.       *)
Splits(x, y) == /\ obj[x].impl = "karatsuba"
                /\ Len(obj[x].digits) >= Threshold /\ Len(obj[y].digits) >= Threshold

(* Whatever calls came before, failed ones included: ++ and += of another  *)
(* object give the sum, with carries that run to the end of the vector; *= *)
(* gives the product with either implementation, as long as Karatsuba does *)
(* not split.                                                              *)
ResultsExact ==
  \A x \in Objects : Live(x) =>
    /\ Exact(increment(obj[x]), V(x) + 1)
    /\ \A y \in Objects \ {x} : Exact(plusAssign(obj[x], obj[y], FALSE), V(x) + V(y))
    /\ \A y \in Objects : ~Splits(x, y) => Exact(timesAssign(obj[x], obj[y]), V(x) * V(y))

(* For normalised vectors compare is the order of the numbers, and -= is   *)
(* exact where no digit has to borrow: the borrow that sub reports is not  *)
(* the 1 that the next digit owes.                                         *)
DifferencesExact ==
  \A x, y \in Objects :
    Live(x) /\ Normal(obj[x].digits) /\ Normal(obj[y].digits) =>
      LET c == C!compare(obj[x], obj[y])
      IN  /\ (c < 0 <=> V(x) < V(y)) /\ (c = 0 <=> V(x) = V(y))
          /\ NoBorrow(obj[x].digits, obj[y].digits)
               => Exact(minusAssign(obj[x], obj[y]), V(x) - V(y))

(* <<= multiplies by the power of two, by bits or by a product.  /= and %= *)
(* by a number of one digit give quotient and remainder whenever they      *)
(* return, however many digits they work through; they do return for a     *)
(* dividend of one digit.                                                  *)
ScaledExact ==
  /\ \A x \in Objects, n \in Shifts :
       Live(x) => Exact(shlAssign(obj[x], n), V(x) * 2^Value(n))
  /\ \A x, y \in Objects :
       LET q == overAssign(obj[x], obj[y])
           r == remAssign(obj[x], obj[y])
       IN  V(y) # 0 /\ Normal(obj[x].digits) /\ Len(obj[y].digits) = 1 =>
             /\ q.ok => Exact(q, V(x) \div V(y))
             /\ r.ok => Exact(r, V(x) % V(y))
             /\ Len(obj[x].digits) = 1 => q.ok /\ r.ok

(* Karatsuba's product is the naive one.                                   *)
KaratsubaSameAsNaive ==
  \A x, y \in Objects :
    C!K!multiply(obj[x].digits, obj[y].digits) = D!Returns(N!multiply(obj[x].digits, obj[y].digits))

(* Every call that may throw, of one object and of two, save those that    *)
(* subtract.                                                               *)
Shifted(x) == {shlAssign(obj[x], n) : n \in Shifts} \cup {shrAssign(obj[x], n) : n \in Shifts}
Combined(x, y) ==
  {plusAssign(obj[x], obj[y], x = y), timesAssign(obj[x], obj[y]),
   overAssign(obj[x], obj[y]), remAssign(obj[x], obj[y])}

(* A call that throws leaves the object as it was, although the work of a  *)
(* division or a Karatsuba product stops half way through its vectors.     *)
ThrowsLeaveObject ==
  \A x \in Objects :
    \A r \in Shifted(x) \cup UNION {Combined(x, y) : y \in Objects} : ~r.ok => r.v = obj[x]

(* From normal operands a call that returns makes a normal result.         *)
NormalFormKept ==
  LET normal == {x \in Objects : Normal(obj[x].digits)}
      unary(x) == Shifted(x) \cup {decrement(obj[x])}
      binary(x, y) == Combined(x, y) \cup {minusAssign(obj[x], obj[y])}
  IN  \A x \in normal :
        \A r \in unary(x) \cup UNION {binary(x, y) : y \in normal} : r.ok => Normal(r.v.digits)
=============================================================================
