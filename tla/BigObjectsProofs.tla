-------------------------- MODULE BigObjectsProofs ---------------------------
(***************************************************************************)
(* Five invariants of BigObjects for any objects, widths and thresholds    *)
(* that ObjectsAssumption allows: the implementation of an object is the   *)
(* one its type selects; a call that throws leaves the object as it was;   *)
(* sums and products are exact; so are the order and the differences       *)
(* without a borrow; and normal form is kept.                              *)
(* The last three rest on DigitsInv, which says that every object holds a  *)
(* vector of digits, and on what BigNumberNaiveProofs proves of vectors.   *)
(* It is inductive because every operation makes such a vector of any      *)
(* others, which for the Karatsuba product and the powers of two includes  *)
(* that their recursions end.                                              *)
(***************************************************************************)
EXTENDS BigObjects, TLAPS

NP == INSTANCE BigNumberNaiveProofs

(* An object with its three fields and the implementation that its type    *)
(* selects.                                                                *)
Selected(o) ==
  /\ o = [digits |-> o.digits, active |-> o.active, impl |-> o.impl]
  /\ o.active \in {"auto", "naive", "karatsuba"}
  /\ o.impl \in {C!create(o.active), "none"}
  /\ o.impl = "none" => o.active = "auto"

SelectedInv == /\ obj = [x \in Objects |-> obj[x]]
               /\ \A x \in Objects : Selected(obj[x])

(* New digits leave type and implementation alone.                         *)
LEMMA DigitsOnly ==
  ASSUME NEW o, Selected(o), NEW d
  PROVE  Selected([o EXCEPT !.digits = d])
  BY DEF Selected

(* The constructor from digits selects the implementation of its type.     *)
LEMMA CardinalSelected ==
  ASSUME NEW a
  PROVE  Selected(cardinal(a))
  BY DEF Selected, cardinal, C!createBest, C!create

(* A copy gets an implementation of its own type.                          *)
LEMMA CopySelected ==
  ASSUME NEW o, Selected(o)
  PROVE  Selected(C!copyOf(o))
  BY DEF Selected, C!copyOf, C!create, C!createBest

(* An operation through the implementation, which may throw.               *)
LEMMA VisitSelected ==
  ASSUME NEW o, Selected(o), NEW n, NEW k
  PROVE  Selected(C!visitImpl(o, n, k).v)
  BY DigitsOnly DEF C!visitImpl, C!D!Returns

(* Every call of BigCardinal leaves the object selected, whether it        *)
(* returns or throws.                                                      *)
LEMMA TotalSelected ==
  ASSUME NEW o, Selected(o), NEW n, NEW k
  PROVE  Selected(C!visitTotal(o, n, k).v)
  BY VisitSelected DEF C!visitTotal

(* +=, ++, -=, -- and *= leave a selected object.                          *)
LEMMA ArithmeticSelected ==
  ASSUME NEW o, Selected(o), NEW n, Selected(n), NEW same
  PROVE  /\ Selected(plusAssign(o, n, same).v) /\ Selected(increment(o).v)
         /\ Selected(minusAssign(o, n).v) /\ Selected(decrement(o).v)
         /\ Selected(timesAssign(o, n).v)
<1>1. \A m, s : Selected(C!add(o, m, s).v)
  BY TotalSelected DEF C!add
<1>2. \A m : Selected(C!subtract(o, m).v)
  BY VisitSelected DEF C!subtract
<1>3. \A m : Selected(C!multiply(o, m).v)
  BY VisitSelected DEF C!multiply
<1>4. Selected(plusAssign(o, n, same).v) /\ Selected(increment(o).v)
  BY <1>1, CopySelected DEF plusAssign, increment, D!Returns
<1>5. Selected(minusAssign(o, n).v) /\ Selected(decrement(o).v)
  BY <1>2 DEF minusAssign, decrement, D!Returns, D!Throws
<1>6. Selected(timesAssign(o, n).v)
  BY <1>3, CardinalSelected DEF timesAssign, D!Returns
<1>. QED  BY <1>4, <1>5, <1>6

(* /= and %= leave a selected object.                                      *)
LEMMA DivisionSelected ==
  ASSUME NEW o, Selected(o), NEW n
  PROVE  Selected(overAssign(o, n).v) /\ Selected(remAssign(o, n).v)
  BY CardinalSelected DEF overAssign, remAssign, movedIn, D!Returns, D!Throws

(* <<= and >>= leave one, by bits as by multiplication.                    *)
LEMMA ShiftSelected ==
  ASSUME NEW o, Selected(o), NEW n
  PROVE  Selected(shlAssign(o, n).v) /\ Selected(shrAssign(o, n).v)
<1>1. \A b : Selected(C!shiftLeft(o, b).v) /\ Selected(C!shiftRight(o, b).v)
  BY TotalSelected DEF C!shiftLeft, C!shiftRight
<1>2. \A a : Selected(C!copyOf(timesAssign(C!copyOf(o), cardinal(a)).v))
  BY CopySelected, CardinalSelected, ArithmeticSelected
<1>3. Selected(shlAssign(o, n).v)
  BY <1>1, <1>2 DEF shlAssign, D!Returns, D!Throws
<1>4. Selected(shrAssign(o, n).v)
  BY <1>1, DivisionSelected DEF shrAssign, D!Returns, D!Throws
<1>. QED  BY <1>3, <1>4

(* &=, |=, ^= and ~ leave one.                                             *)
LEMMA BitsSelected ==
  ASSUME NEW o, Selected(o), NEW n
  PROVE  /\ Selected(andAssign(o, n).v) /\ Selected(orAssign(o, n).v)
         /\ Selected(xorAssign(o, n).v) /\ Selected(complement(o).v)
<1>1. Selected(C!copyOf(o))
  BY CopySelected
<1>2. Selected(complement(o).v)
  BY <1>1, TotalSelected DEF complement, C!bitwiseNot
<1>3. Selected(andAssign(o, n).v) /\ Selected(orAssign(o, n).v)
      /\ Selected(xorAssign(o, n).v)
  BY TotalSelected DEF andAssign, orAssign, xorAssign, 
                       C!bitwiseAnd, C!bitwiseOr, C!bitwiseXor
<1>. QED  BY <1>2, <1>3

(* An object that a step changes stays selected, and with it the program.  *)
LEMMA BecomesKeeps ==
  ASSUME SelectedInv, NEW x \in Objects, NEW o, Selected(o), Becomes(x, o)
  PROVE  SelectedInv'
  BY DEF SelectedInv, Becomes

-----------------------------------------------------------------------------
(* The inductive invariant.                                                *)
LEMMA SelectedAlways == Spec => []SelectedInv
<1>1. Init => SelectedInv
  <2>1. SUFFICES ASSUME Init PROVE SelectedInv
    OBVIOUS
  <2>2. Selected(cardinal(N!Zero))
    BY CardinalSelected
  <2>. QED  BY <2>1, <2>2 DEF Init, SelectedInv
<1>2. SelectedInv /\ [Next]_obj => SelectedInv'
  <2>. SUFFICES ASSUME SelectedInv, [Next]_obj PROVE SelectedInv'
    OBVIOUS
  <2>0. \A z \in Objects : Selected(obj[z])
    BY DEF SelectedInv
  <2>1. CASE UNCHANGED obj
    BY <2>1 DEF SelectedInv
  <2>2. ASSUME NEW x \in Objects, NEW a, Construct(x, a) PROVE SelectedInv'
    BY <2>2, CardinalSelected, BecomesKeeps DEF Construct
  <2>3. ASSUME NEW x \in Objects, NEW d, SetDigit(x, d) PROVE SelectedInv'
    BY <2>0, <2>3, DigitsOnly, BecomesKeeps DEF SetDigit
  <2>4. ASSUME NEW x \in Objects, NEW type \in Types,
               ConstructWith(x, type) \/ SetImplementation(x, type)
        PROVE  SelectedInv'
    <3>1. type \in {"auto", "naive", "karatsuba"}
      BY ObjectsAssumption
    <3>2. Selected(C!construct(type))
      BY <3>1 DEF C!construct, Selected, C!create, C!createBest
    <3>3. Selected(C!setImplementation(obj[x], type))
      BY <3>1 DEF C!setImplementation, Selected, C!create, C!createBest
    <3>. QED  BY <2>4, <3>2, <3>3, BecomesKeeps DEF ConstructWith, SetImplementation
  <2>5. ASSUME NEW x \in Objects, NEW n, ShiftUp(x, n) \/ ShiftDown(x, n) PROVE SelectedInv'
    BY <2>0, <2>5, ShiftSelected, BecomesKeeps DEF ShiftUp, ShiftDown
  <2>6. ASSUME NEW x \in Objects, PlusPlus(x) \/ MinusMinus(x) \/ Complement(x)
        PROVE  SelectedInv'
    BY <2>0, <2>6, ArithmeticSelected, BitsSelected, BecomesKeeps
    DEF PlusPlus, MinusMinus, Complement
  <2>7. ASSUME NEW x \in Objects, NEW y \in Objects, Copy(x, y) PROVE SelectedInv'
    BY <2>0, <2>7, CopySelected, BecomesKeeps DEF Copy
  <2>8. ASSUME NEW x \in Objects, NEW y \in Objects, Move(x, y) PROVE SelectedInv'
    <3>1. Selected(C!movedFrom)
      BY DEF C!movedFrom, Selected
    <3>. QED  BY <2>0, <2>8, <3>1 DEF Move, SelectedInv
  <2>9. ASSUME NEW x \in Objects, NEW y \in Objects,
               PlusAssign(x, y) \/ MinusAssign(x, y) \/ TimesAssign(x, y)
        PROVE  SelectedInv'
    BY <2>0, <2>9, ArithmeticSelected, BecomesKeeps DEF PlusAssign, MinusAssign, TimesAssign
  <2>10. ASSUME NEW x \in Objects, NEW y \in Objects, OverAssign(x, y) \/ RemAssign(x, y)
         PROVE  SelectedInv'
    BY <2>0, <2>10, DivisionSelected, BecomesKeeps DEF OverAssign, RemAssign
  <2>11. ASSUME NEW x \in Objects, NEW y \in Objects,
                AndAssign(x, y) \/ OrAssign(x, y) \/ XorAssign(x, y)
         PROVE  SelectedInv'
    BY <2>0, <2>11, BitsSelected, BecomesKeeps DEF AndAssign, OrAssign, XorAssign
  <2>. QED  BY <2>1, <2>2, <2>3, <2>4, <2>5, <2>6, <2>7, <2>8, <2>9, <2>10, <2>11 DEF Next
<1>. QED  BY <1>1, <1>2, PTL DEF Spec

(* An object's implementation is the one that its active type selects, or  *)
(* none for one that was moved from, and then the type is auto: whatever   *)
(* calls, assignments, moves and throws came before (BigNumberCore.h and   *)
(* BigCardinal.h), for any objects, widths and thresholds.                 *)
THEOREM SelectionInvariant == Spec => []ImplementationSelected
<1>1. SelectedInv => ImplementationSelected
  BY DEF SelectedInv, Selected, ImplementationSelected, Live
<1>. QED  BY <1>1, SelectedAlways, PTL

(* The calls that throw and what they leave.                               *)
Keeps(r, o) == ~r.ok => r.v = o

(* A product that throws half way through has changed no operand.          *)
LEMMA KaratsubaKeeps ==
  ASSUME NEW a, NEW b
  PROVE  Keeps(C!K!multiply(a, b), a)
<1>1. Keeps(C!K!multiplyKaratsubaRecursive(a, b), a)
  BY DEF Keeps, C!K!multiplyKaratsubaRecursive, C!K!D!Throws
<1>. QED  BY <1>1 DEF Keeps, C!K!multiply, C!K!D!Returns

(* An operation of the implementation without a throw returns.             *)
LEMMA TotalKeeps ==
  ASSUME NEW o, NEW n, NEW k
  PROVE  C!visitTotal(o, n, k).ok
  BY DEF C!visitTotal, C!visitImpl, C!D!Returns

(* *= that throws leaves the object as it was.                             *)
LEMMA TimesKeeps ==
  ASSUME NEW o, Selected(o), NEW n
  PROVE  Keeps(timesAssign(o, n), o)
<1>1. [o EXCEPT !.digits = o.digits] = o
  BY DEF Selected
<1>2. Keeps(C!multiply(o, n), o)
  BY <1>1, KaratsubaKeeps DEF Keeps, C!multiply, C!visitImpl, C!D!Returns
<1>. QED  BY <1>2 DEF Keeps, timesAssign, D!Returns

(* So do +=, /=, %= and the shifts.                                        *)
LEMMA CallsKeep ==
  ASSUME NEW o, Selected(o), NEW n, NEW same
  PROVE  /\ Keeps(plusAssign(o, n, same), o)
         /\ Keeps(overAssign(o, n), o) /\ Keeps(remAssign(o, n), o)
         /\ Keeps(shlAssign(o, n), o) /\ Keeps(shrAssign(o, n), o)
<1>1. Keeps(plusAssign(o, n, same), o)
  BY TotalKeeps DEF Keeps, plusAssign, C!add, D!Returns
<1>2. \A m : Keeps(overAssign(o, m), o) /\ Keeps(remAssign(o, m), o)
  BY DEF Keeps, overAssign, remAssign, movedIn, D!Returns, D!Throws
<1>3. Keeps(shlAssign(o, n), o)
  BY TotalKeeps DEF Keeps, shlAssign, C!shiftLeft, D!Returns, D!Throws
<1>4. Keeps(shrAssign(o, n), o)
  BY <1>2, TotalKeeps DEF Keeps, shrAssign, C!shiftRight, D!Returns, D!Throws
<1>. QED  BY <1>1, <1>2, <1>3, <1>4

(* A call that does not subtract and throws leaves the object as it was,   *)
(* in every state that a program can reach: +=, *= with either             *)
(* implementation, /=, %=, <<= and >>= (BigCardinal.h).                    *)
THEOREM StrongGuarantee == Spec => []ThrowsLeaveObject
<1>1. SelectedInv => ThrowsLeaveObject
  <2>. SUFFICES ASSUME SelectedInv, NEW x \in Objects,
                       NEW r \in Shifted(x) \cup UNION {Combined(x, y) : y \in Objects}
                PROVE  Keeps(r, obj[x])
    BY DEF ThrowsLeaveObject, Keeps
  <2>1. Selected(obj[x])
    BY DEF SelectedInv
  <2>2. \/ \E n \in Shifts : r = shlAssign(obj[x], n) \/ r = shrAssign(obj[x], n)
        \/ \E y \in Objects :
             \/ r = plusAssign(obj[x], obj[y], x = y)
             \/ r = timesAssign(obj[x], obj[y])
             \/ r = overAssign(obj[x], obj[y]) \/ r = remAssign(obj[x], obj[y])
    BY DEF Shifted, Combined
  <2>. QED  BY <2>1, <2>2, CallsKeep, TimesKeeps
<1>. QED  BY <1>1, SelectedAlways, PTL

-----------------------------------------------------------------------------
(* The instances of the naive implementation.                              *)

(* The core, the Karatsuba implementation and the powers of two each have  *)
(* their own instance of the naive implementation, with the same widths.   *)
(* Its operations are therefore the ones that BigNumberNaiveProofs is      *)
(* about. First the instance of the core.                                  *)
LEMMA CoreNaive ==
  /\ \A a, b : C!N!add(a, b) = NP!add(a, b)
  /\ \A a : C!N!addToItself(a) = NP!addToItself(a)
  /\ \A a, b : C!N!subtract(a, b) = NP!subtract(a, b)
  /\ \A a, b : C!N!multiply(a, b) = NP!multiply(a, b)
  /\ \A a, b, o : C!N!divide(a, b, o) = NP!divide(a, b, o)
  /\ \A a, b : C!N!compare(a, b) = NP!compare(a, b)
  /\ \A a, b : C!N!bitwiseAnd(a, b) = NP!bitwiseAnd(a, b)
  /\ \A a, b : C!N!bitwiseOr(a, b) = NP!bitwiseOr(a, b)
  /\ \A a, b : C!N!bitwiseXor(a, b) = NP!bitwiseXor(a, b)
  /\ \A a : C!N!bitwiseNot(a) = NP!bitwiseNot(a)
  /\ \A a, n : C!N!shiftLeft(a, n) = NP!shiftLeft(a, n)
  /\ \A a, n : C!N!shiftRight(a, n) = NP!shiftRight(a, n)
  /\ \A a : C!N!isZero(a) = NP!isZero(a)
  /\ \A a : C!N!isOne(a) = NP!isOne(a)
<1>1. \A a : C!N!normalize(a) = NP!normalize(a)
  BY DEF NP!normalize, NP!Max, C!N!normalize, C!N!Max
<1>2. \A a, d, i : C!N!addDigit(a, d, i) = NP!addDigit(a, d, i)
  BY DEF NP!addDigit, NP!put, NP!carried, NP!Positions, NP!D!add, NP!D!Base, NP!D!Bits, NP!FoldLeft,
    NP!MapThenFoldSet, NP!Max, C!N!addDigit, C!N!put, C!N!carried, C!N!Positions, C!N!D!add,
    C!N!D!Base, C!N!D!Bits, C!N!FoldLeft, C!N!MapThenFoldSet, C!N!Max
<1>3. \A a, b : C!N!add(a, b) = NP!add(a, b)
  BY <1>1, <1>2 DEF NP!add, NP!FoldLeftDomain, NP!FoldLeft, NP!MapThenFoldSet, NP!Max, C!N!add,
    C!N!FoldLeftDomain, C!N!FoldLeft, C!N!MapThenFoldSet, C!N!Max
<1>4. \A a : C!N!addToItself(a) = NP!addToItself(a)
  <2> TAKE a
  <2> DEFINE here == C!N!FoldLeft(LAMBDA v, i :
                  IF i > Len(v) THEN v ELSE C!N!addDigit(v, v[i], i), a, C!N!Positions(1, Len(a) + 1))
             there == NP!FoldLeft(LAMBDA v, i :
                  IF i > Len(v) THEN v ELSE NP!addDigit(v, v[i], i), a, NP!Positions(1, Len(a) + 1))
  <2>1. here = there
    BY <1>1, <1>2 DEF NP!Positions, NP!FoldLeft, NP!MapThenFoldSet, NP!Max, C!N!Positions,
      C!N!FoldLeft, C!N!MapThenFoldSet, C!N!Max
  <2>2. C!N!addToItself(a) = C!N!normalize(here)
    BY DEF C!N!addToItself
  <2>3. NP!addToItself(a) = NP!normalize(there)
    BY DEF NP!addToItself
  <2> HIDE DEF here, there
  <2> QED
    BY <2>1, <2>2, <2>3, <1>1, <1>2
<1>5. \A r : C!N!shortened(r) = NP!shortened(r)
  BY <1>1 DEF NP!shortened, C!N!shortened
<1>6. \A a, d, i : C!N!subtractDigit(a, d, i) = NP!subtractDigit(a, d, i)
  BY DEF NP!subtractDigit, NP!put, NP!borrowed, NP!Positions, NP!D!Throws, NP!D!sub, NP!D!Base,
    NP!D!Bits, NP!FoldLeft, NP!MapThenFoldSet, NP!Max, C!N!subtractDigit, C!N!put, C!N!borrowed,
    C!N!Positions, C!N!D!Throws, C!N!D!sub, C!N!D!Base, C!N!D!Bits, C!N!FoldLeft,
    C!N!MapThenFoldSet, C!N!Max
<1>7. \A a, b : C!N!subtract(a, b) = NP!subtract(a, b)
  <2> TAKE a, b
  <2> DEFINE here == C!N!FoldLeftDomain(LAMBDA s, i :
                  IF s.ok THEN C!N!subtractDigit(s.v, b[i], i) ELSE s, C!N!D!Returns(a), b)
             there == NP!FoldLeftDomain(LAMBDA s, i :
                  IF s.ok THEN NP!subtractDigit(s.v, b[i], i) ELSE s, NP!D!Returns(a), b)
  <2>1. here = there
    BY <1>5, <1>6 DEF NP!D!Returns, NP!FoldLeftDomain, NP!FoldLeft, NP!MapThenFoldSet, NP!Max,
      C!N!D!Returns, C!N!FoldLeftDomain, C!N!FoldLeft, C!N!MapThenFoldSet, C!N!Max
  <2>2. C!N!subtract(a, b) = C!N!shortened(here)
    BY DEF C!N!subtract
  <2>3. NP!subtract(a, b) = NP!shortened(there)
    BY DEF NP!subtract
  <2> HIDE DEF here, there
  <2> QED
    BY <2>1, <2>2, <2>3, <1>5, <1>6
<1>8. \A x, y, d, c : C!N!cell(x, y, d, c) = NP!cell(x, y, d, c)
  BY DEF NP!cell, NP!D!add, NP!D!mul, NP!D!Base, NP!D!Bits, C!N!cell, C!N!D!add, C!N!D!mul,
    C!N!D!Base, C!N!D!Bits
<1>9. \A s, i : C!N!rowEnd(s, i) = NP!rowEnd(s, i)
  BY <1>2 DEF NP!rowEnd, C!N!rowEnd
<1>10. \A p, a, d, i : C!N!row(p, a, d, i) = NP!row(p, a, d, i)
  <2> TAKE p, a, d, i
  <2> DEFINE here == C!N!FoldLeftDomain(LAMBDA s, k :
                  C!N!put(s, k + i - 1, C!N!cell(a[k], d, s.v[k + i - 1], s.c)), [v |-> p, c |-> 0], a)
             there == NP!FoldLeftDomain(LAMBDA s, k :
                  NP!put(s, k + i - 1, NP!cell(a[k], d, s.v[k + i - 1], s.c)), [v |-> p, c |-> 0], a)
  <2>1. here = there
    BY DEF NP!put, NP!cell, NP!D!add, NP!D!mul, NP!D!Base, NP!D!Bits, NP!FoldLeftDomain,
      NP!FoldLeft, NP!MapThenFoldSet, NP!Max, C!N!put, C!N!cell, C!N!D!add, C!N!D!mul, C!N!D!Base,
      C!N!D!Bits, C!N!FoldLeftDomain, C!N!FoldLeft, C!N!MapThenFoldSet, C!N!Max
  <2>2. C!N!row(p, a, d, i) = C!N!rowEnd(here, i + Len(a))
    BY DEF C!N!row
  <2>3. NP!row(p, a, d, i) = NP!rowEnd(there, i + Len(a))
    BY DEF NP!row
  <2> HIDE DEF here, there
  <2> QED
    BY <2>1, <2>2, <2>3, <1>8, <1>9
<1>11. \A a, b : C!N!multiply(a, b) = NP!multiply(a, b)
  <2> TAKE a, b
  <2> DEFINE here == C!N!FoldLeftDomain(LAMBDA p, k :
                  C!N!row(p, a, b[k], k), C!N!Zeros(Len(a) + Len(b)), b)
             there == NP!FoldLeftDomain(LAMBDA p, k :
                  NP!row(p, a, b[k], k), NP!Zeros(Len(a) + Len(b)), b)
  <2>1. here = there
    BY <1>10, <1>1 DEF NP!Zeros, NP!Zero, NP!FoldLeftDomain, NP!FoldLeft, NP!MapThenFoldSet, NP!Max,
      C!N!Zeros, C!N!Zero, C!N!FoldLeftDomain, C!N!FoldLeft, C!N!MapThenFoldSet, C!N!Max
  <2>2. C!N!multiply(a, b) = IF a = <<>> \/ b = <<>> THEN <<0>> ELSE C!N!normalize(here)
    BY DEF C!N!multiply, C!N!Zero
  <2>3. NP!multiply(a, b) = IF a = <<>> \/ b = <<>> THEN <<0>> ELSE NP!normalize(there)
    BY DEF NP!multiply, NP!Zero
  <2> HIDE DEF here, there
  <2> QED
    BY <2>1, <2>2, <2>3, <1>10, <1>1
<1>12. \A a : C!N!isZero(a) = NP!isZero(a)
  BY DEF NP!isZero, NP!Zero, C!N!isZero, C!N!Zero
<1>13. \A a : C!N!isOne(a) = NP!isOne(a)
  BY DEF NP!isOne, C!N!isOne
<1>14. \A a, b : C!N!compare(a, b) = NP!compare(a, b)
  BY DEF NP!compare, NP!Max, C!N!compare, C!N!Max
<1>15. \A q, t : C!N!trial(q, t) = NP!trial(q, t)
  BY DEF NP!trial, NP!D!Base, NP!D!Bits, C!N!trial, C!N!D!Base, C!N!D!Bits
<1>16. \A s : C!N!carried(s) = NP!carried(s)
  BY DEF NP!carried, C!N!carried
<1>17. \A b, q : C!N!timesDigit(b, q) = NP!timesDigit(b, q)
  <2> TAKE b, q
  <2> DEFINE here == C!N!FoldLeftDomain(LAMBDA s, k :
                  C!N!put(s, k, C!N!cell(b[k], q, 0, s.c)), [v |-> C!N!Zeros(Len(b)), c |-> 0], b)
             there == NP!FoldLeftDomain(LAMBDA s, k :
                  NP!put(s, k, NP!cell(b[k], q, 0, s.c)), [v |-> NP!Zeros(Len(b)), c |-> 0], b)
  <2>1. here = there
    BY DEF NP!put, NP!cell, NP!Zeros, NP!D!add, NP!D!mul, NP!D!Base, NP!D!Bits, NP!FoldLeftDomain,
      NP!FoldLeft, NP!MapThenFoldSet, NP!Max, C!N!put, C!N!cell, C!N!Zeros, C!N!D!add, C!N!D!mul,
      C!N!D!Base, C!N!D!Bits, C!N!FoldLeftDomain, C!N!FoldLeft, C!N!MapThenFoldSet, C!N!Max
  <2>2. C!N!timesDigit(b, q) = C!N!normalize(C!N!carried(here))
    BY DEF C!N!timesDigit
  <2>3. NP!timesDigit(b, q) = NP!normalize(NP!carried(there))
    BY DEF NP!timesDigit
  <2> HIDE DEF here, there
  <2> QED
    BY <2>1, <2>2, <2>3, <1>8, <1>1, <1>16
<1>18. \A i, b, q : C!N!productAt(i, b, q) = NP!productAt(i, b, q)
  BY <1>17 DEF NP!productAt, NP!Zeros, C!N!productAt, C!N!Zeros
<1>19. \A i, r, b, q : C!N!fitting(i, r, b, q) = NP!fitting(i, r, b, q)
  BY <1>15, <1>14, <1>18 DEF NP!fitting, NP!Attempts, C!N!fitting, C!N!Attempts
<1>20. \A i, s, b, q : C!N!taken(i, s, b, q) = NP!taken(i, s, b, q)
  BY <1>7, <1>18 DEF NP!taken, NP!subtracted, C!N!taken, C!N!subtracted
<1>21. \A i, s, b, q, f : C!N!firstOf(i, s, b, q, f) = NP!firstOf(i, s, b, q, f)
  BY <1>20, <1>15 DEF NP!firstOf, NP!Min, C!N!firstOf, C!N!Min
<1>22. \A i, s, b, q : C!N!attempts(i, s, b, q) = NP!attempts(i, s, b, q)
  BY <1>19, <1>21 DEF NP!attempts, C!N!attempts
<1>23. \A p, b : C!N!estimate(p, b) = NP!estimate(p, b)
  BY DEF NP!estimate, NP!Min, NP!D!Base, NP!D!Bits, C!N!estimate, C!N!Min, C!N!D!Base, C!N!D!Bits
<1>24. \A i, s, b, p : C!N!dividePart(i, s, b, p) = NP!dividePart(i, s, b, p)
  BY <1>14, <1>22, <1>23 DEF NP!dividePart, C!N!dividePart
<1>25. \A i, s, b : C!N!divideAt(i, s, b) = NP!divideAt(i, s, b)
  BY <1>24 DEF NP!divideAt, NP!Min, C!N!divideAt, C!N!Min
<1>26. \A s : C!N!finished(s) = NP!finished(s)
  BY <1>1 DEF NP!finished, NP!done, NP!pair, C!N!finished, C!N!done, C!N!pair
<1>27. \A a, b, n : C!N!longDivision(a, b, n) = NP!longDivision(a, b, n)
  <2> TAKE a, b, n
  <2> DEFINE P == NP!Positions(1, n)
             z == NP!done(NP!Zeros(n), a)
             here(f) == [s \in SUBSET DOMAIN P |->
                           IF s = {} THEN z
                           ELSE C!N!divideAt(P[NP!Min(s)], f[s \ {NP!Min(s)}], b)]
             there(f) == [s \in SUBSET DOMAIN P |->
                            IF s = {} THEN z
                            ELSE NP!divideAt(P[NP!Min(s)], f[s \ {NP!Min(s)}], b)]
             hereFold == CHOOSE f : f = here(f)
             thereFold == CHOOSE f : f = there(f)
  <2>1. \A f : here(f) = there(f)
    <3> HIDE DEF P, z
    <3> QED
      BY <1>25, Zenon
  <2>2. hereFold = thereFold
    <3> HIDE DEF here, there
    <3> QED
      BY <2>1, Zenon
  <2>3. C!N!longDivision(a, b, n) = C!N!finished(hereFold[DOMAIN P])
    BY DEF C!N!longDivision, C!N!FoldRight, C!N!MapThenFoldSet, C!N!Min, C!N!Positions, C!N!done, C!N!pair,
      C!N!Zeros, NP!Min, NP!Positions, NP!done, NP!pair, NP!Zeros
  <2>4. NP!longDivision(a, b, n) = NP!finished(thereFold[DOMAIN P])
    BY DEF NP!longDivision, NP!FoldRight, NP!MapThenFoldSet
  <2> HIDE DEF hereFold, thereFold, P
  <2> QED
    BY <2>2, <2>3, <2>4, <1>26
<1>28. \A a, b, o : C!N!divide(a, b, o) = NP!divide(a, b, o)
  BY <1>12, <1>13, <1>14, <1>27 DEF NP!divide, NP!done, NP!pair, NP!Zero, NP!Max, C!N!divide,
    C!N!done, C!N!pair, C!N!Zero, C!N!Max
<1>30. \A a, b : C!N!bitwiseAnd(a, b) = NP!bitwiseAnd(a, b)
  BY DEF NP!bitwiseAnd, NP!bitwise, NP!At, NP!normalize, NP!Max, C!N!bitwiseAnd, C!N!bitwise,
    C!N!At, C!N!normalize, C!N!Max, NP!D!BitAnd, NP!D!Number, NP!D!word, NP!D!FoldRight,
    NP!D!MapThenFoldSet, NP!D!Min, NP!D!getbit, NP!D!Bits, C!N!D!BitAnd, C!N!D!Number, C!N!D!word,
    C!N!D!FoldRight, C!N!D!MapThenFoldSet, C!N!D!Min, C!N!D!getbit, C!N!D!Bits
<1>32. \A a, b : C!N!bitwiseOr(a, b) = NP!bitwiseOr(a, b)
  BY DEF NP!bitwiseOr, NP!bitwise, NP!At, NP!normalize, NP!Max, C!N!bitwiseOr, C!N!bitwise,
    C!N!At, C!N!normalize, C!N!Max, NP!D!BitOr, NP!D!Number, NP!D!word, NP!D!FoldRight,
    NP!D!MapThenFoldSet, NP!D!Min, NP!D!getbit, NP!D!Bits, C!N!D!BitOr, C!N!D!Number, C!N!D!word,
    C!N!D!FoldRight, C!N!D!MapThenFoldSet, C!N!D!Min, C!N!D!getbit, C!N!D!Bits
<1>34. \A a, b : C!N!bitwiseXor(a, b) = NP!bitwiseXor(a, b)
  BY DEF NP!bitwiseXor, NP!bitwise, NP!At, NP!normalize, NP!Max, C!N!bitwiseXor, C!N!bitwise,
    C!N!At, C!N!normalize, C!N!Max, NP!D!BitXor, NP!D!Number, NP!D!word, NP!D!FoldRight,
    NP!D!MapThenFoldSet, NP!D!Min, NP!D!getbit, NP!D!Bits, C!N!D!BitXor, C!N!D!Number, C!N!D!word,
    C!N!D!FoldRight, C!N!D!MapThenFoldSet, C!N!D!Min, C!N!D!getbit, C!N!D!Bits
<1>35. \A x : C!N!D!BitNot(x) = NP!D!BitNot(x)
  BY DEF NP!D!BitNot, NP!D!Base, NP!D!Bits, C!N!D!BitNot, C!N!D!Base, C!N!D!Bits
<1>36. \A a : C!N!bitwiseNot(a) = NP!bitwiseNot(a)
  BY <1>35, <1>1 DEF NP!bitwiseNot, C!N!bitwiseNot
<1>37. \A a, m, n : C!N!shiftedUp(a, m, n) = NP!shiftedUp(a, m, n)
  <2> TAKE a, m, n
  <2> DEFINE here == C!N!FoldLeft(LAMBDA s, i :
                  C!N!put(s, i, [v |-> C!N!D!BitOr(C!N!D!shl(s.v[i], n).v, s.c),
                    ov |-> C!N!D!shl(s.v[i], n).ov]), [v |-> C!N!Zeros(m) \o a, c |-> 0],
                      C!N!Positions(m + 1, m + Len(a)))
             there == NP!FoldLeft(LAMBDA s, i :
                  NP!put(s, i, [v |-> NP!D!BitOr(NP!D!shl(s.v[i], n).v, s.c),
                    ov |-> NP!D!shl(s.v[i], n).ov]), [v |-> NP!Zeros(m) \o a, c |-> 0],
                      NP!Positions(m + 1, m + Len(a)))
  <2>1. here = there
    BY <1>16 DEF NP!D!Number, NP!D!word, NP!D!FoldRight, NP!D!MapThenFoldSet, NP!D!Min, NP!D!getbit,
      NP!D!Bits, NP!D!BitOr, NP!D!shl, NP!D!Base, NP!put, NP!Zeros, NP!Positions, NP!FoldLeft,
      NP!MapThenFoldSet, NP!Max, C!N!D!Number, C!N!D!word, C!N!D!FoldRight, C!N!D!MapThenFoldSet,
      C!N!D!Min, C!N!D!getbit, C!N!D!Bits, C!N!D!BitOr, C!N!D!shl, C!N!D!Base, C!N!put, C!N!Zeros,
      C!N!Positions, C!N!FoldLeft, C!N!MapThenFoldSet, C!N!Max
  <2>2. C!N!shiftedUp(a, m, n) = C!N!carried(here)
    BY DEF C!N!shiftedUp
  <2>3. NP!shiftedUp(a, m, n) = NP!carried(there)
    BY DEF NP!shiftedUp
  <2> HIDE DEF here, there
  <2> QED
    BY <2>1, <2>2, <2>3, <1>16
<1>38. \A n : C!N!digit_shift(n) = NP!digit_shift(n)
  BY DEF NP!digit_shift, NP!D!Bits, C!N!digit_shift, C!N!D!Bits
<1>39. \A n : C!N!bit_shift(n) = NP!bit_shift(n)
  BY DEF NP!bit_shift, NP!D!Bits, C!N!bit_shift, C!N!D!Bits
<1>40. \A a, n : C!N!shiftLeft(a, n) = NP!shiftLeft(a, n)
  BY <1>37, <1>1, <1>38, <1>39 DEF NP!shiftLeft, C!N!shiftLeft
<1>41. \A a, n : C!N!shiftedDown(a, n) = NP!shiftedDown(a, n)
  BY DEF NP!shiftedDown, NP!D!Number, NP!D!word, NP!D!FoldRight, NP!D!MapThenFoldSet, NP!D!Min,
    NP!D!getbit, NP!D!Bits, NP!D!BitOr, NP!D!shl, NP!D!shr, NP!D!Base, NP!Positions, NP!FoldRight,
    NP!MapThenFoldSet, NP!Min, C!N!shiftedDown, C!N!D!Number, C!N!D!word, C!N!D!FoldRight,
    C!N!D!MapThenFoldSet, C!N!D!Min, C!N!D!getbit, C!N!D!Bits, C!N!D!BitOr, C!N!D!shl, C!N!D!shr,
    C!N!D!Base, C!N!Positions, C!N!FoldRight, C!N!MapThenFoldSet, C!N!Min
<1>42. \A a, n : C!N!shiftRight(a, n) = NP!shiftRight(a, n)
  BY <1>41, <1>1, <1>38, <1>39 DEF NP!shiftRight, NP!Zero, C!N!shiftRight, C!N!Zero
<1> QED
  BY <1>3, <1>4, <1>7, <1>11, <1>28, <1>14, <1>30, <1>32, <1>34, <1>36, <1>40, <1>42, <1>12, <1>13

(* The naive implementation as the Karatsuba one calls it.                 *)
LEMMA KaratsubaNaive ==
  /\ \A a, b : C!K!N!add(a, b) = NP!add(a, b)
  /\ \A a : C!K!N!addToItself(a) = NP!addToItself(a)
  /\ \A a, b : C!K!N!subtract(a, b) = NP!subtract(a, b)
  /\ \A a, b : C!K!N!multiply(a, b) = NP!multiply(a, b)
  /\ \A a, b, o : C!K!N!divide(a, b, o) = NP!divide(a, b, o)
  /\ \A a, b : C!K!N!compare(a, b) = NP!compare(a, b)
  /\ \A a, b : C!K!N!bitwiseAnd(a, b) = NP!bitwiseAnd(a, b)
  /\ \A a, b : C!K!N!bitwiseOr(a, b) = NP!bitwiseOr(a, b)
  /\ \A a, b : C!K!N!bitwiseXor(a, b) = NP!bitwiseXor(a, b)
  /\ \A a : C!K!N!bitwiseNot(a) = NP!bitwiseNot(a)
  /\ \A a, n : C!K!N!shiftLeft(a, n) = NP!shiftLeft(a, n)
  /\ \A a, n : C!K!N!shiftRight(a, n) = NP!shiftRight(a, n)
  /\ \A a : C!K!N!isZero(a) = NP!isZero(a)
  /\ \A a : C!K!N!isOne(a) = NP!isOne(a)
  /\ \A a : C!K!N!normalize(a) = NP!normalize(a)
  /\ \A n : C!K!N!Zeros(n) = NP!Zeros(n)
<1>1. \A a : C!K!N!normalize(a) = NP!normalize(a)
  BY DEF NP!normalize, NP!Max, C!K!N!normalize, C!K!N!Max
<1>2. \A a, d, i : C!K!N!addDigit(a, d, i) = NP!addDigit(a, d, i)
  BY DEF NP!addDigit, NP!put, NP!carried, NP!Positions, NP!D!add, NP!D!Base, NP!D!Bits, NP!FoldLeft,
    NP!MapThenFoldSet, NP!Max, C!K!N!addDigit, C!K!N!put, C!K!N!carried, C!K!N!Positions,
    C!K!N!D!add, C!K!N!D!Base, C!K!N!D!Bits, C!K!N!FoldLeft, C!K!N!MapThenFoldSet, C!K!N!Max
<1>3. \A a, b : C!K!N!add(a, b) = NP!add(a, b)
  BY <1>1, <1>2 DEF NP!add, NP!FoldLeftDomain, NP!FoldLeft, NP!MapThenFoldSet, NP!Max, C!K!N!add,
    C!K!N!FoldLeftDomain, C!K!N!FoldLeft, C!K!N!MapThenFoldSet, C!K!N!Max
<1>4. \A a : C!K!N!addToItself(a) = NP!addToItself(a)
  <2> TAKE a
  <2> DEFINE here == C!K!N!FoldLeft(LAMBDA v, i :
                  IF i > Len(v) THEN v ELSE C!K!N!addDigit(v, v[i], i), a, C!K!N!Positions(1,
                    Len(a) + 1))
             there == NP!FoldLeft(LAMBDA v, i :
                  IF i > Len(v) THEN v ELSE NP!addDigit(v, v[i], i), a, NP!Positions(1, Len(a) + 1))
  <2>1. here = there
    BY <1>1, <1>2 DEF NP!Positions, NP!FoldLeft, NP!MapThenFoldSet, NP!Max, C!K!N!Positions,
      C!K!N!FoldLeft, C!K!N!MapThenFoldSet, C!K!N!Max
  <2>2. C!K!N!addToItself(a) = C!K!N!normalize(here)
    BY DEF C!K!N!addToItself
  <2>3. NP!addToItself(a) = NP!normalize(there)
    BY DEF NP!addToItself
  <2> HIDE DEF here, there
  <2> QED
    BY <2>1, <2>2, <2>3, <1>1, <1>2
<1>5. \A r : C!K!N!shortened(r) = NP!shortened(r)
  BY <1>1 DEF NP!shortened, C!K!N!shortened
<1>6. \A a, d, i : C!K!N!subtractDigit(a, d, i) = NP!subtractDigit(a, d, i)
  BY DEF NP!subtractDigit, NP!put, NP!borrowed, NP!Positions, NP!D!Throws, NP!D!sub, NP!D!Base,
    NP!D!Bits, NP!FoldLeft, NP!MapThenFoldSet, NP!Max, C!K!N!subtractDigit, C!K!N!put,
    C!K!N!borrowed, C!K!N!Positions, C!K!N!D!Throws, C!K!N!D!sub, C!K!N!D!Base, C!K!N!D!Bits,
    C!K!N!FoldLeft, C!K!N!MapThenFoldSet, C!K!N!Max
<1>7. \A a, b : C!K!N!subtract(a, b) = NP!subtract(a, b)
  <2> TAKE a, b
  <2> DEFINE here == C!K!N!FoldLeftDomain(LAMBDA s, i :
                  IF s.ok THEN C!K!N!subtractDigit(s.v, b[i], i) ELSE s, C!K!N!D!Returns(a), b)
             there == NP!FoldLeftDomain(LAMBDA s, i :
                  IF s.ok THEN NP!subtractDigit(s.v, b[i], i) ELSE s, NP!D!Returns(a), b)
  <2>1. here = there
    BY <1>5, <1>6 DEF NP!D!Returns, NP!FoldLeftDomain, NP!FoldLeft, NP!MapThenFoldSet, NP!Max,
      C!K!N!D!Returns, C!K!N!FoldLeftDomain, C!K!N!FoldLeft, C!K!N!MapThenFoldSet, C!K!N!Max
  <2>2. C!K!N!subtract(a, b) = C!K!N!shortened(here)
    BY DEF C!K!N!subtract
  <2>3. NP!subtract(a, b) = NP!shortened(there)
    BY DEF NP!subtract
  <2> HIDE DEF here, there
  <2> QED
    BY <2>1, <2>2, <2>3, <1>5, <1>6
<1>8. \A x, y, d, c : C!K!N!cell(x, y, d, c) = NP!cell(x, y, d, c)
  BY DEF NP!cell, NP!D!add, NP!D!mul, NP!D!Base, NP!D!Bits, C!K!N!cell, C!K!N!D!add, C!K!N!D!mul,
    C!K!N!D!Base, C!K!N!D!Bits
<1>9. \A s, i : C!K!N!rowEnd(s, i) = NP!rowEnd(s, i)
  BY <1>2 DEF NP!rowEnd, C!K!N!rowEnd
<1>10. \A p, a, d, i : C!K!N!row(p, a, d, i) = NP!row(p, a, d, i)
  <2> TAKE p, a, d, i
  <2> DEFINE here == C!K!N!FoldLeftDomain(LAMBDA s, k :
                  C!K!N!put(s, k + i - 1, C!K!N!cell(a[k], d, s.v[k + i - 1], s.c)), [v |-> p,
                    c |-> 0], a)
             there == NP!FoldLeftDomain(LAMBDA s, k :
                  NP!put(s, k + i - 1, NP!cell(a[k], d, s.v[k + i - 1], s.c)), [v |-> p, c |-> 0], a)
  <2>1. here = there
    BY DEF NP!put, NP!cell, NP!D!add, NP!D!mul, NP!D!Base, NP!D!Bits, NP!FoldLeftDomain,
      NP!FoldLeft, NP!MapThenFoldSet, NP!Max, C!K!N!put, C!K!N!cell, C!K!N!D!add, C!K!N!D!mul,
      C!K!N!D!Base, C!K!N!D!Bits, C!K!N!FoldLeftDomain, C!K!N!FoldLeft, C!K!N!MapThenFoldSet, C!K!N!Max
  <2>2. C!K!N!row(p, a, d, i) = C!K!N!rowEnd(here, i + Len(a))
    BY DEF C!K!N!row
  <2>3. NP!row(p, a, d, i) = NP!rowEnd(there, i + Len(a))
    BY DEF NP!row
  <2> HIDE DEF here, there
  <2> QED
    BY <2>1, <2>2, <2>3, <1>8, <1>9
<1>11. \A a, b : C!K!N!multiply(a, b) = NP!multiply(a, b)
  <2> TAKE a, b
  <2> DEFINE here == C!K!N!FoldLeftDomain(LAMBDA p, k :
                  C!K!N!row(p, a, b[k], k), C!K!N!Zeros(Len(a) + Len(b)), b)
             there == NP!FoldLeftDomain(LAMBDA p, k :
                  NP!row(p, a, b[k], k), NP!Zeros(Len(a) + Len(b)), b)
  <2>1. here = there
    BY <1>10, <1>1 DEF NP!Zeros, NP!Zero, NP!FoldLeftDomain, NP!FoldLeft, NP!MapThenFoldSet, NP!Max,
      C!K!N!Zeros, C!K!N!Zero, C!K!N!FoldLeftDomain, C!K!N!FoldLeft, C!K!N!MapThenFoldSet, C!K!N!Max
  <2>2. C!K!N!multiply(a, b) = IF a = <<>> \/ b = <<>> THEN <<0>> ELSE C!K!N!normalize(here)
    BY DEF C!K!N!multiply, C!K!N!Zero
  <2>3. NP!multiply(a, b) = IF a = <<>> \/ b = <<>> THEN <<0>> ELSE NP!normalize(there)
    BY DEF NP!multiply, NP!Zero
  <2> HIDE DEF here, there
  <2> QED
    BY <2>1, <2>2, <2>3, <1>10, <1>1
<1>12. \A a : C!K!N!isZero(a) = NP!isZero(a)
  BY DEF NP!isZero, NP!Zero, C!K!N!isZero, C!K!N!Zero
<1>13. \A a : C!K!N!isOne(a) = NP!isOne(a)
  BY DEF NP!isOne, C!K!N!isOne
<1>14. \A a, b : C!K!N!compare(a, b) = NP!compare(a, b)
  BY DEF NP!compare, NP!Max, C!K!N!compare, C!K!N!Max
<1>15. \A q, t : C!K!N!trial(q, t) = NP!trial(q, t)
  BY DEF NP!trial, NP!D!Base, NP!D!Bits, C!K!N!trial, C!K!N!D!Base, C!K!N!D!Bits
<1>16. \A s : C!K!N!carried(s) = NP!carried(s)
  BY DEF NP!carried, C!K!N!carried
<1>17. \A b, q : C!K!N!timesDigit(b, q) = NP!timesDigit(b, q)
  <2> TAKE b, q
  <2> DEFINE here == C!K!N!FoldLeftDomain(LAMBDA s, k :
                  C!K!N!put(s, k, C!K!N!cell(b[k], q, 0, s.c)), [v |-> C!K!N!Zeros(Len(b)), c |-> 0], b)
             there == NP!FoldLeftDomain(LAMBDA s, k :
                  NP!put(s, k, NP!cell(b[k], q, 0, s.c)), [v |-> NP!Zeros(Len(b)), c |-> 0], b)
  <2>1. here = there
    BY DEF NP!put, NP!cell, NP!Zeros, NP!D!add, NP!D!mul, NP!D!Base, NP!D!Bits, NP!FoldLeftDomain,
      NP!FoldLeft, NP!MapThenFoldSet, NP!Max, C!K!N!put, C!K!N!cell, C!K!N!Zeros, C!K!N!D!add,
      C!K!N!D!mul, C!K!N!D!Base, C!K!N!D!Bits, C!K!N!FoldLeftDomain, C!K!N!FoldLeft,
      C!K!N!MapThenFoldSet, C!K!N!Max
  <2>2. C!K!N!timesDigit(b, q) = C!K!N!normalize(C!K!N!carried(here))
    BY DEF C!K!N!timesDigit
  <2>3. NP!timesDigit(b, q) = NP!normalize(NP!carried(there))
    BY DEF NP!timesDigit
  <2> HIDE DEF here, there
  <2> QED
    BY <2>1, <2>2, <2>3, <1>8, <1>1, <1>16
<1>18. \A i, b, q : C!K!N!productAt(i, b, q) = NP!productAt(i, b, q)
  BY <1>17 DEF NP!productAt, NP!Zeros, C!K!N!productAt, C!K!N!Zeros
<1>19. \A i, r, b, q : C!K!N!fitting(i, r, b, q) = NP!fitting(i, r, b, q)
  BY <1>15, <1>14, <1>18 DEF NP!fitting, NP!Attempts, C!K!N!fitting, C!K!N!Attempts
<1>20. \A i, s, b, q : C!K!N!taken(i, s, b, q) = NP!taken(i, s, b, q)
  BY <1>7, <1>18 DEF NP!taken, NP!subtracted, C!K!N!taken, C!K!N!subtracted
<1>21. \A i, s, b, q, f : C!K!N!firstOf(i, s, b, q, f) = NP!firstOf(i, s, b, q, f)
  BY <1>20, <1>15 DEF NP!firstOf, NP!Min, C!K!N!firstOf, C!K!N!Min
<1>22. \A i, s, b, q : C!K!N!attempts(i, s, b, q) = NP!attempts(i, s, b, q)
  BY <1>19, <1>21 DEF NP!attempts, C!K!N!attempts
<1>23. \A p, b : C!K!N!estimate(p, b) = NP!estimate(p, b)
  BY DEF NP!estimate, NP!Min, NP!D!Base, NP!D!Bits, C!K!N!estimate, C!K!N!Min, C!K!N!D!Base,
    C!K!N!D!Bits
<1>24. \A i, s, b, p : C!K!N!dividePart(i, s, b, p) = NP!dividePart(i, s, b, p)
  BY <1>14, <1>22, <1>23 DEF NP!dividePart, C!K!N!dividePart
<1>25. \A i, s, b : C!K!N!divideAt(i, s, b) = NP!divideAt(i, s, b)
  BY <1>24 DEF NP!divideAt, NP!Min, C!K!N!divideAt, C!K!N!Min
<1>26. \A s : C!K!N!finished(s) = NP!finished(s)
  BY <1>1 DEF NP!finished, NP!done, NP!pair, C!K!N!finished, C!K!N!done, C!K!N!pair
<1>27. \A a, b, n : C!K!N!longDivision(a, b, n) = NP!longDivision(a, b, n)
  <2> TAKE a, b, n
  <2> DEFINE P == NP!Positions(1, n)
             z == NP!done(NP!Zeros(n), a)
             here(f) == [s \in SUBSET DOMAIN P |->
                           IF s = {} THEN z
                           ELSE C!K!N!divideAt(P[NP!Min(s)], f[s \ {NP!Min(s)}], b)]
             there(f) == [s \in SUBSET DOMAIN P |->
                            IF s = {} THEN z
                            ELSE NP!divideAt(P[NP!Min(s)], f[s \ {NP!Min(s)}], b)]
             hereFold == CHOOSE f : f = here(f)
             thereFold == CHOOSE f : f = there(f)
  <2>1. \A f : here(f) = there(f)
    <3> HIDE DEF P, z
    <3> QED
      BY <1>25, Zenon
  <2>2. hereFold = thereFold
    <3> HIDE DEF here, there
    <3> QED
      BY <2>1, Zenon
  <2>3. C!K!N!longDivision(a, b, n) = C!K!N!finished(hereFold[DOMAIN P])
    BY DEF C!K!N!longDivision, C!K!N!FoldRight, C!K!N!MapThenFoldSet, C!K!N!Min, C!K!N!Positions, C!K!N!done, C!K!N!pair,
      C!K!N!Zeros, NP!Min, NP!Positions, NP!done, NP!pair, NP!Zeros
  <2>4. NP!longDivision(a, b, n) = NP!finished(thereFold[DOMAIN P])
    BY DEF NP!longDivision, NP!FoldRight, NP!MapThenFoldSet
  <2> HIDE DEF hereFold, thereFold, P
  <2> QED
    BY <2>2, <2>3, <2>4, <1>26
<1>28. \A a, b, o : C!K!N!divide(a, b, o) = NP!divide(a, b, o)
  BY <1>12, <1>13, <1>14, <1>27 DEF NP!divide, NP!done, NP!pair, NP!Zero, NP!Max, C!K!N!divide,
    C!K!N!done, C!K!N!pair, C!K!N!Zero, C!K!N!Max
<1>30. \A a, b : C!K!N!bitwiseAnd(a, b) = NP!bitwiseAnd(a, b)
  BY DEF NP!bitwiseAnd, NP!bitwise, NP!At, NP!normalize, NP!Max, C!K!N!bitwiseAnd, C!K!N!bitwise,
    C!K!N!At, C!K!N!normalize, C!K!N!Max, NP!D!BitAnd, NP!D!Number, NP!D!word, NP!D!FoldRight,
    NP!D!MapThenFoldSet, NP!D!Min, NP!D!getbit, NP!D!Bits, C!K!N!D!BitAnd, C!K!N!D!Number,
    C!K!N!D!word, C!K!N!D!FoldRight, C!K!N!D!MapThenFoldSet, C!K!N!D!Min, C!K!N!D!getbit,
    C!K!N!D!Bits
<1>32. \A a, b : C!K!N!bitwiseOr(a, b) = NP!bitwiseOr(a, b)
  BY DEF NP!bitwiseOr, NP!bitwise, NP!At, NP!normalize, NP!Max, C!K!N!bitwiseOr, C!K!N!bitwise,
    C!K!N!At, C!K!N!normalize, C!K!N!Max, NP!D!BitOr, NP!D!Number, NP!D!word, NP!D!FoldRight,
    NP!D!MapThenFoldSet, NP!D!Min, NP!D!getbit, NP!D!Bits, C!K!N!D!BitOr, C!K!N!D!Number,
    C!K!N!D!word, C!K!N!D!FoldRight, C!K!N!D!MapThenFoldSet, C!K!N!D!Min, C!K!N!D!getbit,
    C!K!N!D!Bits
<1>34. \A a, b : C!K!N!bitwiseXor(a, b) = NP!bitwiseXor(a, b)
  BY DEF NP!bitwiseXor, NP!bitwise, NP!At, NP!normalize, NP!Max, C!K!N!bitwiseXor, C!K!N!bitwise,
    C!K!N!At, C!K!N!normalize, C!K!N!Max, NP!D!BitXor, NP!D!Number, NP!D!word, NP!D!FoldRight,
    NP!D!MapThenFoldSet, NP!D!Min, NP!D!getbit, NP!D!Bits, C!K!N!D!BitXor, C!K!N!D!Number,
    C!K!N!D!word, C!K!N!D!FoldRight, C!K!N!D!MapThenFoldSet, C!K!N!D!Min, C!K!N!D!getbit,
    C!K!N!D!Bits
<1>35. \A x : C!K!N!D!BitNot(x) = NP!D!BitNot(x)
  BY DEF NP!D!BitNot, NP!D!Base, NP!D!Bits, C!K!N!D!BitNot, C!K!N!D!Base, C!K!N!D!Bits
<1>36. \A a : C!K!N!bitwiseNot(a) = NP!bitwiseNot(a)
  BY <1>35, <1>1 DEF NP!bitwiseNot, C!K!N!bitwiseNot
<1>37. \A a, m, n : C!K!N!shiftedUp(a, m, n) = NP!shiftedUp(a, m, n)
  <2> TAKE a, m, n
  <2> DEFINE here == C!K!N!FoldLeft(LAMBDA s, i :
                  C!K!N!put(s, i, [v |-> C!K!N!D!BitOr(C!K!N!D!shl(s.v[i], n).v, s.c),
                    ov |-> C!K!N!D!shl(s.v[i], n).ov]), [v |-> C!K!N!Zeros(m) \o a, c |-> 0],
                      C!K!N!Positions(m + 1, m + Len(a)))
             there == NP!FoldLeft(LAMBDA s, i :
                  NP!put(s, i, [v |-> NP!D!BitOr(NP!D!shl(s.v[i], n).v, s.c),
                    ov |-> NP!D!shl(s.v[i], n).ov]), [v |-> NP!Zeros(m) \o a, c |-> 0],
                      NP!Positions(m + 1, m + Len(a)))
  <2>1. here = there
    BY <1>16 DEF NP!D!Number, NP!D!word, NP!D!FoldRight, NP!D!MapThenFoldSet, NP!D!Min, NP!D!getbit,
      NP!D!Bits, NP!D!BitOr, NP!D!shl, NP!D!Base, NP!put, NP!Zeros, NP!Positions, NP!FoldLeft,
      NP!MapThenFoldSet, NP!Max, C!K!N!D!Number, C!K!N!D!word, C!K!N!D!FoldRight,
      C!K!N!D!MapThenFoldSet, C!K!N!D!Min, C!K!N!D!getbit, C!K!N!D!Bits, C!K!N!D!BitOr, C!K!N!D!shl,
      C!K!N!D!Base, C!K!N!put, C!K!N!Zeros, C!K!N!Positions, C!K!N!FoldLeft, C!K!N!MapThenFoldSet,
      C!K!N!Max
  <2>2. C!K!N!shiftedUp(a, m, n) = C!K!N!carried(here)
    BY DEF C!K!N!shiftedUp
  <2>3. NP!shiftedUp(a, m, n) = NP!carried(there)
    BY DEF NP!shiftedUp
  <2> HIDE DEF here, there
  <2> QED
    BY <2>1, <2>2, <2>3, <1>16
<1>38. \A n : C!K!N!digit_shift(n) = NP!digit_shift(n)
  BY DEF NP!digit_shift, NP!D!Bits, C!K!N!digit_shift, C!K!N!D!Bits
<1>39. \A n : C!K!N!bit_shift(n) = NP!bit_shift(n)
  BY DEF NP!bit_shift, NP!D!Bits, C!K!N!bit_shift, C!K!N!D!Bits
<1>40. \A a, n : C!K!N!shiftLeft(a, n) = NP!shiftLeft(a, n)
  BY <1>37, <1>1, <1>38, <1>39 DEF NP!shiftLeft, C!K!N!shiftLeft
<1>41. \A a, n : C!K!N!shiftedDown(a, n) = NP!shiftedDown(a, n)
  BY DEF NP!shiftedDown, NP!D!Number, NP!D!word, NP!D!FoldRight, NP!D!MapThenFoldSet, NP!D!Min,
    NP!D!getbit, NP!D!Bits, NP!D!BitOr, NP!D!shl, NP!D!shr, NP!D!Base, NP!Positions, NP!FoldRight,
    NP!MapThenFoldSet, NP!Min, C!K!N!shiftedDown, C!K!N!D!Number, C!K!N!D!word, C!K!N!D!FoldRight,
    C!K!N!D!MapThenFoldSet, C!K!N!D!Min, C!K!N!D!getbit, C!K!N!D!Bits, C!K!N!D!BitOr, C!K!N!D!shl,
    C!K!N!D!shr, C!K!N!D!Base, C!K!N!Positions, C!K!N!FoldRight, C!K!N!MapThenFoldSet, C!K!N!Min
<1>42. \A a, n : C!K!N!shiftRight(a, n) = NP!shiftRight(a, n)
  BY <1>41, <1>1, <1>38, <1>39 DEF NP!shiftRight, NP!Zero, C!K!N!shiftRight, C!K!N!Zero
<1>43. \A n : C!K!N!Zeros(n) = NP!Zeros(n)
  BY DEF NP!Zeros, C!K!N!Zeros
<1> QED
  BY <1>3, <1>4, <1>7, <1>11, <1>28, <1>14, <1>30, <1>32, <1>34, <1>36, <1>40, <1>42, <1>12, <1>13,
    <1>1, <1>43

(* The naive implementation as the powers of two use it.                   *)
LEMMA MathNaive ==
  /\ \A a, b : M!N!add(a, b) = NP!add(a, b)
  /\ \A a, b : M!N!compare(a, b) = NP!compare(a, b)
<1>1. \A a : M!N!normalize(a) = NP!normalize(a)
  BY DEF NP!normalize, NP!Max, M!N!normalize, M!N!Max
<1>2. \A a, d, i : M!N!addDigit(a, d, i) = NP!addDigit(a, d, i)
  BY DEF NP!addDigit, NP!put, NP!carried, NP!Positions, NP!D!add, NP!D!Base, NP!D!Bits, NP!FoldLeft,
    NP!MapThenFoldSet, NP!Max, M!N!addDigit, M!N!put, M!N!carried, M!N!Positions, M!N!D!add,
    M!N!D!Base, M!N!D!Bits, M!N!FoldLeft, M!N!MapThenFoldSet, M!N!Max
<1>3. \A a, b : M!N!add(a, b) = NP!add(a, b)
  BY <1>1, <1>2 DEF NP!add, NP!FoldLeftDomain, NP!FoldLeft, NP!MapThenFoldSet, NP!Max, M!N!add,
    M!N!FoldLeftDomain, M!N!FoldLeft, M!N!MapThenFoldSet, M!N!Max
<1>4. \A a, b : M!N!compare(a, b) = NP!compare(a, b)
  BY DEF NP!compare, NP!Max, M!N!compare, M!N!Max
<1> QED
  BY <1>3, <1>4

(* And the one that the properties are stated with.                        *)
LEMMA OwnNaive ==
  /\ \A a : N!normalize(a) = NP!normalize(a)
  /\ \A a : N!isZero(a) = NP!isZero(a)
  /\ \A a, i : N!At(a, i) = NP!At(a, i)
<1>1. \A a : N!normalize(a) = NP!normalize(a)
  BY DEF NP!normalize, NP!Max, N!normalize, N!Max
<1>2. \A a : N!isZero(a) = NP!isZero(a)
  BY DEF NP!isZero, NP!Zero, N!isZero, N!Zero
<1>3. \A a, i : N!At(a, i) = NP!At(a, i)
  BY DEF NP!At, N!At
<1> QED
  BY <1>1, <1>2, <1>3

(* What ObjectsAssumption says of the widths and the threshold.            *)
LEMMA WidthFacts ==
  /\ NP!D!Base \in Nat /\ NP!D!Base > 2 /\ NP!D!Bits \in Nat
  /\ D!Base = NP!D!Base /\ D!Bits = NP!D!Bits
  /\ D!digit = NP!D!digit /\ C!K!D!digit = NP!D!digit /\ M!D!digit = NP!D!digit
  /\ Threshold \in Nat /\ Threshold >= 4
<1>1. D!Bits \in Nat /\ D!Base \in Nat /\ D!Base > 2 /\ Threshold \in Nat /\ Threshold >= 4
  BY ObjectsAssumption DEF D!Widths, D!Bits, D!Base
<1>2. D!Base = NP!D!Base /\ D!Bits = NP!D!Bits
  BY DEF D!Base, NP!D!Base, D!Bits, NP!D!Bits
<1>3. D!digit = NP!D!digit /\ C!K!D!digit = NP!D!digit /\ M!D!digit = NP!D!digit
  BY DEF D!digit, C!K!D!digit, M!D!digit, NP!D!digit, D!Base, C!K!D!Base, M!D!Base, NP!D!Base,
         D!Bits, C!K!D!Bits, M!D!Bits, NP!D!Bits
<1> QED
  BY <1>1, <1>2, <1>3

(* The digits that an object may hold are those of BigNumberNaiveProofs,   *)
(* and so is normal form.                                                  *)
LEMMA VectorsAre ==
  /\ NP!Vectors = Seq(D!digit) \ {<<>>} /\ M!Numbers = NP!Vectors
  /\ NP!Vectors \subseteq Seq(NP!D!digit)
  /\ \A a \in NP!Vectors : Normal(a) <=> a \in NP!Normals
  /\ NP!Normals \subseteq NP!Vectors
<1>1. /\ NP!Vectors = Seq(D!digit) \ {<<>>} /\ M!Numbers = NP!Vectors
      /\ NP!Vectors \subseteq Seq(NP!D!digit)
  BY WidthFacts DEF NP!Vectors, M!Numbers
<1>2. \A a \in NP!Vectors : Normal(a) <=> a \in NP!Normals
  BY OwnNaive DEF NP!Normals, Normal
<1>3. NP!Normals \subseteq NP!Vectors
  BY DEF NP!Normals
<1> QED
  BY <1>1, <1>2, <1>3

(* So is the number of a vector.                                           *)
LEMMA ValueIs ==
  /\ \A a : Value(a) = NP!Value(a)
  /\ Value(<<0>>) = 0 /\ Value(<<1>>) = 1
  /\ \A a \in NP!Vectors : Value(a) \in Nat
  /\ <<0>> \in NP!Normals /\ <<1>> \in NP!Normals /\ <<0>> \in NP!Vectors /\ <<1>> \in NP!Vectors
<1>1. \A a : Value(a) = NP!Value(a)
  BY WidthFacts DEF NP!Value, Value, NP!FoldRight, FoldRight, NP!MapThenFoldSet, MapThenFoldSet,
    NP!Min, Min
<1>2. <<0>> \in NP!Normals /\ <<1>> \in NP!Normals
  BY WidthFacts, NP!ZeroNormal DEF NP!Zero
<1>3. \A a \in NP!Vectors : NP!Value(a) \in Nat
  <2> TAKE a \in NP!Vectors
  <2>1. a \in Seq(NP!D!digit)
    BY VectorsAre
  <2> QED
    BY <2>1, WidthFacts, NP!VectorSeq, NP!PartsOf
<1>4. NP!Value(<<0>>) = 0 /\ NP!Value(<<1>>) = 1
  BY WidthFacts, NP!DigitNat, NP!OneDigit
<1> QED
  BY <1>1, <1>2, <1>3, <1>4, VectorsAre

-----------------------------------------------------------------------------
(* Karatsuba's recursion.                                                  *)

(* What Karatsuba's recursion returns: a vector, normal unless it threw.   *)
(* It works on pairs of vectors, and a pair ranks by its longer vector,    *)
(* above the pair turned round when the second is the longer one: product  *)
(* turns such a pair first.                                                *)
Products == {r \in [ok : BOOLEAN, v : NP!Vectors] : r.ok => r.v \in NP!Normals}
Pairs == Seq(NP!D!digit) \X Seq(NP!D!digit)
Rank == [p \in Pairs |-> IF Len(p[1]) < Len(p[2]) THEN 2 * Len(p[2]) + 1 ELSE 2 * Len(p[1])]

(* The results that are made directly.                                     *)
LEMMA ProductsMade ==
  ASSUME NEW v \in NP!Vectors
  PROVE  /\ C!K!D!Throws(v) \in Products
         /\ v \in NP!Normals => C!K!D!Returns(v) \in Products
  BY DEF Products, C!K!D!Throws, C!K!D!Returns

(* The halves of a vector.                                                 *)
LEMMA SplitVectors ==
  ASSUME NEW a \in NP!Vectors, NEW m \in Nat, 0 < m, m < Len(a)
  PROVE  LET s == C!K!splitAt(a, m)
         IN  /\ s.low \in NP!Vectors /\ Len(s.low) <= m
             /\ s.high \in NP!Vectors /\ Len(s.high) <= Len(a) - m
<1> DEFINE l == SubSeq(a, 1, m)
           h == SubSeq(a, m + 1, Len(a))
<1>1. a \in Seq(NP!D!digit) /\ Len(a) \in Nat
  BY VectorsAre
<1>2. l \in Seq(NP!D!digit) /\ Len(l) = m /\ h \in Seq(NP!D!digit) /\ Len(h) = Len(a) - m
  BY <1>1
<1>3. C!K!splitAt(a, m) = [low |-> C!K!N!normalize(l), high |-> C!K!N!normalize(h)]
  BY <1>1 DEF C!K!splitAt
<1> HIDE DEF l, h
<1>4. l \in NP!Vectors /\ h \in NP!Vectors
  BY <1>1, <1>2 DEF NP!Vectors
<1>5. C!K!splitAt(a, m) = [low |-> NP!normalize(l), high |-> NP!normalize(h)]
  BY <1>3, KaratsubaNaive
<1>6. /\ NP!normalize(l) \in NP!Normals /\ Len(NP!normalize(l)) <= Len(l)
      /\ NP!normalize(h) \in NP!Normals /\ Len(NP!normalize(h)) <= Len(h)
  BY <1>4, WidthFacts, NP!NormalizeLength
<1> QED
  BY <1>2, <1>5, <1>6, VectorsAre

(* The three products joined: the subtractions may throw, the sums may     *)
(* not.                                                                    *)
LEMMA JoinedVectors ==
  ASSUME NEW z0 \in Products, NEW z1 \in Products, NEW z2 \in Products, NEW m \in Nat
  PROVE  C!K!joined(z0, z2, z1, m) \in Products
<1>1. /\ z0.v \in NP!Vectors /\ z1.v \in NP!Vectors /\ z2.v \in NP!Vectors
  BY DEF Products
<1>2. ASSUME NEW x \in NP!Vectors, NEW y \in NP!Vectors
      PROVE  C!K!N!subtract(x, y).v \in NP!Vectors /\ C!K!N!add(x, y) \in NP!Vectors
  <2>1. x \in Seq(NP!D!digit) /\ x # <<>> /\ y \in Seq(NP!D!digit)
    BY VectorsAre
  <2>2. NP!subtract(x, y).v \in Seq(NP!D!digit) /\ NP!subtract(x, y).v # <<>>
    BY <2>1, WidthFacts, NP!NaiveSubtractExact
  <2>3. NP!add(x, y) \in Seq(NP!D!digit) /\ NP!add(x, y) # <<>>
    BY <2>1, WidthFacts, NP!NaiveAddExact
  <2>4. C!K!N!subtract(x, y) = NP!subtract(x, y) /\ C!K!N!add(x, y) = NP!add(x, y)
    BY KaratsubaNaive
  <2> QED
    BY <2>2, <2>3, <2>4 DEF NP!Vectors
<1>3. ASSUME NEW x \in NP!Vectors, NEW y \in NP!Vectors, NEW z \in NP!Vectors
      PROVE  C!K!combine(x, y, z, m) \in NP!Normals
  <2> DEFINE p == C!K!N!Zeros(2 * m) \o z
             q == C!K!N!Zeros(m) \o y
  <2>1. p \in NP!Vectors /\ q \in NP!Vectors
    <3>1. 2 * m \in Nat
      OBVIOUS
    <3>2. C!K!N!Zeros(2 * m) = NP!Zeros(2 * m) /\ C!K!N!Zeros(m) = NP!Zeros(m)
      BY KaratsubaNaive
    <3> QED
      BY <3>1, <3>2, WidthFacts, NP!JoinVectors
  <2>2. C!K!combine(x, y, z, m) = C!K!N!normalize(C!K!N!add(C!K!N!add(p, q), x))
    BY DEF C!K!combine
  <2> HIDE DEF p, q
  <2> DEFINE s == C!K!N!add(C!K!N!add(p, q), x)
  <2>3. s \in NP!Vectors
    BY <1>2, <2>1
  <2> HIDE DEF s
  <2>4. NP!normalize(s) \in NP!Normals
    BY <2>3, WidthFacts, NP!NormalizeLength
  <2> QED
    BY <2>2, <2>4, KaratsubaNaive DEF s
<1>4. ASSUME NEW x \in NP!Vectors, NEW z \in NP!Vectors, NEW r, r.v \in NP!Vectors
      PROVE  C!K!less2(x, z, m, r) \in Products
  BY <1>3, <1>4, ProductsMade, VectorsAre DEF C!K!less2
<1>5. ASSUME NEW x \in NP!Vectors, NEW z \in NP!Vectors, NEW r, r.v \in NP!Vectors
      PROVE  C!K!less0(x, z, m, r) \in Products
  BY <1>2, <1>4, <1>5, ProductsMade DEF C!K!less0
<1> QED
  BY <1>1, <1>2, <1>5, ProductsMade DEF C!K!joined

(* The second vector is split where the first one is, if it reaches.       *)
Second(b, m) == IF Len(b) <= m THEN [low |-> b, high |-> C!K!N!Zero] ELSE C!K!splitAt(b, m)

(* The rank of a pair.                                                     *)
LEMMA PairRank ==
  ASSUME NEW x \in Seq(NP!D!digit), NEW y \in Seq(NP!D!digit)
  PROVE  /\ <<x, y>> \in Pairs /\ <<x, y>>[1] = x /\ <<x, y>>[2] = y
         /\ Rank[<<x, y>>] = IF Len(x) < Len(y) THEN 2 * Len(y) + 1 ELSE 2 * Len(x)
         /\ Rank[<<x, y>>] \in Nat /\ Len(x) \in Nat /\ Len(y) \in Nat
<1>1. <<x, y>> \in Pairs /\ Len(x) \in Nat /\ Len(y) \in Nat
  BY DEF Pairs
<1>2. Rank[<<x, y>>] = IF Len(x) < Len(y) THEN 2 * Len(y) + 1 ELSE 2 * Len(x)
  BY <1>1 DEF Rank
<1> QED
  BY <1>1, <1>2

(* A pair of shorter vectors ranks lower.                                  *)
LEMMA RankBelow ==
  ASSUME NEW x \in Seq(NP!D!digit), NEW y \in Seq(NP!D!digit), NEW a \in Seq(NP!D!digit),
         NEW b \in Seq(NP!D!digit), Len(b) <= Len(a), Len(x) < Len(a), Len(y) < Len(a)
  PROVE  Rank[<<x, y>>] < Rank[<<a, b>>]
<1>1. Rank[<<x, y>>] = IF Len(x) < Len(y) THEN 2 * Len(y) + 1 ELSE 2 * Len(x)
  BY PairRank
<1>2. Rank[<<a, b>>] = IF Len(a) < Len(b) THEN 2 * Len(b) + 1 ELSE 2 * Len(a)
  BY PairRank
<1>3. Len(x) \in Nat /\ Len(y) \in Nat /\ Len(a) \in Nat /\ Len(b) \in Nat
  OBVIOUS
<1> QED
  BY <1>1, <1>2, <1>3

(* The three pairs that Karatsuba multiplies rank below the pair it        *)
(* splits, the one of the sums included, which a carry makes longer than   *)
(* the halves: this needs a threshold of 4 or more.                        *)
LEMMA HalvesShorter ==
  ASSUME NEW a \in Seq(NP!D!digit), NEW b \in Seq(NP!D!digit), Threshold <= Len(a),
         Threshold <= Len(b), Len(b) <= Len(a)
  PROVE  LET m == (Len(a) + 1) \div 2
             sa == C!K!splitAt(a, m)
             sb == Second(b, m)
             low == <<sa.low, sb.low>>
             high == <<sa.high, sb.high>>
             sum == <<C!K!N!add(sa.low, sa.high), C!K!N!add(sb.low, sb.high)>>
         IN  /\ m \in Nat
             /\ low \in Pairs /\ Rank[low] < Rank[<<a, b>>]
             /\ high \in Pairs /\ Rank[high] < Rank[<<a, b>>]
             /\ sum \in Pairs /\ Rank[sum] < Rank[<<a, b>>]
<1> DEFINE n == Len(a)
           m == (n + 1) \div 2
           sa == C!K!splitAt(a, m)
           sb == Second(b, m)
           s == C!K!N!add(sa.low, sa.high)
           t == C!K!N!add(sb.low, sb.high)
<1>1. n \in Nat /\ n >= 4 /\ Len(b) \in Nat /\ Len(b) >= 4 /\ Len(b) <= n
  BY WidthFacts
<1>2. m \in Nat /\ 0 < m /\ m + 1 < n /\ n - m <= m
  <2> HIDE DEF n
  <2> QED
    BY <1>1
<1>3. a \in NP!Vectors /\ b \in NP!Vectors
  BY <1>1 DEF NP!Vectors
<1> HIDE DEF m
<1>4. /\ sa.low \in NP!Vectors /\ Len(sa.low) <= m
      /\ sa.high \in NP!Vectors /\ Len(sa.high) <= n - m
  BY <1>1, <1>2, <1>3, SplitVectors
<1>5. /\ sb.low \in NP!Vectors /\ Len(sb.low) <= m
      /\ sb.high \in NP!Vectors /\ Len(sb.high) <= m
  <2>1. CASE Len(b) <= m
    <3> DEFINE z == C!K!N!Zero
    <3>1. z \in NP!Vectors /\ Len(z) = 1
      BY ValueIs DEF C!K!N!Zero
    <3>2. sb = [low |-> b, high |-> z]
      BY <2>1 DEF Second
    <3>3. sb.low = b /\ sb.high = z
      BY <3>2
    <3>4. 1 <= m
      BY <1>2
    <3> HIDE DEF z, sb
    <3> QED
      BY <1>3, <2>1, <3>1, <3>3, <3>4
  <2>2. CASE ~(Len(b) <= m)
    <3>1. /\ C!K!splitAt(b, m).low \in NP!Vectors /\ Len(C!K!splitAt(b, m).low) <= m
          /\ C!K!splitAt(b, m).high \in NP!Vectors /\ Len(C!K!splitAt(b, m).high) <= Len(b) - m
      BY <1>1, <1>2, <1>3, <2>2, SplitVectors
    <3>2. sb = C!K!splitAt(b, m)
      BY <2>2 DEF Second
    <3>3. Len(sb.high) \in Nat /\ Len(sb.high) <= Len(b) - m
      BY <3>1, <3>2, VectorsAre
    <3>4. Len(sb.high) <= m
      <4> HIDE DEF sb, n
      <4> QED
        BY <1>1, <1>2, <3>3
    <3> QED
      BY <3>1, <3>2, <3>4
  <2> QED
    BY <2>1, <2>2
<1> HIDE DEF sa, sb
<1>6. Len(sa.high) <= m /\ Len(sa.low) \in Nat /\ Len(sa.high) \in Nat /\ Len(sb.low) \in Nat
      /\ Len(sb.high) \in Nat
  BY <1>1, <1>2, <1>4, <1>5, VectorsAre
<1>7. /\ s \in NP!Vectors /\ Len(s) <= m + 1 /\ t \in NP!Vectors /\ Len(t) <= m + 1
  <2>1. NP!add(sa.low, sa.high) \in NP!Normals /\ Len(NP!add(sa.low, sa.high)) <= m + 1
    BY <1>2, <1>4, <1>6, WidthFacts, NP!AddLength
  <2>2. NP!add(sb.low, sb.high) \in NP!Normals /\ Len(NP!add(sb.low, sb.high)) <= m + 1
    BY <1>2, <1>5, <1>6, WidthFacts, NP!AddLength
  <2> QED
    BY <2>1, <2>2, KaratsubaNaive, VectorsAre
<1> HIDE DEF s, t
<1>8. /\ sa.low \in Seq(NP!D!digit) /\ sa.high \in Seq(NP!D!digit) /\ sb.low \in Seq(NP!D!digit)
      /\ sb.high \in Seq(NP!D!digit) /\ s \in Seq(NP!D!digit) /\ t \in Seq(NP!D!digit)
  BY <1>4, <1>5, <1>7, VectorsAre
<1>9. /\ Len(sa.low) < n /\ Len(sa.high) < n /\ Len(sb.low) < n /\ Len(sb.high) < n
      /\ Len(s) < n /\ Len(t) < n
  <2>1. Len(s) \in Nat /\ Len(t) \in Nat
    BY <1>8
  <2> HIDE DEF n
  <2> QED
    BY <1>1, <1>2, <1>4, <1>5, <1>6, <1>7, <2>1
<1>10. <<sa.low, sb.low>> \in Pairs /\ <<sa.high, sb.high>> \in Pairs /\ <<s, t>> \in Pairs
  BY <1>8, PairRank
<1>11. Rank[<<sa.low, sb.low>>] < Rank[<<a, b>>]
  BY <1>1, <1>8, <1>9, RankBelow
<1>12. Rank[<<sa.high, sb.high>>] < Rank[<<a, b>>]
  BY <1>1, <1>8, <1>9, RankBelow
<1>13. Rank[<<s, t>>] < Rank[<<a, b>>]
  BY <1>1, <1>8, <1>9, RankBelow
<1> QED
  BY <1>2, <1>10, <1>11, <1>12, <1>13 DEF s, t, sa, sb, m

(* What product returns depends on the products of lower rank alone,       *)
LEMMA ProductLocal ==
  ASSUME NEW p \in Pairs, NEW f, NEW g, \A q \in Pairs : Rank[q] < Rank[p] => f[q] = g[q]
  PROVE  C!K!product(f, p[1], p[2]) = C!K!product(g, p[1], p[2])
<1> DEFINE a == p[1]
           b == p[2]
           m == (Len(a) + 1) \div 2
           sa == C!K!splitAt(a, m)
           sb == Second(b, m)
           low == <<sa.low, sb.low>>
           high == <<sa.high, sb.high>>
           sum == <<C!K!N!add(sa.low, sa.high), C!K!N!add(sb.low, sb.high)>>
<1>1. a \in Seq(NP!D!digit) /\ b \in Seq(NP!D!digit) /\ p = <<a, b>> /\ Len(a) \in Nat /\ Len(b) \in Nat
      /\ Threshold \in Nat
  BY WidthFacts DEF Pairs
<1>2. CASE Len(a) < Threshold \/ Len(b) < Threshold
  BY <1>2 DEF C!K!product
<1>3. CASE ~(Len(a) < Threshold \/ Len(b) < Threshold) /\ Len(a) < Len(b)
  <2>1. <<b, a>> \in Pairs /\ Rank[<<b, a>>] < Rank[<<a, b>>]
    <3> HIDE DEF a, b
    <3>1. <<b, a>> \in Pairs /\ Rank[<<b, a>>] = IF Len(b) < Len(a) THEN 2 * Len(a) + 1 ELSE 2 * Len(b)
      BY <1>1, PairRank
    <3>2. Rank[<<a, b>>] = IF Len(a) < Len(b) THEN 2 * Len(b) + 1 ELSE 2 * Len(a)
      BY <1>1, PairRank
    <3> DEFINE i == Len(a)
               j == Len(b)
    <3> HIDE DEF i, j
    <3>3. i \in Nat /\ j \in Nat /\ i < j
      BY <1>1, <1>3 DEF i, j
    <3>4. Rank[<<b, a>>] = 2 * j /\ Rank[<<a, b>>] = 2 * j + 1
      BY <3>1, <3>2, <3>3 DEF i, j
    <3> QED
      BY <3>1, <3>3, <3>4
  <2>2. f[<<b, a>>] = g[<<b, a>>]
    <3>1. Rank[<<b, a>>] < Rank[p]
      BY <1>1, <2>1
    <3> QED
      BY <2>1, <3>1
  <2> QED
    BY <1>3, <2>2 DEF C!K!product
<1>4. CASE ~(Len(a) < Threshold \/ Len(b) < Threshold) /\ ~(Len(a) < Len(b))
  <2>1. /\ low \in Pairs /\ Rank[low] < Rank[<<a, b>>]
        /\ high \in Pairs /\ Rank[high] < Rank[<<a, b>>]
        /\ sum \in Pairs /\ Rank[sum] < Rank[<<a, b>>]
    <3> HIDE DEF a, b
    <3>1. Threshold <= Len(a) /\ Threshold <= Len(b) /\ Len(b) <= Len(a)
      BY <1>1, <1>4
    <3> QED
      BY <1>1, <3>1, HalvesShorter, Zenon
  <2>2. f[low] = g[low] /\ f[high] = g[high] /\ f[sum] = g[sum]
    BY <1>1, <2>1
  <2>3. C!K!product(f, a, b) = C!K!joined(f[low], f[high], f[sum], m)
    BY <1>4 DEF C!K!product, C!K!splitBoth, C!K!halves, Second
  <2>4. C!K!product(g, a, b) = C!K!joined(g[low], g[high], g[sum], m)
    BY <1>4 DEF C!K!product, C!K!splitBoth, C!K!halves, Second
  <2> QED
    BY <2>2, <2>3, <2>4
<1> QED
  BY <1>2, <1>3, <1>4

(* and is a product when they are.                                         *)
LEMMA ProductTotal ==
  ASSUME NEW p \in Pairs, NEW f \in [Pairs -> Products]
  PROVE  C!K!product(f, p[1], p[2]) \in Products
<1> DEFINE a == p[1]
           b == p[2]
           m == (Len(a) + 1) \div 2
           sa == C!K!splitAt(a, m)
           sb == Second(b, m)
           low == <<sa.low, sb.low>>
           high == <<sa.high, sb.high>>
           sum == <<C!K!N!add(sa.low, sa.high), C!K!N!add(sb.low, sb.high)>>
<1>1. a \in Seq(NP!D!digit) /\ b \in Seq(NP!D!digit) /\ p = <<a, b>> /\ Len(a) \in Nat /\ Len(b) \in Nat
      /\ Threshold \in Nat
  BY WidthFacts DEF Pairs
<1>2. CASE Len(a) < Threshold \/ Len(b) < Threshold
  <2>1. C!K!N!multiply(a, b) \in NP!Normals
    <3> HIDE DEF a, b
    <3> QED
      BY <1>1, WidthFacts, KaratsubaNaive, NP!MultiplyNormal
  <2>2. C!K!product(f, a, b) = C!K!D!Returns(C!K!N!multiply(a, b))
    BY <1>2 DEF C!K!product
  <2> QED
    BY <2>1, <2>2, VectorsAre, ProductsMade
<1>3. CASE ~(Len(a) < Threshold \/ Len(b) < Threshold) /\ Len(a) < Len(b)
  <2>1. <<b, a>> \in Pairs
    BY <1>1, PairRank
  <2>2. C!K!product(f, a, b) = f[<<b, a>>]
    BY <1>3 DEF C!K!product
  <2> QED
    BY <2>1, <2>2
<1>4. CASE ~(Len(a) < Threshold \/ Len(b) < Threshold) /\ ~(Len(a) < Len(b))
  <2>1. low \in Pairs /\ high \in Pairs /\ sum \in Pairs /\ m \in Nat
    <3> HIDE DEF a, b
    <3>1. Threshold <= Len(a) /\ Threshold <= Len(b) /\ Len(b) <= Len(a)
      BY <1>1, <1>4
    <3> QED
      BY <1>1, <3>1, HalvesShorter, Zenon
  <2>2. C!K!product(f, a, b) = C!K!joined(f[low], f[high], f[sum], m)
    BY <1>4 DEF C!K!product, C!K!splitBoth, C!K!halves, Second
  <2>3. f[low] \in Products /\ f[high] \in Products /\ f[sum] \in Products
    BY <2>1
  <2> HIDE DEF low, high, sum, m
  <2> QED
    BY <2>1, <2>2, <2>3, JoinedVectors
<1> QED
  BY <1>2, <1>3, <1>4

(* BigNumberKaratsuba::multiplyKaratsubaRecursive ends for a threshold of  *)
(* 4 or more: the recursion has a value, which is a normal vector unless a *)
(* subtraction threw. Below the threshold it is the naive product.         *)
THEOREM KaratsubaVectors ==
  ASSUME NEW x \in Seq(NP!D!digit), NEW y \in Seq(NP!D!digit)
  PROVE  /\ C!K!threeProducts(x, y) \in Products
         /\ Len(x) < Threshold \/ Len(y) < Threshold
              => C!K!threeProducts(x, y) = C!K!D!Returns(NP!multiply(x, y))
<1> DEFINE Body(f) == [p \in Pairs |-> C!K!product(f, p[1], p[2])]
           it == CHOOSE f : f = Body(f)
           F == [q \in Pairs \X [Pairs -> Products] |-> C!K!product(q[2], q[1][1], q[1][2])]
<1>1. C!K!threeProducts(x, y) = it[<<x, y>>]
  BY WidthFacts DEF C!K!threeProducts, Pairs
<1>2. C!K!D!Throws(<<0>>) \in Products
  BY ValueIs, ProductsMade
<1>3. Rank \in [Pairs -> Nat]
  <2>1. \A p \in Pairs : Len(p[1]) \in Nat /\ Len(p[2]) \in Nat
    BY DEF Pairs
  <2> QED
    BY <2>1 DEF Rank
<1>4. \A p \in Pairs : \A f \in [Pairs -> Products] : F[<<p, f>>] = C!K!product(f, p[1], p[2])
  OBVIOUS
<1>5. PICK f \in [Pairs -> Products] : \A p \in Pairs : f[p] = C!K!product(f, p[1], p[2])
  <2> HIDE DEF F
  <2>1. NP!Total(F, Pairs, Products)
    BY <1>4, ProductTotal DEF NP!Total
  <2>2. NP!Local(F, Pairs, Products, Rank)
    <3> SUFFICES ASSUME NEW p \in Pairs, NEW f \in [Pairs -> Products], NEW g \in [Pairs -> Products],
                        \A q \in Pairs : Rank[q] < Rank[p] => f[q] = g[q]
                 PROVE  F[<<p, f>>] = F[<<p, g>>]
      BY DEF NP!Local
    <3>1. C!K!product(f, p[1], p[2]) = C!K!product(g, p[1], p[2])
      BY ProductLocal
    <3> QED
      BY <1>4, <3>1
  <2>3. NP!Defines(F, Pairs, Products)
    BY <1>2, <1>3, <2>1, <2>2, NP!MeasureRecursion
  <2> QED
    BY <1>4, <2>3 DEF NP!Defines
<1>6. f = Body(f)
  BY <1>5
<1>7. it = Body(it)
  <2> HIDE DEF Body
  <2> QED
    BY <1>6
<1>8. \A p \in Pairs : it[p] = C!K!product(it, p[1], p[2])
  <2> HIDE DEF it
  <2> QED
    BY <1>7
<1> HIDE DEF it, F, Body
<1>9. \A p \in Pairs : it[p] = f[p]
  <2> DEFINE T == {n \in Nat : \E p \in Pairs : Rank[p] = n /\ it[p] # f[p]}
  <2>1. T = {}
    <3> SUFFICES ASSUME T # {} PROVE FALSE
      OBVIOUS
    <3>1. PICK n \in T : \A k \in T : n <= k
      <4>1. T \in SUBSET Nat
        OBVIOUS
      <4> HIDE DEF T
      <4> QED
        BY <4>1, NP!LeastNatural
    <3>2. PICK p \in Pairs : Rank[p] = n /\ it[p] # f[p]
      BY <3>1
    <3>3. \A q \in Pairs : Rank[q] < Rank[p] => it[q] = f[q]
      BY <1>3, <3>1, <3>2
    <3>4. C!K!product(it, p[1], p[2]) = C!K!product(f, p[1], p[2])
      BY <3>3, ProductLocal
    <3> QED
      BY <1>5, <1>8, <3>2, <3>4
  <2> QED
    BY <1>3, <2>1
<1>10. <<x, y>> \in Pairs /\ <<x, y>>[1] = x /\ <<x, y>>[2] = y
  BY DEF Pairs
<1>11. Len(x) < Threshold \/ Len(y) < Threshold
       => C!K!product(f, x, y) = C!K!D!Returns(NP!multiply(x, y))
  BY KaratsubaNaive DEF C!K!product
<1> QED
  BY <1>1, <1>5, <1>9, <1>10, <1>11

-----------------------------------------------------------------------------
(* The core.                                                               *)

(* An operation of the naive implementation, done through the pointer.     *)
Through(o, r) ==
  IF o.impl = "none" THEN D!Returns(o) ELSE [ok |-> r.ok, v |-> [o EXCEPT !.digits = r.v]]
Plain(o, a) == Through(o, D!Returns(a))

(* visitImpl, when both implementations do the same.                       *)
LEMMA VisitThrough ==
  ASSUME NEW o, NEW r, NEW a
  PROVE  C!visitImpl(o, r, r) = Through(o, r) /\ C!visitTotal(o, a, a) = Plain(o, a)
<1>1. C!visitImpl(o, r, r) = Through(o, r)
  BY DEF C!visitImpl, Through, C!D!Returns, D!Returns
<1>2. C!visitTotal(o, a, a) = Plain(o, a)
  BY DEF C!visitTotal, C!visitImpl, Plain, Through, C!D!Returns, D!Returns
<1> QED
  BY <1>1, <1>2

(* The operations of BigNumberCore that both implementations do alike: the *)
(* Karatsuba one calls the naive one for all but multiply.                 *)
LEMMA CoreIs ==
  ASSUME NEW o, NEW n
  PROVE  /\ C!add(o, n, TRUE) = Plain(o, NP!addToItself(o.digits))
         /\ C!add(o, n, FALSE) = Plain(o, NP!add(o.digits, n.digits))
         /\ C!subtract(o, n) = Through(o, NP!subtract(o.digits, n.digits))
         /\ C!bitwiseAnd(o, n) = Plain(o, NP!bitwiseAnd(o.digits, n.digits))
         /\ C!bitwiseOr(o, n) = Plain(o, NP!bitwiseOr(o.digits, n.digits))
         /\ C!bitwiseXor(o, n) = Plain(o, NP!bitwiseXor(o.digits, n.digits))
         /\ C!bitwiseNot(o) = Plain(o, NP!bitwiseNot(o.digits))
<1>1. C!add(o, n, TRUE) = Plain(o, NP!addToItself(o.digits))
  BY VisitThrough, CoreNaive, KaratsubaNaive DEF C!add, C!K!addToItself
<1>2. C!add(o, n, FALSE) = Plain(o, NP!add(o.digits, n.digits))
  BY VisitThrough, CoreNaive, KaratsubaNaive DEF C!add, C!K!add
<1>3. C!subtract(o, n) = Through(o, NP!subtract(o.digits, n.digits))
  BY VisitThrough, CoreNaive, KaratsubaNaive DEF C!subtract, C!K!subtract
<1>4. C!bitwiseAnd(o, n) = Plain(o, NP!bitwiseAnd(o.digits, n.digits))
  BY VisitThrough, CoreNaive, KaratsubaNaive DEF C!bitwiseAnd, C!K!bitwiseAnd
<1>5. C!bitwiseOr(o, n) = Plain(o, NP!bitwiseOr(o.digits, n.digits))
  BY VisitThrough, CoreNaive, KaratsubaNaive DEF C!bitwiseOr, C!K!bitwiseOr
<1>6. C!bitwiseXor(o, n) = Plain(o, NP!bitwiseXor(o.digits, n.digits))
  BY VisitThrough, CoreNaive, KaratsubaNaive DEF C!bitwiseXor, C!K!bitwiseXor
<1>7. C!bitwiseNot(o) = Plain(o, NP!bitwiseNot(o.digits))
  BY VisitThrough, CoreNaive, KaratsubaNaive DEF C!bitwiseNot, C!K!bitwiseNot
<1> QED
  BY <1>1, <1>2, <1>3, <1>4, <1>5, <1>6, <1>7

(* Its shifts.                                                             *)
LEMMA ShiftsAre ==
  ASSUME NEW o, NEW k
  PROVE  /\ C!shiftLeft(o, k) = Plain(o, NP!shiftLeft(o.digits, k))
         /\ C!shiftRight(o, k) = Plain(o, NP!shiftRight(o.digits, k))
<1>1. C!shiftLeft(o, k) = Plain(o, NP!shiftLeft(o.digits, k))
  BY VisitThrough, CoreNaive, KaratsubaNaive DEF C!shiftLeft, C!K!shiftLeft
<1>2. C!shiftRight(o, k) = Plain(o, NP!shiftRight(o.digits, k))
  BY VisitThrough, CoreNaive, KaratsubaNaive DEF C!shiftRight, C!K!shiftRight
<1> QED
  BY <1>1, <1>2

(* Its comparisons: without an implementation compare returns 0.           *)
LEMMA TestsAre ==
  ASSUME NEW o, Selected(o), NEW n
  PROVE  /\ C!compare(o, n) = IF o.impl = "none" THEN 0 ELSE NP!compare(o.digits, n.digits)
         /\ C!isZero(n) <=> n.digits \in {<<>>, <<0>>}
         /\ C!isOne(n) <=> n.digits = <<1>>
<1>1. o.impl \in {"naive", "karatsuba", "none"}
  BY DEF Selected, C!create, C!createBest
<1>2. C!N!compare(o.digits, n.digits) = NP!compare(o.digits, n.digits)
      /\ C!K!compare(o.digits, n.digits) = NP!compare(o.digits, n.digits)
  BY CoreNaive, KaratsubaNaive DEF C!K!compare
<1>3. C!compare(o, n) = IF o.impl = "none" THEN 0 ELSE NP!compare(o.digits, n.digits)
  <2>1. CASE o.impl = "none"
    BY <2>1 DEF C!compare
  <2>2. CASE o.impl = "naive"
    BY <1>2, <2>2 DEF C!compare
  <2>3. CASE o.impl = "karatsuba"
    BY <1>2, <2>3 DEF C!compare
  <2> QED
    BY <1>1, <2>1, <2>2, <2>3
<1>4. (C!isZero(n) <=> n.digits \in {<<>>, <<0>>}) /\ (C!isOne(n) <=> n.digits = <<1>>)
  BY DEF C!isZero, C!isOne, C!N!isZero, C!N!isOne, C!N!Zero
<1> QED
  BY <1>3, <1>4

(* The product through either implementation.                              *)
LEMMA MultiplyIs ==
  ASSUME NEW o, Selected(o), NEW n, o.digits \in NP!Vectors, n.digits \in Seq(NP!D!digit)
  PROVE  LET p == NP!multiply(o.digits, n.digits)
         IN  \E r \in Products :
               /\ C!multiply(o, n) = Through(o, r)
               /\ o.impl = "naive" \/ Len(o.digits) < Threshold \/ Len(n.digits) < Threshold
                    => r = D!Returns(p)
<1> DEFINE a == o.digits
           b == n.digits
           p == NP!multiply(a, b)
           k == C!K!multiply(a, b)
<1>0. a \in Seq(NP!D!digit) /\ a \in NP!Vectors /\ b \in Seq(NP!D!digit)
  BY VectorsAre
<1>1. p \in NP!Normals /\ p \in NP!Vectors
  BY <1>0, WidthFacts, NP!MultiplyNormal, VectorsAre
<1>2. D!Returns(p) \in Products
  BY <1>1 DEF Products, D!Returns
<1>3. k \in Products /\ (Len(a) < Threshold \/ Len(b) < Threshold => k = D!Returns(p))
  <2> DEFINE t == C!K!threeProducts(a, b)
  <2>1. t \in Products /\ (Len(a) < Threshold \/ Len(b) < Threshold => t = C!K!D!Returns(p))
    <3> HIDE DEF a, b
    <3> QED
      BY <1>0, KaratsubaVectors
  <2>2. CASE b = <<>>
    <3>1. k = C!K!D!Returns(C!K!N!Zero) /\ p = NP!Zero
      BY <2>2 DEF C!K!multiply, NP!multiply
    <3>2. k = D!Returns(p)
      BY <3>1 DEF C!K!D!Returns, D!Returns, C!K!N!Zero, NP!Zero
    <3> QED
      BY <1>2, <3>2
  <2>3. CASE b # <<>>
    <3>1. a # <<>>
      BY <1>0 DEF NP!Vectors
    <3>2. k = IF t.ok THEN t ELSE C!K!D!Throws(a)
      BY <2>3, <3>1 DEF C!K!multiply, C!K!multiplyKaratsubaRecursive
    <3> HIDE DEF a, b, k, t, p
    <3>3. C!K!D!Throws(a) \in Products
      BY <1>0, ProductsMade
    <3>4. C!K!D!Returns(p) = D!Returns(p) /\ D!Returns(p).ok
      BY DEF C!K!D!Returns, D!Returns
    <3> QED
      BY <2>1, <3>2, <3>3, <3>4
  <2> QED
    BY <2>2, <2>3
<1>4. CASE o.impl = "naive"
  <2>1. C!D!Returns(C!N!multiply(a, b)) = D!Returns(p)
    BY CoreNaive DEF C!D!Returns, D!Returns
  <2>2. C!multiply(o, n) = Through(o, D!Returns(p))
    BY <1>4, <2>1 DEF C!multiply, C!visitImpl, Through
  <2> QED
    BY <1>2, <2>2
<1>5. CASE o.impl # "naive"
  <2>1. C!multiply(o, n) = Through(o, k)
    BY <1>5 DEF C!multiply, C!visitImpl, Through, C!D!Returns, D!Returns
  <2> QED
    BY <1>3, <1>5, <2>1
<1> QED
  BY <1>4, <1>5

-----------------------------------------------------------------------------
(* The operators of objects.                                               *)

(* An object as the invariants below describe it.                          *)
Object(o) == Selected(o) /\ o.digits \in NP!Vectors

(* The constructor from digits makes one,                                  *)
LEMMA CardinalObject ==
  ASSUME NEW a \in NP!Vectors
  PROVE  Object(cardinal(a)) /\ cardinal(a).digits = a /\ cardinal(a).impl = "karatsuba"
  BY CardinalSelected DEF Object, cardinal, C!createBest

(* and so does the copy constructor.                                       *)
LEMMA CopyObject ==
  ASSUME NEW o, Object(o)
  PROVE  Object(C!copyOf(o)) /\ C!copyOf(o).digits = o.digits
  BY CopySelected DEF Object, C!copyOf

(* What an operation through the pointer leaves.                           *)
LEMMA ThroughIs ==
  ASSUME NEW o, Object(o), NEW r, r.v \in NP!Vectors
  PROVE  /\ Through(o, r).v.digits \in NP!Vectors
         /\ o.impl = "none" => Through(o, r) = D!Returns(o)
         /\ o.impl # "none" => Through(o, r).ok = r.ok /\ Through(o, r).v.digits = r.v
<1>1. o = [digits |-> o.digits, active |-> o.active, impl |-> o.impl] /\ o.digits \in NP!Vectors
  BY DEF Object, Selected
<1>2. CASE o.impl = "none"
  BY <1>1, <1>2 DEF Through, D!Returns
<1>3. CASE o.impl # "none"
  BY <1>1, <1>3 DEF Through
<1> QED
  BY <1>2, <1>3

(* The same for one that does not throw.                                   *)
LEMMA PlainIs ==
  ASSUME NEW o, Object(o), NEW a \in NP!Vectors
  PROVE  /\ Plain(o, a).v.digits \in NP!Vectors
         /\ o.impl = "none" => Plain(o, a) = D!Returns(o)
         /\ o.impl # "none" => Plain(o, a).ok /\ Plain(o, a).v.digits = a
<1>1. D!Returns(a).ok /\ D!Returns(a).v = a
  BY DEF D!Returns
<1> QED
  BY <1>1, ThroughIs DEF Plain

(* The number of a vector that isZero or isOne accepts.                    *)
LEMMA TestValues ==
  ASSUME NEW a \in NP!Vectors
  PROVE  /\ a \in {<<>>, <<0>>} => Value(a) = 0 /\ a = <<0>>
         /\ a = <<1>> => Value(a) = 1
         /\ Value(a) \in Nat
  BY ValueIs DEF NP!Vectors

(* The two ways a call ends.                                               *)
LEMMA ResultIs ==
  ASSUME NEW o
  PROVE  D!Returns(o).ok /\ D!Returns(o).v = o /\ ~D!Throws(o).ok /\ D!Throws(o).v = o
  BY DEF D!Returns, D!Throws

(* add, in the terms of the properties.                                    *)
LEMMA AddIs ==
  ASSUME NEW a \in NP!Vectors, NEW b \in NP!Vectors
  PROVE  /\ NP!add(a, b) \in NP!Vectors /\ Normal(NP!add(a, b))
         /\ Value(NP!add(a, b)) = Value(a) + Value(b)
         /\ NP!addToItself(a) \in NP!Vectors /\ Normal(NP!addToItself(a))
<1>1. a \in Seq(NP!D!digit) /\ a # <<>> /\ b \in Seq(NP!D!digit)
  BY VectorsAre
<1>2. /\ NP!add(a, b) \in Seq(NP!D!digit) /\ NP!add(a, b) # <<>>
      /\ NP!Value(NP!add(a, b)) = NP!Value(a) + NP!Value(b)
      /\ NP!normalize(NP!add(a, b)) = NP!add(a, b)
  BY <1>1, WidthFacts, NP!NaiveAddExact
<1>3. /\ NP!addToItself(a) \in Seq(NP!D!digit) /\ NP!addToItself(a) # <<>>
      /\ NP!normalize(NP!addToItself(a)) = NP!addToItself(a)
  BY <1>1, WidthFacts, NP!DoublingEnds
<1>4. /\ NP!add(a, b) \in NP!Vectors /\ NP!add(a, b) \in NP!Normals
      /\ NP!addToItself(a) \in NP!Vectors /\ NP!addToItself(a) \in NP!Normals
  BY <1>2, <1>3 DEF NP!Vectors, NP!Normals
<1> QED
  BY <1>2, <1>4, VectorsAre, ValueIs

(* += and ++ of objects.                                                   *)
LEMMA PlusIs ==
  ASSUME NEW o, Object(o), NEW n, Object(n), NEW same \in BOOLEAN
  PROVE  LET r == plusAssign(o, n, same)
         IN  /\ r.v.digits \in NP!Vectors
             /\ Normal(o.digits) /\ Normal(n.digits) => Normal(r.v.digits)
             /\ o.impl # "none" /\ ~same => Exact(r, Value(o.digits) + Value(n.digits))
<1> DEFINE r == plusAssign(o, n, same)
           a == o.digits
           b == n.digits
<1>1. a \in NP!Vectors /\ b \in NP!Vectors /\ Selected(o) /\ Selected(n)
  BY DEF Object
<1>2. (C!isZero(n) <=> b \in {<<>>, <<0>>}) /\ (C!isZero(o) <=> a \in {<<>>, <<0>>})
  BY <1>1, TestsAre
<1>3. /\ b \in {<<>>, <<0>>} => Value(b) = 0
      /\ a \in {<<>>, <<0>>} => Value(a) = 0
      /\ Value(a) \in Nat /\ Value(b) \in Nat
  BY <1>1, TestValues
<1>4. CASE C!isZero(n)
  <2>1. r = D!Returns(o)
    BY <1>4 DEF plusAssign
  <2>2. r.ok /\ r.v.digits = a
    BY <2>1, ResultIs
  <2> QED
    BY <1>1, <1>2, <1>3, <1>4, <2>2 DEF Exact
<1>5. CASE ~C!isZero(n) /\ C!isZero(o)
  <2>1. r = D!Returns(C!copyOf(n))
    BY <1>5 DEF plusAssign
  <2>2. r.ok /\ r.v.digits = b
    BY <2>1, ResultIs, CopyObject
  <2> QED
    BY <1>1, <1>2, <1>3, <1>5, <2>2 DEF Exact
<1>6. CASE ~C!isZero(n) /\ ~C!isZero(o)
  <2> DEFINE s == IF same THEN NP!addToItself(a) ELSE NP!add(a, b)
  <2>1. s \in NP!Vectors /\ Normal(s) /\ (~same => Value(s) = Value(a) + Value(b))
    BY <1>1, AddIs
  <2>2. r = Plain(o, s)
    BY <1>6, CoreIs DEF plusAssign
  <2> HIDE DEF s, r
  <2>3. /\ r.v.digits \in NP!Vectors
        /\ o.impl = "none" => r = D!Returns(o)
        /\ o.impl # "none" => r.ok /\ r.v.digits = s
    BY <2>1, <2>2, PlainIs
  <2>4. o.impl = "none" => r.v.digits = a
    BY <2>3, ResultIs
  <2>5. /\ r.v.digits \in NP!Vectors
        /\ Normal(a) /\ Normal(b) => Normal(r.v.digits)
        /\ o.impl # "none" /\ ~same => Exact(r, Value(a) + Value(b))
    BY <2>1, <2>3, <2>4 DEF Exact
  <2> QED
    BY <2>5 DEF r
<1> QED
  BY <1>4, <1>5, <1>6

(* ++ of an object.                                                        *)
LEMMA IncrementIs ==
  ASSUME NEW o, Object(o)
  PROVE  LET r == increment(o)
         IN  /\ r.v.digits \in NP!Vectors
             /\ o.impl # "none" => Exact(r, Value(o.digits) + 1)
<1> DEFINE r == increment(o)
           s == NP!add(o.digits, <<1>>)
<1>1. o.digits \in NP!Vectors /\ <<1>> \in NP!Vectors /\ Value(<<1>>) = 1
  BY ValueIs DEF Object
<1>2. r = Plain(o, s)
  <2>1. cardinal(<<1>>).digits = <<1>>
    BY DEF cardinal
  <2>2. r = Plain(o, NP!add(o.digits, cardinal(<<1>>).digits))
    BY CoreIs DEF increment
  <2> QED
    BY <2>1, <2>2
<1>3. s \in NP!Vectors /\ Value(s) = Value(o.digits) + 1
  <2>1. Value(s) = Value(o.digits) + Value(<<1>>) /\ s \in NP!Vectors
    BY <1>1, AddIs
  <2> QED
    BY <1>1, <2>1
<1> HIDE DEF r, s
<1> QED
  BY <1>2, <1>3, PlainIs DEF Exact, r

(* subtract, in the terms of the properties.                               *)
LEMMA SubtractIs ==
  ASSUME NEW a \in NP!Vectors, NEW b \in NP!Vectors
  PROVE  LET s == NP!subtract(a, b)
         IN  /\ s.v \in NP!Vectors
             /\ s.ok => Normal(s.v)
             /\ Normal(b) /\ NoBorrow(a, b) => s.ok /\ Value(s.v) = Value(a) - Value(b)
<1> DEFINE s == NP!subtract(a, b)
<1>1. a \in Seq(NP!D!digit) /\ a # <<>> /\ b \in Seq(NP!D!digit) /\ b # <<>>
      /\ Len(a) \in Nat /\ Len(b) \in Nat /\ Len(a) >= 1 /\ Len(b) >= 1
  BY DEF NP!Vectors
<1>2. /\ s.v \in Seq(NP!D!digit) /\ s.v # <<>> /\ s.ok \in BOOLEAN
      /\ s.ok => NP!normalize(s.v) = s.v
      /\ (Len(b) <= Len(a) /\ \A i \in 1..Len(b) : b[i] <= a[i])
           => s.ok /\ NP!Value(s.v) = NP!Value(a) - NP!Value(b)
  BY <1>1, WidthFacts, NP!NaiveSubtractExact
<1>3. s.v \in NP!Vectors /\ (s.ok => s.v \in NP!Normals)
  <2> HIDE DEF s
  <2> QED
    BY <1>2 DEF NP!Vectors, NP!Normals
<1>4. ASSUME Normal(b), NoBorrow(a, b) PROVE Len(b) <= Len(a) /\ \A i \in 1..Len(b) : b[i] <= a[i]
  <2>1. \A i \in 1..Len(b) : b[i] <= (IF i <= Len(a) THEN a[i] ELSE 0)
    BY <1>1, <1>4 DEF NoBorrow, N!At
  <2>2. b \in NP!Normals
    BY <1>4, VectorsAre
  <2>3. NP!normalize(b) = b
    BY <2>2 DEF NP!Normals
  <2>4. Len(b) = 1 \/ b[Len(b)] # 0
    BY <1>1, <2>3, WidthFacts, NP!NormalTop
  <2>5. \A i \in 1..Len(b) : b[i] \in Nat
    BY <1>1, WidthFacts, NP!VectorSeq
  <2>6. Len(b) \in 1..Len(b)
    BY <1>1
  <2>7. Len(b) <= Len(a)
    <3> SUFFICES ASSUME ~(Len(b) <= Len(a)) PROVE FALSE
      OBVIOUS
    <3>1. b[Len(b)] <= 0
      BY <2>1, <2>6
    <3>2. b[Len(b)] # 0
      BY <1>1, <2>4
    <3> QED
      BY <2>5, <2>6, <3>1, <3>2
  <2>8. \A i \in 1..Len(b) : i <= Len(a)
    BY <1>1, <2>7
  <2> QED
    BY <2>1, <2>7, <2>8
<1> HIDE DEF s
<1> QED
  BY <1>2, <1>3, <1>4, VectorsAre, ValueIs DEF s

(* -= and -- of objects.                                                   *)
LEMMA MinusIs ==
  ASSUME NEW o, Object(o), NEW n, Object(n)
  PROVE  LET r == minusAssign(o, n)
             a == o.digits
             b == n.digits
         IN  /\ r.v.digits \in NP!Vectors
             /\ Normal(a) /\ r.ok => Normal(r.v.digits)
             /\ o.impl # "none" /\ Normal(a) /\ Normal(b) /\ NoBorrow(a, b)
                  => Exact(r, Value(a) - Value(b))
<1> DEFINE r == minusAssign(o, n)
           a == o.digits
           b == n.digits
           s == NP!subtract(a, b)
<1>1. a \in NP!Vectors /\ b \in NP!Vectors /\ Selected(o) /\ Selected(n)
  BY DEF Object
<1>2. (C!isZero(n) <=> b \in {<<>>, <<0>>})
      /\ C!compare(o, n) = IF o.impl = "none" THEN 0 ELSE NP!compare(a, b)
  BY <1>1, TestsAre
<1>3. /\ b \in {<<>>, <<0>>} => Value(b) = 0
      /\ Value(a) \in Nat /\ Value(b) \in Nat
  BY <1>1, TestValues
<1>4. /\ s.v \in NP!Vectors
      /\ s.ok => Normal(s.v)
      /\ Normal(b) /\ NoBorrow(a, b) => s.ok /\ Value(s.v) = Value(a) - Value(b)
  BY <1>1, SubtractIs
<1>5. CASE C!isZero(n)
  <2>1. r = D!Returns(o)
    BY <1>5 DEF minusAssign
  <2>2. r.ok /\ r.v.digits = a
    BY <2>1, ResultIs
  <2> QED
    BY <1>1, <1>2, <1>3, <1>5, <2>2 DEF Exact
<1>6. CASE ~C!isZero(n) /\ C!compare(o, n) < 0
  <2>1. r = D!Throws(o)
    BY <1>6 DEF minusAssign
  <2>2. ~r.ok /\ r.v.digits = a
    BY <2>1, ResultIs
  <2>3. ~(o.impl # "none" /\ Normal(a) /\ Normal(b) /\ NoBorrow(a, b))
    <3> SUFFICES ASSUME o.impl # "none", Normal(a), Normal(b), NoBorrow(a, b) PROVE FALSE
      OBVIOUS
    <3>1. a \in NP!Normals /\ b \in NP!Normals
      BY <1>1, VectorsAre
    <3>2. /\ a \in Seq(NP!D!digit) /\ a # <<>> /\ NP!normalize(a) = a
          /\ b \in Seq(NP!D!digit) /\ b # <<>> /\ NP!normalize(b) = b
      BY <3>1 DEF NP!Normals, NP!Vectors
    <3>3. NP!compare(a, b) < 0 <=> NP!Value(a) < NP!Value(b)
      <4> HIDE DEF a, b
      <4> QED
        BY <3>2, WidthFacts, NP!NaiveCompareExact
    <3>4. Value(a) < Value(b)
      BY <1>2, <1>6, <3>3, ValueIs
    <3>5. Value(s.v) \in Nat /\ Value(s.v) = Value(a) - Value(b)
      BY <1>4, ValueIs
    <3> QED
      BY <1>3, <3>4, <3>5
  <2> QED
    BY <1>1, <2>2, <2>3
<1>7. CASE ~C!isZero(n) /\ ~(C!compare(o, n) < 0)
  <2>1. r = Through(o, s)
    BY <1>7, CoreIs DEF minusAssign
  <2> HIDE DEF s, r
  <2>2. /\ r.v.digits \in NP!Vectors
        /\ o.impl = "none" => r = D!Returns(o)
        /\ o.impl # "none" => r.ok = s.ok /\ r.v.digits = s.v
    BY <1>4, <2>1, ThroughIs
  <2>3. o.impl = "none" => r.v.digits = a
    BY <2>2, ResultIs
  <2>4. /\ r.v.digits \in NP!Vectors
        /\ Normal(a) /\ r.ok => Normal(r.v.digits)
        /\ o.impl # "none" /\ Normal(a) /\ Normal(b) /\ NoBorrow(a, b)
             => Exact(r, Value(a) - Value(b))
    BY <1>4, <2>2, <2>3 DEF Exact
  <2> QED
    BY <2>4 DEF r
<1> QED
  BY <1>5, <1>6, <1>7

(* -- of an object.                                                        *)
LEMMA DecrementIs ==
  ASSUME NEW o, Object(o)
  PROVE  LET r == decrement(o)
         IN  /\ r.v.digits \in NP!Vectors
             /\ Normal(o.digits) /\ r.ok => Normal(r.v.digits)
<1> DEFINE r == decrement(o)
           a == o.digits
           s == NP!subtract(a, <<1>>)
<1>1. a \in NP!Vectors /\ <<1>> \in NP!Vectors
  BY ValueIs DEF Object
<1>2. s.v \in NP!Vectors /\ (s.ok => Normal(s.v))
  BY <1>1, SubtractIs
<1>3. CASE C!isZero(o)
  <2>1. r = D!Throws(o)
    BY <1>3 DEF decrement
  <2> QED
    BY <1>1, <2>1, ResultIs
<1>4. CASE ~C!isZero(o)
  <2>1. cardinal(<<1>>).digits = <<1>>
    BY DEF cardinal
  <2>2. C!subtract(o, cardinal(<<1>>)) = Through(o, NP!subtract(a, cardinal(<<1>>).digits))
    BY CoreIs
  <2>3. r = Through(o, s)
    BY <1>4, <2>1, <2>2 DEF decrement
  <2> HIDE DEF s, r
  <2>4. /\ r.v.digits \in NP!Vectors
        /\ o.impl = "none" => r = D!Returns(o)
        /\ o.impl # "none" => r.ok = s.ok /\ r.v.digits = s.v
    BY <1>2, <2>3, ThroughIs
  <2>5. o.impl = "none" => r.v.digits = a
    BY <2>4, ResultIs
  <2>6. r.v.digits \in NP!Vectors /\ (Normal(a) /\ r.ok => Normal(r.v.digits))
    BY <1>2, <2>4, <2>5
  <2> QED
    BY <2>6 DEF r
<1> QED
  BY <1>3, <1>4

(* *= of objects.                                                          *)
LEMMA TimesIs ==
  ASSUME NEW o, Object(o), NEW n, n.digits \in Seq(NP!D!digit)
  PROVE  LET r == timesAssign(o, n)
             a == o.digits
             b == n.digits
         IN  /\ r.v.digits \in NP!Vectors
             /\ Normal(a) /\ r.ok => Normal(r.v.digits)
             /\ b # <<>> /\ o.impl # "none"
                  /\ (o.impl = "naive" \/ Len(a) < Threshold \/ Len(b) < Threshold)
                  => Exact(r, Value(a) * Value(b))
<1> DEFINE r == timesAssign(o, n)
           a == o.digits
           b == n.digits
           p == NP!multiply(a, b)
           short == o.impl = "naive" \/ Len(a) < Threshold \/ Len(b) < Threshold
<1>1. a \in NP!Vectors /\ Selected(o) /\ a \in Seq(NP!D!digit) /\ b \in Seq(NP!D!digit)
  BY VectorsAre DEF Object
<1>2. /\ C!isZero(n) <=> b \in {<<>>, <<0>>}
      /\ C!isZero(o) <=> a \in {<<>>, <<0>>}
      /\ C!isOne(n) <=> b = <<1>>
  BY <1>1, TestsAre
<1>3. /\ b # <<>> => b \in NP!Vectors
      /\ a \in {<<>>, <<0>>} => Value(a) = 0
      /\ Value(a) \in Nat /\ (b # <<>> => Value(b) \in Nat)
      /\ b # <<>> /\ b \in {<<>>, <<0>>} => Value(b) = 0
      /\ b = <<1>> => Value(b) = 1
  <2>1. b # <<>> => b \in NP!Vectors
    BY <1>1 DEF NP!Vectors
  <2> QED
    BY <1>1, <2>1, TestValues, ValueIs
<1>4. CASE C!isZero(n) \/ C!isZero(o)
  <2>1. r = D!Returns(cardinal(<<0>>))
    BY <1>4 DEF timesAssign, N!Zero
  <2>2. r.ok /\ r.v.digits = <<0>>
    BY <2>1, ResultIs DEF cardinal
  <2>3. <<0>> \in NP!Vectors /\ Normal(<<0>>) /\ Value(<<0>>) = 0
    BY ValueIs, VectorsAre
  <2>4. b # <<>> => Value(a) * Value(b) = 0
    BY <1>2, <1>3, <1>4
  <2> QED
    BY <2>2, <2>3, <2>4 DEF Exact
<1>5. CASE ~C!isZero(n) /\ ~C!isZero(o) /\ C!isOne(n)
  <2>1. r = D!Returns(o)
    BY <1>5 DEF timesAssign
  <2>2. r.ok /\ r.v.digits = a
    BY <2>1, ResultIs
  <2>3. Value(a) * Value(b) = Value(a)
    BY <1>2, <1>3, <1>5
  <2> QED
    BY <1>1, <2>2, <2>3 DEF Exact
<1>6. CASE ~C!isZero(n) /\ ~C!isZero(o) /\ ~C!isOne(n)
  <2>1. r = C!multiply(o, n)
    BY <1>6 DEF timesAssign
  <2>2. PICK k \in Products : r = Through(o, k) /\ (short => k = D!Returns(p))
    BY <1>1, <2>1, MultiplyIs
  <2>3. k.v \in NP!Vectors /\ (k.ok => Normal(k.v)) /\ (short => k.ok /\ k.v = p)
    BY <2>2, VectorsAre, ResultIs DEF Products
  <2>4. b # <<>> => Value(p) = Value(a) * Value(b)
    <3> HIDE DEF a, b
    <3>1. a # <<>>
      BY <1>1 DEF NP!Vectors
    <3> SUFFICES ASSUME b # <<>> PROVE Value(p) = Value(a) * Value(b)
      OBVIOUS
    <3>2. NP!Value(NP!multiply(a, b)) = NP!Value(a) * NP!Value(b)
      BY <1>1, <3>1, WidthFacts, NP!NaiveMultiplyExact
    <3> QED
      BY <3>2, ValueIs
  <2> HIDE DEF r, p, short
  <2>5. /\ r.v.digits \in NP!Vectors
        /\ o.impl = "none" => r = D!Returns(o)
        /\ o.impl # "none" => r.ok = k.ok /\ r.v.digits = k.v
    BY <2>2, <2>3, ThroughIs
  <2>6. o.impl = "none" => r.v.digits = a
    BY <2>5, ResultIs
  <2>7. /\ r.v.digits \in NP!Vectors
        /\ Normal(a) /\ r.ok => Normal(r.v.digits)
        /\ b # <<>> /\ o.impl # "none" /\ short => Exact(r, Value(a) * Value(b))
    BY <2>3, <2>4, <2>5, <2>6 DEF Exact
  <2> QED
    BY <2>7 DEF r, short
<1> QED
  BY <1>4, <1>5, <1>6

(* divide works on fresh objects, through the Karatsuba implementation.    *)
LEMMA DivideIs ==
  ASSUME NEW a, NEW b
  PROVE  LET d == NP!divide(a, b, [q |-> <<0>>, r |-> <<0>>])
         IN  over(a, b) = [ok |-> d.ok, v |-> d.q] /\ rem(a, b) = [ok |-> d.ok, v |-> d.r]
<1> DEFINE old == [q |-> <<0>>, r |-> <<0>>]
           d == C!K!divide(a, b, old)
           z == cardinal(N!Zero)
<1>1. /\ z = [digits |-> <<0>>, active |-> "auto", impl |-> "karatsuba"]
      /\ cardinal(a).digits = a /\ cardinal(b).digits = b /\ cardinal(a).impl = "karatsuba"
  BY DEF cardinal, C!createBest, N!Zero
<1>2. C!divide(cardinal(a), cardinal(b), z, z)
        = [ok |-> d.ok, q |-> [z EXCEPT !.digits = d.q], r |-> [z EXCEPT !.digits = d.r]]
  BY <1>1 DEF C!divide
<1>3. C!divide(cardinal(a), cardinal(b), z, z)
        = [ok |-> d.ok, q |-> [digits |-> d.q, active |-> "auto", impl |-> "karatsuba"],
                        r |-> [digits |-> d.r, active |-> "auto", impl |-> "karatsuba"]]
  <2> HIDE DEF d, z
  <2>1. ASSUME NEW x PROVE [z EXCEPT !.digits = x]
        = [digits |-> x, active |-> "auto", impl |-> "karatsuba"]
    BY <1>1
  <2> QED
    BY <1>2, <2>1
<1>4. divide(a, b) = N!pair(d.ok, d.q, d.r)
  <2> DEFINE w == C!divide(cardinal(a), cardinal(b), z, z)
  <2>1. divide(a, b) = N!pair(w.ok, w.q.digits, w.r.digits)
    BY DEF divide
  <2> HIDE DEF w, d
  <2>2. w.ok = d.ok /\ w.q.digits = d.q /\ w.r.digits = d.r
    BY <1>3 DEF w
  <2> QED
    BY <2>1, <2>2
<1>5. d = NP!divide(a, b, old)
  BY KaratsubaNaive DEF C!K!divide
<1> HIDE DEF d
<1>6. over(a, b) = [ok |-> d.ok, v |-> d.q] /\ rem(a, b) = [ok |-> d.ok, v |-> d.r]
  BY <1>4 DEF over, rem, N!quotientOf, N!remainderOf, N!pair
<1> QED
  BY <1>5, <1>6

(* /= and %= of objects.                                                   *)
LEMMA DivisionIs ==
  ASSUME NEW o, Object(o), NEW n, n.digits \in Seq(NP!D!digit)
  PROVE  \A r \in {overAssign(o, n), remAssign(o, n)} :
           r.v.digits \in NP!Vectors /\ (Normal(o.digits) /\ r.ok => Normal(r.v.digits))
<1> DEFINE a == o.digits
           b == n.digits
           d == NP!divide(a, b, [q |-> <<0>>, r |-> <<0>>])
<1>1. a \in NP!Vectors
  BY DEF Object
<1>2. /\ d.ok => d.q \in NP!Vectors /\ d.r \in NP!Vectors
      /\ d.ok /\ Normal(a) => Normal(d.q) /\ Normal(d.r)
  <2>1. CASE b = <<>>
    <3>1. NP!isZero(b)
      BY <2>1 DEF NP!isZero
    <3>4. ~NP!isOne(b)
      BY <2>1 DEF NP!isOne
    <3>2. d = NP!pair(FALSE, <<0>>, <<0>>)
      <4> HIDE DEF a, b
      <4> QED
        BY <3>1, <3>4 DEF NP!divide
    <3>3. ~d.ok
      BY <3>2 DEF NP!pair
    <3> QED
      BY <3>3
  <2>2. CASE b # <<>>
    <3>1. b \in NP!Vectors
      BY <2>2 DEF NP!Vectors
    <3>2. /\ d.ok => d.q \in NP!Vectors /\ d.r \in NP!Vectors
          /\ d.ok /\ a \in NP!Normals => d.q \in NP!Normals /\ d.r \in NP!Normals
      <4> HIDE DEF a, b
      <4> QED
        BY <1>1, <3>1, WidthFacts, NP!NaiveDivideVectors
    <3> HIDE DEF d
    <3> QED
      BY <1>1, <3>2, VectorsAre
  <2> QED
    BY <2>1, <2>2
<1>3. over(a, b) = [ok |-> d.ok, v |-> d.q] /\ rem(a, b) = [ok |-> d.ok, v |-> d.r]
  BY DivideIs
<1> HIDE DEF d
<1>4. ASSUME NEW e, e.ok => e.v \in NP!Vectors, e.ok /\ Normal(a) => Normal(e.v)
      PROVE  LET r == movedIn(o, e)
             IN  r.v.digits \in NP!Vectors /\ (Normal(a) /\ r.ok => Normal(r.v.digits))
  <2> DEFINE r == movedIn(o, e)
  <2>1. CASE e.ok
    <3>1. r = D!Returns(cardinal(e.v)) /\ cardinal(e.v).digits = e.v
      BY <2>1 DEF movedIn, cardinal
    <3>2. r.v.digits = e.v
      BY <3>1, ResultIs
    <3> QED
      BY <1>4, <2>1, <3>2
  <2>2. CASE ~e.ok
    <3>1. r = D!Throws(o)
      BY <2>2 DEF movedIn
    <3>2. r.v.digits = a
      BY <3>1, ResultIs
    <3> QED
      BY <1>1, <3>2
  <2> QED
    BY <2>1, <2>2
<1>5. overAssign(o, n) = movedIn(o, [ok |-> d.ok, v |-> d.q])
      /\ remAssign(o, n) = movedIn(o, [ok |-> d.ok, v |-> d.r])
  BY <1>3 DEF overAssign, remAssign
<1> QED
  BY <1>2, <1>4, <1>5

-----------------------------------------------------------------------------
(* The powers of two.                                                      *)

(* The states of the doubling loop, its results, and what is left of it: a *)
(* state whose counter is below n leads to one with a higher counter.      *)
Loops == NP!Vectors \X NP!Vectors
Powers == [ok : BOOLEAN, v : NP!Vectors]
Left(n) == [s \in Loops |-> IF M!less(s[1], n) THEN NP!Weight[Len(n)] - NP!Value(s[1]) ELSE 0]
Twice(p) == times(p, <<2>>)
Doubled(s) == <<NP!add(s[1], <<1>>), Twice(s[2]).v>>

(* A power doubled is a vector of digits.                                  *)
LEMMA TwiceVector ==
  ASSUME NEW p \in NP!Vectors
  PROVE  Twice(p).v \in NP!Vectors
<1> DEFINE o == cardinal(p)
           n == cardinal(<<2>>)
           r == timesAssign(o, n)
<1>1. 2 \in NP!D!digit
  BY WidthFacts, NP!DigitNat
<1>2. n.digits \in Seq(NP!D!digit)
  BY <1>1 DEF cardinal
<1>3. Object(o)
  BY CardinalObject
<1>4. r.v.digits \in NP!Vectors
  <2> HIDE DEF o, n
  <2> QED
    BY <1>2, <1>3, TimesIs
<1>5. Twice(p).v = r.v.digits
  BY DEF Twice, times, Digits
<1> QED
  BY <1>4, <1>5

(* One more doubling counts one up and leaves less to do.                  *)
LEMMA DoubledLess ==
  ASSUME NEW n \in NP!Vectors, NEW s \in Loops
  PROVE  /\ Left(n)[s] \in Nat /\ Doubled(s) \in Loops
         /\ M!less(s[1], n) => Left(n)[Doubled(s)] < Left(n)[s]
<1> DEFINE i == s[1]
           j == NP!add(i, <<1>>)
           w == NP!Weight[Len(n)]
           t == Doubled(s)
<1>1. i \in NP!Vectors /\ s[2] \in NP!Vectors
  BY DEF Loops
<1>2. i \in Seq(NP!D!digit) /\ i # <<>> /\ <<1>> \in Seq(NP!D!digit) /\ n \in Seq(NP!D!digit)
  BY <1>1, VectorsAre, ValueIs DEF NP!Vectors
<1>3. j \in NP!Vectors /\ NP!Value(j) = NP!Value(i) + 1
  <2>1. NP!Value(<<1>>) = 1
    BY ValueIs
  <2>2. /\ j \in Seq(NP!D!digit) /\ j # <<>>
        /\ NP!Value(j) = NP!Value(i) + NP!Value(<<1>>)
    BY <1>2, WidthFacts, NP!NaiveAddExact
  <2>3. j \in NP!Vectors
    BY <2>2 DEF NP!Vectors
  <2> QED
    BY <2>1, <2>2, <2>3
<1>4. t \in Loops /\ t[1] = j
  <2>1. Twice(s[2]).v \in NP!Vectors
    BY <1>1, TwiceVector
  <2> QED
    BY <1>3, <2>1 DEF Loops, Doubled
<1>5. \A a \in NP!Vectors : M!less(a, n) => NP!Value(a) < w /\ NP!Value(a) \in Nat /\ w \in Nat
  <2> SUFFICES ASSUME NEW a \in NP!Vectors, M!less(a, n)
               PROVE  NP!Value(a) < w /\ NP!Value(a) \in Nat /\ w \in Nat
    OBVIOUS
  <2>1. NP!compare(a, n) < 0
    BY MathNaive DEF M!less
  <2>2. a \in Seq(NP!D!digit)
    BY VectorsAre
  <2> QED
    BY <1>2, <2>1, <2>2, WidthFacts, NP!BelowBound
<1>6. Left(n)[s] = IF M!less(i, n) THEN w - NP!Value(i) ELSE 0
  BY DEF Left
<1>7. Left(n)[t] = IF M!less(j, n) THEN w - NP!Value(j) ELSE 0
  <2> HIDE DEF t, j
  <2> QED
    BY <1>4 DEF Left
<1>8. Left(n)[s] \in Nat
  BY <1>1, <1>5, <1>6
<1>9. ASSUME M!less(i, n) PROVE Left(n)[t] < Left(n)[s]
  <2>1. NP!Value(i) < w /\ NP!Value(i) \in Nat /\ w \in Nat
    BY <1>1, <1>5, <1>9
  <2>2. M!less(j, n) => NP!Value(j) < w
    BY <1>3, <1>5
  <2> HIDE DEF t, j, i, w
  <2> QED
    BY <1>3, <1>6, <1>7, <1>9, <2>1, <2>2
<1> QED
  BY <1>4, <1>8, <1>9

(* What the loop does in a state.                                          *)
LEMMA DoublingIs ==
  ASSUME NEW n, NEW limit, NEW s \in Loops
  PROVE  LET stop == ~Twice(s[2]).ok \/ M!bits(Twice(s[2]).v) > limit
         IN  \A f : M!doubling(f, n, limit, s[1], s[2], Twice(s[2]))
                      = IF ~M!less(s[1], n) THEN D!Returns(s[2])
                        ELSE IF stop THEN D!Throws(s[2]) ELSE f[Doubled(s)]
<1>1. M!N!add(s[1], <<1>>) = NP!add(s[1], <<1>>)
  BY MathNaive
<1>2. M!D!Returns(s[2]) = D!Returns(s[2]) /\ M!D!Throws(s[2]) = D!Throws(s[2])
  BY DEF M!D!Returns, M!D!Throws, D!Returns, D!Throws
<1> QED
  BY <1>1, <1>2 DEF M!doubling, Doubled

(* It returns or throws the power it has, or goes on.                      *)
LEMMA DoublingResult ==
  ASSUME NEW n, NEW limit, NEW s \in Loops, NEW f
  PROVE  LET d == M!doubling(f, n, limit, s[1], s[2], Twice(s[2]))
         IN  /\ ~M!less(s[1], n) => d = D!Returns(s[2])
             /\ d = D!Returns(s[2]) \/ d = D!Throws(s[2]) \/ d = f[Doubled(s)]
  BY DoublingIs

(* What it does depends on the states with less to do alone.               *)
LEMMA DoublingSame ==
  ASSUME NEW n \in NP!Vectors, NEW limit, NEW s \in Loops, NEW f, NEW g,
         \A q \in Loops : Left(n)[q] < Left(n)[s] => f[q] = g[q]
  PROVE  M!doubling(f, n, limit, s[1], s[2], Twice(s[2]))
           = M!doubling(g, n, limit, s[1], s[2], Twice(s[2]))
<1>1. M!less(s[1], n) => f[Doubled(s)] = g[Doubled(s)]
  BY DoubledLess
<1> QED
  BY <1>1, DoublingIs

(* The doubling loop of <<= and >>= ends and leaves a vector, although its *)
(* counter is a number of any length and its product may be Karatsuba's.   *)
LEMMA PowerVector ==
  ASSUME NEW n \in NP!Vectors, NEW limit
  PROVE  M!powerOfTwo(n, limit) \in Powers
<1> DEFINE Body(f) == [s \in Loops |-> M!doubling(f, n, limit, s[1], s[2], Twice(s[2]))]
           it == CHOOSE f : f = Body(f)
           F == [q \in Loops \X [Loops -> Powers] |->
                   M!doubling(q[2], n, limit, q[1][1], q[1][2], Twice(q[1][2]))]
<1>1. M!powerOfTwo(n, limit) = it[<<<<0>>, <<1>>>>]
  BY VectorsAre DEF M!powerOfTwo, M!N!Zero, Loops, Twice
<1>2. <<<<0>>, <<1>>>> \in Loops
  BY ValueIs DEF Loops
<1>3. Left(n) \in [Loops -> Nat]
  <2>1. \A s \in Loops : Left(n)[s] \in Nat
    BY DoubledLess
  <2> QED
    BY <2>1 DEF Left
<1>4. \A s \in Loops : \A f \in [Loops -> Powers] :
        F[<<s, f>>] = M!doubling(f, n, limit, s[1], s[2], Twice(s[2]))
  OBVIOUS
<1>5. \A s \in Loops : D!Returns(s[2]) \in Powers /\ D!Throws(s[2]) \in Powers
  BY DEF Loops, Powers, D!Returns, D!Throws
<1>6. PICK f \in [Loops -> Powers] :
        \A s \in Loops : f[s] = M!doubling(f, n, limit, s[1], s[2], Twice(s[2]))
  <2> HIDE DEF F
  <2>1. NP!Total(F, Loops, Powers)
    <3> SUFFICES ASSUME NEW s \in Loops, NEW f \in [Loops -> Powers] PROVE F[<<s, f>>] \in Powers
      BY DEF NP!Total
    <3>1. Doubled(s) \in Loops
      BY DoubledLess
    <3>2. f[Doubled(s)] \in Powers
      BY <3>1
    <3>3. \/ F[<<s, f>>] = D!Returns(s[2]) \/ F[<<s, f>>] = D!Throws(s[2])
          \/ F[<<s, f>>] = f[Doubled(s)]
      <4> DEFINE d == M!doubling(f, n, limit, s[1], s[2], Twice(s[2]))
      <4>1. d = D!Returns(s[2]) \/ d = D!Throws(s[2]) \/ d = f[Doubled(s)]
        BY DoublingResult
      <4>2. F[<<s, f>>] = d
        BY <1>4
      <4> QED
        BY <4>1, <4>2
    <3> QED
      BY <1>5, <3>2, <3>3
  <2>2. NP!Local(F, Loops, Powers, Left(n))
    <3> SUFFICES ASSUME NEW s \in Loops, NEW f \in [Loops -> Powers], NEW g \in [Loops -> Powers],
                        \A q \in Loops : Left(n)[q] < Left(n)[s] => f[q] = g[q]
                 PROVE  F[<<s, f>>] = F[<<s, g>>]
      BY DEF NP!Local
    <3>1. F[<<s, f>>] = M!doubling(f, n, limit, s[1], s[2], Twice(s[2]))
          /\ F[<<s, g>>] = M!doubling(g, n, limit, s[1], s[2], Twice(s[2]))
      BY <1>4
    <3>2. M!doubling(f, n, limit, s[1], s[2], Twice(s[2]))
          = M!doubling(g, n, limit, s[1], s[2], Twice(s[2]))
      <4> HIDE DEF Body, it
      <4> QED
        BY DoublingSame
    <3> QED
      BY <3>1, <3>2
  <2>3. Powers # {}
    BY <1>2, <1>5
  <2>4. NP!Defines(F, Loops, Powers)
    BY <1>3, <2>1, <2>2, <2>3, NP!MeasureRecursion
  <2> QED
    BY <1>4, <2>4 DEF NP!Defines
<1>7. f = Body(f)
  BY <1>6
<1>8. it = Body(it)
  <2> HIDE DEF Body
  <2> QED
    BY <1>7
<1>9. \A s \in Loops : it[s] = M!doubling(it, n, limit, s[1], s[2], Twice(s[2]))
  <2> HIDE DEF it
  <2> QED
    BY <1>8
<1> HIDE DEF it, F, Body
<1>10. \A s \in Loops : it[s] \in Powers
  <2> DEFINE T == {k \in Nat : \E s \in Loops : Left(n)[s] = k /\ it[s] \notin Powers}
  <2>1. T = {}
    <3> SUFFICES ASSUME T # {} PROVE FALSE
      OBVIOUS
    <3>1. PICK k \in T : \A l \in T : k <= l
      <4>1. T \in SUBSET Nat
        OBVIOUS
      <4> HIDE DEF T
      <4> QED
        BY <4>1, NP!LeastNatural
    <3>2. PICK s \in Loops : Left(n)[s] = k /\ it[s] \notin Powers
      BY <3>1
    <3>3. \A q \in Loops : Left(n)[q] < Left(n)[s] => it[q] \in Powers
      BY <1>3, <3>1, <3>2
    <3>4. M!less(s[1], n) => it[Doubled(s)] \in Powers
      BY <3>3, DoubledLess
    <3>5. /\ ~M!less(s[1], n) => it[s] = D!Returns(s[2])
          /\ it[s] = D!Returns(s[2]) \/ it[s] = D!Throws(s[2]) \/ it[s] = it[Doubled(s)]
      <4> DEFINE d == M!doubling(it, n, limit, s[1], s[2], Twice(s[2]))
      <4>1. /\ ~M!less(s[1], n) => d = D!Returns(s[2])
            /\ d = D!Returns(s[2]) \/ d = D!Throws(s[2]) \/ d = it[Doubled(s)]
        BY DoublingResult
      <4>2. it[s] = d
        BY <1>9
      <4> HIDE DEF d
      <4> QED
        BY <4>1, <4>2
    <3> QED
      BY <1>5, <3>2, <3>4, <3>5
  <2> QED
    BY <1>3, <2>1
<1> QED
  BY <1>1, <1>2, <1>10

-----------------------------------------------------------------------------
(* The shifts and the bitwise operators.                                   *)

(* What an assigning operator leaves: a vector, and a normal one when the  *)
(* operand was normal and the call returned.                               *)
Kept(o, r) == r.v.digits \in NP!Vectors /\ (Normal(o.digits) /\ r.ok => Normal(r.v.digits))

(* A call that leaves the object alone.                                    *)
LEMMA KeptSame ==
  ASSUME NEW o, Object(o)
  PROVE  Kept(o, D!Returns(o)) /\ Kept(o, D!Throws(o))
  BY ResultIs DEF Object, Kept

(* One that gives it a normal vector.                                      *)
LEMMA KeptPlain ==
  ASSUME NEW o, Object(o), NEW a \in NP!Normals
  PROVE  Kept(o, Plain(o, a))
<1>1. a \in NP!Vectors /\ Normal(a)
  BY VectorsAre
<1> DEFINE r == Plain(o, a)
<1>2. /\ r.v.digits \in NP!Vectors
      /\ o.impl = "none" => r = D!Returns(o)
      /\ o.impl # "none" => r.ok /\ r.v.digits = a
  BY <1>1, PlainIs
<1> HIDE DEF r
<1>3. CASE o.impl = "none"
  BY <1>2, <1>3, KeptSame DEF r
<1>4. CASE o.impl # "none"
  <2>1. Kept(o, r)
    BY <1>1, <1>2, <1>4 DEF Kept
  <2> QED
    BY <2>1 DEF r
<1> QED
  BY <1>3, <1>4

(* An amount that shifts bits is a positive number below the word's bits.  *)
LEMMA SmallShift ==
  ASSUME NEW n \in NP!Vectors, ~N!isZero(n), small(n)
  PROVE  n[1] \in Nat /\ 0 < n[1] /\ n[1] < NP!D!Bits
<1>1. n \in Seq(NP!D!digit) /\ Len(n) = 1 /\ n[1] < NP!D!Bits
  BY VectorsAre, WidthFacts DEF small
<1>2. n[1] \in Nat
  BY <1>1, WidthFacts, NP!DigitNat
<1>3. n[1] # 0
  <2>1. n = <<n[1]>>
    BY <1>1
  <2> QED
    BY <2>1 DEF N!isZero, N!Zero
<1> QED
  BY <1>1, <1>2, <1>3

(* <<= and >>=, by bits, by a product and by a quotient.                   *)
LEMMA ShiftIs ==
  ASSUME NEW o, Object(o), NEW n \in NP!Vectors
  PROVE  Kept(o, shlAssign(o, n)) /\ Kept(o, shrAssign(o, n))
<1> DEFINE assigned(product) == IF product.ok THEN D!Returns(C!copyOf(product.v)) ELSE D!Throws(o)
           times2(power) == IF power.ok THEN assigned(timesAssign(C!copyOf(o), cardinal(power.v)))
                            ELSE D!Throws(o)
           over2(power) == IF power.ok THEN overAssign(o, cardinal(power.v)) ELSE D!Throws(o)
           up == M!powerOfTwo(n, bits(o.digits) + ShiftLimit)
           down == M!powerOfTwo(n, M!NoLimit(n))
<1>1. /\ shlAssign(o, n) = IF N!isZero(n) \/ C!isZero(o) THEN D!Returns(o)
                           ELSE IF bits(n) > ShiftLimit THEN D!Throws(o)
                           ELSE IF small(n) THEN C!shiftLeft(o, n[1]) ELSE times2(up)
      /\ shrAssign(o, n) = IF N!isZero(n) \/ C!isZero(o) THEN D!Returns(o)
                           ELSE IF small(n) THEN C!shiftRight(o, n[1]) ELSE over2(down)
  BY DEF shlAssign, shrAssign
<1>2. up \in Powers /\ down \in Powers
  BY PowerVector
<1>3. ASSUME NEW p \in Powers PROVE Kept(o, times2(p)) /\ Kept(o, over2(p))
  <2> DEFINE c == C!copyOf(o)
             k == cardinal(p.v)
             product == timesAssign(c, k)
  <2>1. p.v \in NP!Vectors
    BY DEF Powers
  <2>2. Object(c) /\ c.digits = o.digits
    BY CopyObject
  <2>3. Object(k) /\ k.digits \in Seq(NP!D!digit)
    BY <2>1, CardinalObject, VectorsAre
  <2>4. /\ product.v.digits \in NP!Vectors
        /\ Normal(o.digits) /\ product.ok => Normal(product.v.digits)
    <3> HIDE DEF c, k
    <3>1. /\ product.v.digits \in NP!Vectors
          /\ Normal(c.digits) /\ product.ok => Normal(product.v.digits)
      BY <2>2, <2>3, TimesIs
    <3> QED
      BY <2>2, <3>1
  <2>5. Kept(o, overAssign(o, k))
    <3> HIDE DEF k
    <3> QED
      BY <2>3, DivisionIs DEF Kept
  <2>6. Kept(o, assigned(product))
    <3> HIDE DEF product
    <3>1. CASE product.ok
      <4>1. C!copyOf(product.v).digits = product.v.digits
        BY DEF C!copyOf
      <4>2. D!Returns(C!copyOf(product.v)).v.digits = product.v.digits
        BY <4>1, ResultIs
      <4>3. Kept(o, D!Returns(C!copyOf(product.v)))
        BY <2>4, <3>1, <4>2 DEF Kept
      <4> QED
        BY <3>1, <4>3
    <3>2. CASE ~product.ok
      BY <3>2, KeptSame
    <3> QED
      BY <3>1, <3>2
  <2> HIDE DEF assigned, product
  <2>7. Kept(o, times2(p))
    <3>1. times2(p) = IF p.ok THEN assigned(product) ELSE D!Throws(o)
      BY DEF product
    <3> QED
      BY <2>6, <3>1, KeptSame
  <2>8. Kept(o, over2(p))
    BY <2>5, KeptSame
  <2> QED
    BY <2>7, <2>8
<1>4. ~N!isZero(n) /\ small(n) => Kept(o, C!shiftLeft(o, n[1])) /\ Kept(o, C!shiftRight(o, n[1]))
  <2> SUFFICES ASSUME ~N!isZero(n), small(n)
               PROVE  Kept(o, C!shiftLeft(o, n[1])) /\ Kept(o, C!shiftRight(o, n[1]))
    OBVIOUS
  <2> DEFINE k == n[1]
  <2>1. k \in Nat /\ 0 < k /\ k < NP!D!Bits
    BY SmallShift
  <2> HIDE DEF k
  <2>2. o.digits \in NP!Vectors
    BY DEF Object
  <2>3. NP!shiftLeft(o.digits, k) \in NP!Normals /\ NP!shiftRight(o.digits, k) \in NP!Normals
    BY <2>1, <2>2, WidthFacts, NP!NaiveShiftVectors
  <2>4. Kept(o, C!shiftLeft(o, k)) /\ Kept(o, C!shiftRight(o, k))
    BY <2>3, ShiftsAre, KeptPlain
  <2> QED
    BY <2>4 DEF k
<1> HIDE DEF times2, over2, up, down
<1>5. Kept(o, times2(up)) /\ Kept(o, over2(down))
  BY <1>2, <1>3
<1> QED
  BY <1>1, <1>4, <1>5, KeptSame

(* The bitwise operators, and ~, which changes a copy.                     *)
LEMMA BitsAre ==
  ASSUME NEW o, Object(o), NEW n, Object(n)
  PROVE  /\ Kept(o, andAssign(o, n)) /\ Kept(o, orAssign(o, n)) /\ Kept(o, xorAssign(o, n))
         /\ complement(o).v.digits \in NP!Vectors
<1> DEFINE a == o.digits
           b == n.digits
<1>1. a \in NP!Vectors /\ b \in NP!Vectors
  BY DEF Object
<1>2. /\ NP!bitwiseAnd(a, b) \in NP!Normals /\ NP!bitwiseOr(a, b) \in NP!Normals
      /\ NP!bitwiseXor(a, b) \in NP!Normals /\ NP!bitwiseNot(a) \in NP!Normals
  <2> HIDE DEF a, b
  <2> QED
    BY <1>1, WidthFacts, NP!BitwiseVectors
<1>3. Kept(o, andAssign(o, n))
  BY <1>2, CoreIs, KeptPlain DEF andAssign
<1>4. Kept(o, orAssign(o, n))
  BY <1>2, CoreIs, KeptPlain DEF orAssign
<1>5. Kept(o, xorAssign(o, n))
  BY <1>2, CoreIs, KeptPlain DEF xorAssign
<1>6. complement(o).v.digits \in NP!Vectors
  <2> DEFINE c == C!copyOf(o)
  <2>1. Object(c) /\ c.digits = a
    BY CopyObject
  <2> HIDE DEF c
  <2>2. Kept(c, Plain(c, NP!bitwiseNot(a)))
    BY <1>2, <2>1, KeptPlain
  <2>3. C!bitwiseNot(c) = Plain(c, NP!bitwiseNot(a))
    BY <2>1, CoreIs
  <2> QED
    BY <2>2, <2>3 DEF complement, c, Kept
<1> QED
  BY <1>3, <1>4, <1>5, <1>6

-----------------------------------------------------------------------------
(* The invariant, and the exactness of the results.                        *)

(* Every object holds at least one digit, each of the width.               *)
DigitsInv == \A x \in Objects : obj[x].digits \in NP!Vectors

(* A step that gives an object a vector keeps the invariant.               *)
LEMMA BecomesDigits ==
  ASSUME SelectedInv, DigitsInv, NEW x \in Objects, NEW o, o.digits \in NP!Vectors, Becomes(x, o)
  PROVE  DigitsInv'
<1>1. obj' = [obj EXCEPT ![x] = o]
  BY DEF Becomes
<1>2. \A y \in Objects : obj'[y] = IF y = x THEN o ELSE obj[y]
  BY <1>1 DEF SelectedInv
<1> QED
  BY <1>2 DEF DigitsInv

(* The two invariants together.                                            *)
LEMMA ObjectsAre ==
  ASSUME SelectedInv, DigitsInv, NEW x \in Objects
  PROVE  Object(obj[x]) /\ obj[x].digits \in NP!Vectors /\ obj[x].digits \in Seq(NP!D!digit)
  BY VectorsAre DEF SelectedInv, DigitsInv, Object

(* In every state that a program can reach, each object holds a nonempty   *)
(* vector of digits of the width: after throws in the middle of a          *)
(* subtraction, moves and borrows that went wrong too.                     *)
LEMMA DigitsAlways == Spec => []DigitsInv
<1>1. Init => DigitsInv
  <2>1. cardinal(N!Zero).digits \in NP!Vectors
    BY ValueIs DEF cardinal, N!Zero
  <2> QED
    BY <2>1 DEF Init, DigitsInv
<1>2. SelectedInv /\ DigitsInv /\ [Next]_obj => DigitsInv'
  <2> SUFFICES ASSUME SelectedInv, DigitsInv, [Next]_obj PROVE DigitsInv'
    OBVIOUS
  <2>1. CASE UNCHANGED obj
    BY <2>1 DEF DigitsInv
  <2>2. ASSUME NEW x \in Objects, NEW a \in Starts, Construct(x, a) PROVE DigitsInv'
    <3>1. a \in NP!Vectors
      BY ObjectsAssumption, VectorsAre
    <3>2. cardinal(a).digits \in NP!Vectors
      BY <3>1, CardinalObject
    <3> QED
      BY <2>2, <3>2, BecomesDigits DEF Construct
  <2>3. ASSUME NEW x \in Objects, NEW d \in D!digit, SetDigit(x, d) PROVE DigitsInv'
    <3>1. <<d>> \in NP!Vectors
      BY VectorsAre
    <3>2. Selected(obj[x])
      BY DEF SelectedInv
    <3>3. [obj[x] EXCEPT !.digits = <<d>>].digits = <<d>>
      BY <3>2 DEF Selected
    <3> QED
      BY <2>3, <3>1, <3>3, BecomesDigits DEF SetDigit
  <2>4. ASSUME NEW x \in Objects, NEW type, ConstructWith(x, type) \/ SetImplementation(x, type)
        PROVE  DigitsInv'
    <3>1. C!construct(type).digits \in NP!Vectors
      BY ValueIs DEF C!construct, C!N!Zero
    <3>2. C!setImplementation(obj[x], type).digits \in NP!Vectors
      BY ObjectsAre DEF C!setImplementation
    <3> QED
      BY <2>4, <3>1, <3>2, BecomesDigits DEF ConstructWith, SetImplementation
  <2>5. ASSUME NEW x \in Objects, NEW n \in Shifts, ShiftUp(x, n) \/ ShiftDown(x, n)
        PROVE  DigitsInv'
    <3>1. n \in NP!Vectors
      BY ObjectsAssumption, VectorsAre
    <3>2. shlAssign(obj[x], n).v.digits \in NP!Vectors /\ shrAssign(obj[x], n).v.digits \in NP!Vectors
      BY <3>1, ObjectsAre, ShiftIs DEF Kept
    <3> QED
      BY <2>5, <3>2, BecomesDigits DEF ShiftUp, ShiftDown
  <2>6. ASSUME NEW x \in Objects, PlusPlus(x) \/ MinusMinus(x) \/ Complement(x)
        PROVE  DigitsInv'
    <3>1. /\ increment(obj[x]).v.digits \in NP!Vectors
          /\ decrement(obj[x]).v.digits \in NP!Vectors
          /\ complement(obj[x]).v.digits \in NP!Vectors
      BY ObjectsAre, IncrementIs, DecrementIs, BitsAre
    <3> QED
      BY <2>6, <3>1, BecomesDigits DEF PlusPlus, MinusMinus, Complement
  <2>7. ASSUME NEW x \in Objects, NEW y \in Objects, Copy(x, y) PROVE DigitsInv'
    <3>1. C!copyOf(obj[y]).digits \in NP!Vectors
      BY ObjectsAre, CopyObject
    <3> QED
      BY <2>7, <3>1, BecomesDigits DEF Copy
  <2>8. ASSUME NEW x \in Objects, NEW y \in Objects, Move(x, y) PROVE DigitsInv'
    <3>1. C!movedFrom.digits \in NP!Vectors /\ obj[y].digits \in NP!Vectors
      BY ValueIs, ObjectsAre DEF C!movedFrom, C!N!Zero
    <3>2. \A z \in Objects : obj'[z] \in {obj[z], obj[y], C!movedFrom}
      BY <2>8 DEF Move, SelectedInv
    <3> QED
      BY <3>1, <3>2 DEF DigitsInv
  <2>9. ASSUME NEW x \in Objects, NEW y \in Objects,
               PlusAssign(x, y) \/ MinusAssign(x, y) \/ TimesAssign(x, y)
        PROVE  DigitsInv'
    <3>1. (x = y) \in BOOLEAN
      OBVIOUS
    <3>2. plusAssign(obj[x], obj[y], x = y).v.digits \in NP!Vectors
      BY <3>1, ObjectsAre, PlusIs
    <3>3. minusAssign(obj[x], obj[y]).v.digits \in NP!Vectors
      BY ObjectsAre, MinusIs
    <3>4. timesAssign(obj[x], obj[y]).v.digits \in NP!Vectors
      BY ObjectsAre, TimesIs
    <3> QED
      BY <2>9, <3>2, <3>3, <3>4, BecomesDigits DEF PlusAssign, MinusAssign, TimesAssign
  <2>10. ASSUME NEW x \in Objects, NEW y \in Objects, OverAssign(x, y) \/ RemAssign(x, y)
         PROVE  DigitsInv'
    <3>1. overAssign(obj[x], obj[y]).v.digits \in NP!Vectors
          /\ remAssign(obj[x], obj[y]).v.digits \in NP!Vectors
      BY ObjectsAre, DivisionIs
    <3> QED
      BY <2>10, <3>1, BecomesDigits DEF OverAssign, RemAssign
  <2>11. ASSUME NEW x \in Objects, NEW y \in Objects,
                AndAssign(x, y) \/ OrAssign(x, y) \/ XorAssign(x, y)
         PROVE  DigitsInv'
    <3>1. /\ andAssign(obj[x], obj[y]).v.digits \in NP!Vectors
          /\ orAssign(obj[x], obj[y]).v.digits \in NP!Vectors
          /\ xorAssign(obj[x], obj[y]).v.digits \in NP!Vectors
      BY ObjectsAre, BitsAre DEF Kept
    <3> QED
      BY <2>11, <3>1, BecomesDigits DEF AndAssign, OrAssign, XorAssign
  <2> QED
    BY <2>1, <2>2, <2>3, <2>4, <2>5, <2>6, <2>7, <2>8, <2>9, <2>10, <2>11 DEF Next
<1> QED
  BY <1>1, <1>2, SelectedAlways, PTL DEF Spec

(* In every state that a program can reach: ++ and += of another object    *)
(* are exact, and so is *= as long as Karatsuba does not split, whatever   *)
(* the widths, the lengths of the vectors, the implementation and the      *)
(* calls before (BigCardinal.h over BigNumberNaive.cpp).                   *)
THEOREM SumsAndProductsExact == Spec => []ResultsExact
<1>1. SelectedInv /\ DigitsInv => ResultsExact
  <2> SUFFICES ASSUME SelectedInv, DigitsInv, NEW x \in Objects, Live(x)
               PROVE  /\ Exact(increment(obj[x]), V(x) + 1)
                      /\ \A y \in Objects \ {x} : Exact(plusAssign(obj[x], obj[y], FALSE), V(x) + V(y))
                      /\ \A y \in Objects : ~Splits(x, y)
                           => Exact(timesAssign(obj[x], obj[y]), V(x) * V(y))
    BY DEF ResultsExact
  <2>1. Object(obj[x]) /\ obj[x].impl # "none"
    BY ObjectsAre DEF Live
  <2>2. Exact(increment(obj[x]), V(x) + 1)
    BY <2>1, IncrementIs DEF V
  <2>3. ASSUME NEW y \in Objects PROVE Exact(plusAssign(obj[x], obj[y], FALSE), V(x) + V(y))
    BY <2>1, ObjectsAre, PlusIs DEF V
  <2>4. ASSUME NEW y \in Objects, ~Splits(x, y)
        PROVE  Exact(timesAssign(obj[x], obj[y]), V(x) * V(y))
    <3> DEFINE o == obj[x]
               n == obj[y]
    <3>1. Object(o) /\ n.digits \in Seq(NP!D!digit) /\ n.digits # <<>> /\ o.digits \in Seq(NP!D!digit)
      BY ObjectsAre, VectorsAre
    <3>2. Len(o.digits) \in Nat /\ Len(n.digits) \in Nat /\ Threshold \in Nat
      BY <3>1, WidthFacts
    <3>3. o.impl = "naive" \/ o.impl = "karatsuba"
      BY <2>1 DEF Object, Selected, C!create, C!createBest
    <3>4. o.impl = "naive" \/ Len(o.digits) < Threshold \/ Len(n.digits) < Threshold
      BY <2>4, <3>2, <3>3 DEF Splits
    <3> HIDE DEF o, n
    <3>5. Exact(timesAssign(o, n), Value(o.digits) * Value(n.digits))
      <4>1. o.impl # "none"
        BY <3>3
      <4> QED
        BY <3>1, <3>4, <4>1, TimesIs
    <3> QED
      BY <3>5 DEF o, n, V
  <2> QED
    BY <2>2, <2>3, <2>4
<1> QED
  BY <1>1, SelectedAlways, DigitsAlways, PTL

(* In every such state compare of normal vectors is the order of the       *)
(* numbers, and -= where no digit has to borrow is exact.                  *)
THEOREM OrderAndDifferencesExact == Spec => []DifferencesExact
<1>1. SelectedInv /\ DigitsInv => DifferencesExact
  <2> SUFFICES ASSUME SelectedInv, DigitsInv, NEW x \in Objects, NEW y \in Objects, Live(x),
                      Normal(obj[x].digits), Normal(obj[y].digits)
               PROVE  LET c == C!compare(obj[x], obj[y])
                      IN  /\ (c < 0 <=> V(x) < V(y)) /\ (c = 0 <=> V(x) = V(y))
                          /\ NoBorrow(obj[x].digits, obj[y].digits)
                               => Exact(minusAssign(obj[x], obj[y]), V(x) - V(y))
    BY DEF DifferencesExact
  <2> DEFINE a == obj[x].digits
             b == obj[y].digits
             c == C!compare(obj[x], obj[y])
  <2>1. Object(obj[x]) /\ Object(obj[y]) /\ obj[x].impl # "none" /\ Selected(obj[x])
    BY ObjectsAre DEF Live, Object
  <2>2. c = NP!compare(a, b)
    BY <2>1, TestsAre
  <2>3. a \in NP!Normals /\ b \in NP!Normals
    BY ObjectsAre, VectorsAre
  <2>4. /\ a \in Seq(NP!D!digit) /\ a # <<>> /\ NP!normalize(a) = a
        /\ b \in Seq(NP!D!digit) /\ b # <<>> /\ NP!normalize(b) = b
    BY <2>3 DEF NP!Normals, NP!Vectors
  <2>5. (c < 0 <=> V(x) < V(y)) /\ (c = 0 <=> V(x) = V(y))
    <3> HIDE DEF a, b, c
    <3>1. /\ NP!compare(a, b) < 0 <=> NP!Value(a) < NP!Value(b)
          /\ NP!compare(a, b) = 0 <=> NP!Value(a) = NP!Value(b)
      BY <2>4, WidthFacts, NP!NaiveCompareExact
    <3>2. V(x) = NP!Value(a) /\ V(y) = NP!Value(b)
      BY ValueIs DEF V, a, b
    <3> QED
      BY <2>2, <3>1, <3>2
  <2>6. NoBorrow(a, b) => Exact(minusAssign(obj[x], obj[y]), V(x) - V(y))
    BY <2>1, MinusIs DEF V
  <2> QED
    BY <2>5, <2>6
<1> QED
  BY <1>1, SelectedAlways, DigitsAlways, PTL

(* In every such state a call on normal vectors that returns makes a       *)
(* normal vector: +=, x += x and *= with either implementation, -=, --,    *)
(* /=, %= whatever their trials did, <<= and >>=.                          *)
THEOREM NormalFormInvariant == Spec => []NormalFormKept
<1>1. SelectedInv /\ DigitsInv => NormalFormKept
  <2> SUFFICES ASSUME SelectedInv, DigitsInv, NEW x \in Objects, Normal(obj[x].digits),
                      NEW r, r.ok,
                      \/ r \in Shifted(x) \cup {decrement(obj[x])}
                      \/ \E y \in Objects : /\ Normal(obj[y].digits)
                                            /\ r \in Combined(x, y) \cup {minusAssign(obj[x], obj[y])}
               PROVE  Normal(r.v.digits)
    BY DEF NormalFormKept
  <2>1. Object(obj[x])
    BY ObjectsAre
  <2>2. CASE r \in Shifted(x)
    <3>1. PICK n \in Shifts : r = shlAssign(obj[x], n) \/ r = shrAssign(obj[x], n)
      BY <2>2 DEF Shifted
    <3>2. n \in NP!Vectors
      BY ObjectsAssumption, VectorsAre
    <3> QED
      BY <2>1, <3>1, <3>2, ShiftIs DEF Kept
  <2>3. CASE r = decrement(obj[x])
    BY <2>1, <2>3, DecrementIs
  <2>4. ASSUME NEW y \in Objects, Normal(obj[y].digits),
               r \in Combined(x, y) \cup {minusAssign(obj[x], obj[y])}
        PROVE  Normal(r.v.digits)
    <3>1. Object(obj[y]) /\ obj[y].digits \in Seq(NP!D!digit)
      BY ObjectsAre
    <3>2. CASE r = plusAssign(obj[x], obj[y], x = y)
      <4>1. (x = y) \in BOOLEAN
        OBVIOUS
      <4> QED
        BY <2>1, <2>4, <3>1, <3>2, <4>1, PlusIs
    <3>3. CASE r = timesAssign(obj[x], obj[y])
      BY <2>1, <3>1, <3>3, TimesIs
    <3>4. CASE r \in {overAssign(obj[x], obj[y]), remAssign(obj[x], obj[y])}
      BY <2>1, <3>1, <3>4, DivisionIs
    <3>5. CASE r = minusAssign(obj[x], obj[y])
      BY <2>1, <3>1, <3>5, MinusIs
    <3> QED
      BY <2>4, <3>2, <3>3, <3>4, <3>5 DEF Combined
  <2> QED
    BY <2>2, <2>3, <2>4
<1> QED
  BY <1>1, SelectedAlways, DigitsAlways, PTL
=============================================================================
