--------------------------- MODULE BigNumberNaive ---------------------------
(***************************************************************************)
(* bign::BigNumberNaive (cpp/lib/bign/BigNumberNaive.cpp): schoolbook      *)
(* arithmetic on vectors of digits, least significant digit first.  A      *)
(* function that writes its first argument is an operator that returns the *)
(* vector; one that may throw returns it with ok, because the vector keeps *)
(* what was written before the throw.                                      *)
(***************************************************************************)
EXTENDS Integers, Sequences, SequencesExt, FiniteSetsExt

CONSTANTS Bytes, CharBit, IntBits

D == INSTANCE BigDigit

Attempts == 10                         \* quotient digits divide tries at a position

Zero == <<0>>
Zeros(n) == <<>> \o [i \in 1 .. n |-> 0]
Positions(i, n) == [k \in 1 .. (n - i + 1) |-> i + k - 1]   \* i, i + 1, ..., n

normalize(a) ==
  IF a = <<>> THEN a ELSE SubSeq(a, 1, Max({1} \cup {i \in DOMAIN a : a[i] # 0}))

(* Mutant of addDigit: the last carry is lost. *)
addDigitShort(a, d, i) ==
  LET step(s, k) == LET r == D!add(s.v[k], s.c) IN [v |-> [s.v EXCEPT ![k] = r.v], c |-> r.ov]
  IN  IF i > Len(a) THEN Append(a, d)
      ELSE FoldLeft(step, [v |-> a, c |-> d], Positions(i, Len(a))).v

(* A digit added at a position, and its carry along the digits above.      *)
put(s, k, r) == [v |-> [s.v EXCEPT ![k] = r.v], c |-> r.ov]
carried(s) == IF s.c = 0 THEN s.v ELSE Append(s.v, s.c)
addDigit(a, d, i) ==
  IF i > Len(a) THEN Append(a, d)
  ELSE carried(FoldLeft(LAMBDA s, k : IF s.c = 0 THEN s ELSE put(s, k, D!add(s.v[k], s.c)),
                        [v |-> a, c |-> d], Positions(i, Len(a))))

add(a, b) == normalize(FoldLeftDomain(LAMBDA v, i : addDigit(v, b[i], i), a, b))

(* add when both arguments are the same vector: the digits read are the    *)
(* ones the carries have changed, up to the end the carries have moved.    *)
(* They move it by one digit at most, so the loop ends within the bound.   *)
addToItself(a) ==
  normalize(FoldLeft(LAMBDA v, i : IF i > Len(v) THEN v ELSE addDigit(v, v[i], i),
                     a, Positions(1, Len(a) + 1)))

(* A digit taken from a position, and the borrow from the digits above:    *)
(* the borrow is what sub reports.                                         *)
borrowed(s) == [ok |-> s.c = 0, v |-> s.v]
subtractDigit(a, d, i) ==
  IF i > Len(a) THEN D!Throws(a)
  ELSE borrowed(FoldLeft(LAMBDA s, k : IF s.c = 0 THEN s ELSE put(s, k, D!sub(s.v[k], s.c)),
                         [v |-> a, c |-> d], Positions(i, Len(a))))

(* Mutant of subtract: the zeros at the top stay. *)
subtractLong(a, b) ==
  FoldLeftDomain(LAMBDA s, i : IF s.ok THEN subtractDigit(s.v, b[i], i) ELSE s, D!Returns(a), b)
shortened(r) == [ok |-> r.ok, v |-> IF r.ok THEN normalize(r.v) ELSE r.v]
subtract(a, b) ==
  shortened(FoldLeftDomain(LAMBDA s, i : IF s.ok THEN subtractDigit(s.v, b[i], i) ELSE s,
                           D!Returns(a), b))

(* Mutant of multiply: the carry out of a product of digits is lost. *)
multiplyNoCarry(a, b) ==
  LET row(product, bi) ==
        LET step(p, ai) == addDigit(p, D!mul(a[ai], b[bi]).v, ai + bi - 1)
        IN  FoldLeftDomain(step, product, a)
  IN  normalize(FoldLeftDomain(row, Zeros(Len(a) + Len(b)), b))
(* One cell of a product: the digits multiplied, the carry and the cell    *)
(* added, each sum with its own overflow; the three make the next carry.   *)
cell(x, y, p, carry) ==
  LET last(ov, r) == [v |-> r.v, ov |-> (ov + r.ov) % D!Base]
      sum(m, t) == last(m.ov + t.ov, D!add(p, t.v))
      product(m) == sum(m, D!add(m.v, carry))
  IN  product(D!mul(x, y))

(* One row: the digits of a times one digit of b, from its place on.       *)
rowEnd(s, i) == IF s.c = 0 THEN s.v ELSE addDigit(s.v, s.c, i)
row(product, a, d, bi) ==
  rowEnd(FoldLeftDomain(LAMBDA s, ai :
           put(s, ai + bi - 1, cell(a[ai], d, s.v[ai + bi - 1], s.c)),
           [v |-> product, c |-> 0], a), bi + Len(a))
multiply(a, b) ==
  IF a = <<>> \/ b = <<>> THEN Zero
  ELSE normalize(FoldLeftDomain(LAMBDA p, bi : row(p, a, b[bi], bi), Zeros(Len(a) + Len(b)), b))

(* Mutant of compare: the digits are compared from the least significant one. *)
compareUp(a, b) ==
  LET differ == {i \in DOMAIN a : a[i] # b[i]}
      below(x, y) == IF x < y THEN -1 ELSE 1
  IN  IF Len(a) # Len(b) THEN below(Len(a), Len(b))
      ELSE IF differ = {} THEN 0 ELSE below(a[Min(differ)], b[Min(differ)])
compare(a, b) ==
  LET differ == {i \in DOMAIN a : a[i] # b[i]}
      below(x, y) == IF x < y THEN -1 ELSE 1
  IN  IF Len(a) # Len(b) THEN below(Len(a), Len(b))
      ELSE IF differ = {} THEN 0 ELSE below(a[Max(differ)], b[Max(differ)])

(* divide: the trial digit of the given attempt, which goes up and down    *)
(* from the estimate, and the divisor times it.                            *)
trial(q, attempt) ==
  CASE attempt % 2 = 1 /\ q < D!Base - 1 -> (q + (attempt + 1) \div 2) % D!Base
    [] attempt > 0 /\ attempt % 2 = 0 /\ q > 0 -> (q - attempt \div 2) % D!Base
    [] OTHER -> q

timesDigit(b, q) ==
  normalize(carried(FoldLeftDomain(LAMBDA s, i : put(s, i, cell(b[i], q, 0, s.c)),
                                   [v |-> Zeros(Len(b)), c |-> 0], b)))

(* Mutant of estimate: the digit below the top one is not looked at. *)
estimateTop(part, b) ==
  IF b[Len(b)] = 0 THEN 0 ELSE Min({part[Len(part)] \div b[Len(b)], D!Base - 1})

(* The estimate of a quotient digit from the top two digits of the part of *)
(* the remainder at the position, and the top digit of the divisor.        *)
estimate(part, b) ==
  LET n == Len(part)
      div_top == IF b[Len(b)] = 0 /\ Len(b) > 1 THEN b[Len(b) - 1] ELSE b[Len(b)]
      rem_top == IF n > 1 THEN part[n] * D!Base + part[n - 1] ELSE part[n]
  IN  IF div_top = 0 THEN 0 ELSE Min({rem_top \div div_top, D!Base - 1})

(* The quotient digit at position i (the code's q_idx + 1): the first      *)
(* trial whose product is not above the remainder is subtracted.           *)
productAt(i, b, q) == Zeros(i - 1) \o timesDigit(b, q)
fitting(i, r, b, q) ==
  {t \in 0 .. (Attempts - 1) : /\ \A u \in 0 .. t : trial(q, u) # 0
                               /\ compare(r, productAt(i, b, trial(q, t))) >= 0}
subtracted(i, s, q, left) ==
  [ok |-> left.ok, r |-> left.v, q |-> IF left.ok THEN [s.q EXCEPT ![i] = q] ELSE s.q]
taken(i, s, b, q) == subtracted(i, s, q, subtract(s.r, productAt(i, b, q)))
firstOf(i, s, b, q, fits) == IF fits = {} THEN s ELSE taken(i, s, b, trial(q, Min(fits)))
attempts(i, s, b, q) == firstOf(i, s, b, q, fitting(i, s.r, b, q))
dividePart(i, s, b, part) ==
  IF part = <<>> \/ compare(part, b) < 0 THEN s ELSE attempts(i, s, b, estimate(part, b))
divideAt(i, s, b) ==
  IF s.ok THEN dividePart(i, s, b, SubSeq(s.r, i, Min({i + Len(b), Len(s.r)}))) ELSE s

isZero(a) == a = <<>> \/ a = Zero
isOne(a) == a = <<1>>

(* divide writes its quotient and remainder, out on entry; a divisor of 0  *)
(* throws before they are touched.                                         *)
pair(ok, q, r) == [ok |-> ok, q |-> q, r |-> r]
done(q, r) == pair(TRUE, q, r)
finished(s) == IF s.ok THEN done(normalize(s.q), normalize(s.r)) ELSE s
longDivision(a, b, n) ==
  finished(FoldRight(LAMBDA i, s : divideAt(i, s, b), Positions(1, n), done(Zeros(n), a)))
divide(a, b, out) ==
  CASE isZero(b) -> pair(FALSE, out.q, out.r)
    [] ~isZero(b) /\ isZero(a) -> done(Zero, Zero)
    [] ~isZero(a) /\ isOne(b) -> done(a, Zero)
    [] OTHER -> IF compare(a, b) < 0 THEN done(Zero, a)
                ELSE longDivision(a, b, Max({1, Len(a) - Len(b) + 1}))
quotientOf(d)  == [ok |-> d.ok, v |-> d.q]
remainderOf(d) == [ok |-> d.ok, v |-> d.r]

(* The bitwise operations extend the shorter vector with zeros.            *)
At(a, i) == IF i <= Len(a) THEN a[i] ELSE 0
bitwise(op(_, _), a, b) ==
  normalize([i \in 1 .. Max({Len(a), Len(b)}) |-> op(At(a, i), At(b, i))])
bitwiseAnd(a, b) == bitwise(D!BitAnd, a, b)
bitwiseOr(a, b)  == bitwise(D!BitOr, a, b)
(* Mutant of bitwiseXor: the loop of bitwiseOr. *)
bitwiseXorOr(a, b) == bitwise(D!BitOr, a, b)
bitwiseXor(a, b) == bitwise(D!BitXor, a, b)
bitwiseNot(a)    == normalize([i \in DOMAIN a |-> D!BitNot(a[i])])

(* The digits and the bits of a shift.  BITS(digit) is the text            *)
(* sizeof(digit)*CHAR_BIT without parentheses, so bits / BITS(digit) is    *)
(* (bits / sizeof) * CHAR_BIT, and bits % BITS(digit) likewise.            *)
digit_shift(bits) == IF bits >= D!Bits THEN (bits \div Bytes) * CharBit ELSE 0
bit_shift(bits) == IF bits >= D!Bits THEN (bits % Bytes) * CharBit ELSE bits

(* Mutant of shiftedUp: the bits that leave the top digit are lost. *)
shiftedUpShort(a, whole, k) ==
  LET step(s, i) ==
        LET r == D!shl(s.v[i], k)
        IN  [v |-> [s.v EXCEPT ![i] = D!BitOr(r.v, s.c)], c |-> r.ov]
  IN  FoldLeft(step, [v |-> Zeros(whole) \o a, c |-> 0], Positions(whole + 1, whole + Len(a))).v

(* Left shift: whole digits first, then the bits within a digit, upwards.  *)
shiftedUp(a, whole, k) ==
  LET joined(r, c) == [v |-> D!BitOr(r.v, c), ov |-> r.ov]
  IN  carried(FoldLeft(LAMBDA s, i : put(s, i, joined(D!shl(s.v[i], k), s.c)),
                       [v |-> Zeros(whole) \o a, c |-> 0],
                       Positions(whole + 1, whole + Len(a))))
shiftLeft(a, bits) ==
  IF a = <<>> \/ bits = 0 THEN a ELSE normalize(shiftedUp(a, digit_shift(bits), bit_shift(bits)))

(* Right shift: the bits that leave a digit are put on top of the one      *)
(* below, which is shifted after that.                                     *)
shiftedDown(a, k) ==
  LET below(v, i, r) == [v EXCEPT ![i] = r.v,
                                  ![i - 1] = D!BitOr(v[i - 1], D!shl(r.ov, D!Bits - k).v)]
  IN  FoldRight(LAMBDA i, v : IF i = 1 THEN [v EXCEPT ![i] = D!shr(v[i], k).v]
                              ELSE below(v, i, D!shr(v[i], k)),
                Positions(1, Len(a)), a)
shiftRight(a, bits) ==
  LET kept == SubSeq(a, digit_shift(bits) + 1, Len(a))
  IN  IF a = <<>> \/ bits = 0 THEN a
      ELSE IF digit_shift(bits) >= Len(a) THEN Zero
      ELSE normalize(IF bit_shift(bits) = 0 THEN kept ELSE shiftedDown(kept, bit_shift(bits)))
=============================================================================
