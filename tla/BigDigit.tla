------------------------------ MODULE BigDigit ------------------------------
(***************************************************************************)
(* bign::BigDigit (cpp/lib/bign/BigDigit.h): one machine word of a big     *)
(* number.  A digit is a number below 2^Bits; an operation that can leave  *)
(* the word returns the word and what overflowed (v and ov), and the       *)
(* assigning operators throw FlowException where the overflow is not 0.    *)
(* A text is the sequence of its characters' positions in the digit map,   *)
(* or Space.                                                               *)
(***************************************************************************)
EXTENDS Integers, Sequences, SequencesExt, FiniteSetsExt

CONSTANTS Bytes,    \* sizeof(digit), 8 in the build
          CharBit,  \* CHAR_BIT, 8
          IntBits   \* the width of an int, 32

Bits == Bytes * CharBit   \* BITS(digit)

(* What the code uses of the widths: a word holds more than one bit.       *)
Widths == /\ Bytes \in Nat /\ CharBit \in Nat /\ IntBits \in Nat \ {0}
          /\ 2^Bits \in Nat /\ 2^Bits > 2

Base == 2^Bits
digit == 0 .. (Base - 1)
Space == -1

(* Flow: the value of a call that may throw FlowException.                 *)
Returns(x) == [ok |-> TRUE, v |-> x]
Throws(x)  == [ok |-> FALSE, v |-> x]
flow(ov, kept, x) == IF ov # 0 THEN Throws(kept) ELSE Returns(x)

(* The word operations and what they report through their last argument.   *)
add(value, d) == [v |-> (value + d) % Base, ov |-> (value + d) \div Base]
mul(value, d) == [v |-> (value * d) % Base, ov |-> (value * d) \div Base]
div(value, d) == [v |-> value \div d, ov |-> value % d]
mod(value, d) == [v |-> value % d, ov |-> value \div d]
sub(value, d) == [v |-> (value - d) % Base, ov |-> IF d > value THEN d - value ELSE 0]
shl(value, d) == [v |-> (value * 2^d) % Base, ov |-> (value * 2^d) \div Base]
(* The mask is computed in an int: its shift takes the count modulo the    *)
(* width of an int, as the instruction the build emits does.               *)
shr(value, d) == [v |-> value \div 2^d, ov |-> value % 2^(d % IntBits)]

(* The assigning operators: %= ignores what mod reports, the others throw. *)
Assign(r, value) == flow(r.ov, value, r.v)
AddAssign(value, d) == Assign(add(value, d), value)
SubAssign(value, d) == Assign(sub(value, d), value)
MulAssign(value, d) == Assign(mul(value, d), value)
DivAssign(value, d) == Assign(div(value, d), value)
ModAssign(value, d) == Returns(mod(value, d).v)
ShrAssign(value, d) == Assign(shr(value, d), value)
ShlAssign(value, d) == Assign(shl(value, d), value)
Increment(value) == (value + 1) % Base
Decrement(value) == (value - 1) % Base

(* Bits of a word.                                                         *)
getbit(value, k) == (value \div 2^k) % 2 = 1
word(bit) == FoldRight(LAMBDA b, v : 2 * v + b, bit, 0)     \* from its bits, lowest first
Number(P(_)) == word([k \in 1 .. Bits |-> IF P(k - 1) THEN 1 ELSE 0])
setbit(value, k, on) == Number(LAMBDA j : IF j = k THEN on ELSE getbit(value, j))
BitAnd(x, y) == Number(LAMBDA k : getbit(x, k) /\ getbit(y, k))
BitOr(x, y)  == Number(LAMBDA k : getbit(x, k) \/ getbit(y, k))
BitXor(x, y) == Number(LAMBDA k : getbit(x, k) # getbit(y, k))
BitNot(x)    == Base - 1 - x
rotl(value, n) == BitOr(shl(value, n).v, value \div 2^(Bits - n))
rotr(value, n) == BitOr(value \div 2^n, shl(value, Bits - n).v)
(* The exclusive or is stored in an int before its bits are counted, and   *)
(* the loop runs while that is positive.                                   *)
distance(value, n) ==
  LET x == BitXor(value, n) % 2^IntBits
  IN  IF x >= 2^(IntBits - 1) THEN 0 ELSE Cardinality({k \in 0 .. (IntBits - 1) : getbit(x, k)})

(* Mutant of size: a power of two is taken for the number below it. *)
sizeBelow(value) ==
  LET halves[k \in Nat] == IF k = 0 THEN <<>> ELSE <<k>> \o halves[k \div 2]
      step(s, k) == IF s.n > 2^k THEN [i |-> s.i + k, n |-> s.n \div 2^k] ELSE s
  IN  IF value = 0 THEN 0 ELSE 1 + FoldLeft(step, [i |-> 0, n |-> value], halves[Bits \div 2]).i

(* size: the position of the highest bit, by halving the step; right for   *)
(* widths that are powers of two, as the code's are.                       *)
size(value) ==
  LET halves[k \in Nat] == IF k = 0 THEN <<>> ELSE <<k>> \o halves[k \div 2]
      step(s, k) == IF s.n >= 2^k THEN [i |-> s.i + k, n |-> s.n \div 2^k] ELSE s
  IN  IF value = 0 THEN 0 ELSE 1 + FoldLeft(step, [i |-> 0, n |-> value], halves[Bits \div 2]).i
log2(value) == IF size(value) > 0 THEN size(value) - 1 ELSE 0

(* The constructor from a text: a character that no longer fits hands the  *)
(* value read so far to the callback and starts again from the character;  *)
(* chunks is what the callback got, v what the constructor keeps.          *)
parse(s, base) ==
  LET added(m, c) == IF m.ok THEN AddAssign(m.v, c) ELSE m
      next(r, n, c) == IF n.ok THEN [r EXCEPT !.v = n.v]
                       ELSE [chunks |-> Append(r.chunks, r.v), v |-> c]
      read(r, c) == IF c = Space THEN r ELSE next(r, added(MulAssign(r.v, base), c), c)
  IN  FoldLeft(read, [chunks |-> <<>>, v |-> 0], s)

(* format: the digits of the value in the base, most significant first.    *)
format(value, base) ==
  LET digits[v \in Nat] == IF v = 0 THEN <<>> ELSE digits[v \div base] \o <<v % base>>
  IN  IF value = 0 THEN <<0>> ELSE digits[value]

(* What the numbers do with the two: the chunks of a text and its rest are *)
(* the digits of a number in the order they were read, and the zeros that  *)
(* a joined text starts with are dropped, save the last character.         *)
vector(r) == Append(r.chunks, r.v)
trimmed(text) ==
  SubSeq(text, Min({Len(text)} \cup {i \in DOMAIN text : text[i] # 0}), Len(text))
=============================================================================
