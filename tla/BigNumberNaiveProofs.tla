------------------------ MODULE BigNumberNaiveProofs ------------------------
(***************************************************************************)
(* What the schoolbook arithmetic of BigNumberNaive.cpp computes on        *)
(* vectors of any length, for every width of a digit: the words, the sums, *)
(* products, order and differences of vectors, and that every operation    *)
(* makes vectors of digits.                                                *)
(* The width enters as BigDigit's Widths does: Base is a natural number    *)
(* above 2.                                                                *)
(* The order: a fold is the last state of a loop (FoldUp, StepsUp); the    *)
(* number of a vector is the sum of its digits times their weights         *)
(* (PartsOf); a step of a loop moves worth between a digit and the carry;  *)
(* so a loop keeps the sum.                                                *)
(***************************************************************************)
EXTENDS BigNumberNaive, FiniteSetTheorems, SequenceTheorems, WellFoundedInduction, TLAPS

-----------------------------------------------------------------------------
(* The words.                                                              *)

(* Division with remainder.                                                *)
LEMMA DivMod ==
  ASSUME NEW a \in Nat, NEW b \in Nat, b > 0
  PROVE  /\ a \div b \in Nat /\ a % b \in 0 .. (b - 1)
         /\ a = b * (a \div b) + (a % b)
<1>1. a \div b \in Int /\ a % b \in 0 .. (b - 1)
  BY SMT
<1>2. a = b * (a \div b) + (a % b)
  BY SMT
<1>3. a \div b >= 0
  BY <1>1, <1>2, SMT
<1>. QED  BY <1>1, <1>2, <1>3

(* Quotient and remainder are the only numbers with their properties.      *)
LEMMA DivModUnique ==
  ASSUME NEW a \in Int, NEW b \in Nat, b > 0, NEW q \in Int, NEW r \in 0 .. (b - 1),
         a = b * q + r
  PROVE  a \div b = q /\ a % b = r
  BY SMT

(* BigDigit::add: the word and the overflow together are the sum, and the  *)
(* overflow is one bit.                                                    *)
LEMMA AddExact ==
  ASSUME D!Base \in Nat, D!Base > 2, NEW x \in D!digit, NEW y \in D!digit
  PROVE  /\ D!add(x, y).v \in D!digit /\ D!add(x, y).ov \in 0 .. 1
         /\ D!add(x, y).v + D!add(x, y).ov * D!Base = x + y
<1>. DEFINE B == D!Base
            s == x + y
<1>1. B \in Nat /\ B > 2 /\ x \in 0 .. (B - 1) /\ y \in 0 .. (B - 1) /\ s \in Nat
  BY DEF D!digit
<1>2. D!add(x, y).v = s % B /\ D!add(x, y).ov = s \div B
  BY DEF D!add
<1>3. D!digit = 0 .. (B - 1)
  BY DEF D!digit
<1>. HIDE DEF B
<1>4. CASE s < B
  <2>1. s \div B = 0 /\ s % B = s
    BY <1>1, <1>4, DivModUnique
  <2>. QED  BY <1>1, <1>2, <1>3, <1>4, <2>1 DEF B
<1>5. CASE s >= B
  <2>1. s - B \in 0 .. (B - 1) /\ s = B * 1 + (s - B)
    BY <1>1, <1>5
  <2>2. s \div B = 1 /\ s % B = s - B
    BY <1>1, <2>1, DivModUnique
  <2>. QED  BY <1>1, <1>2, <1>3, <2>1, <2>2 DEF B
<1>. QED  BY <1>1, <1>4, <1>5

(* BigDigit::mul: the two words are the product, and the upper one is      *)
(* below the largest digit.                                                *)
LEMMA MulExact ==
  ASSUME D!Base \in Nat, D!Base > 2, NEW x \in D!digit, NEW y \in D!digit
  PROVE  /\ D!mul(x, y).v \in D!digit /\ D!mul(x, y).ov \in 0 .. (D!Base - 2)
         /\ D!mul(x, y).v + D!mul(x, y).ov * D!Base = x * y
<1>. DEFINE B == D!Base
            p == x * y
            q == p \div B
            r == p % B
<1>1. B \in Nat /\ B > 2 /\ x \in 0 .. (B - 1) /\ y \in 0 .. (B - 1)
  BY DEF D!digit
<1>2. D!mul(x, y).v = r /\ D!mul(x, y).ov = q
  BY DEF D!mul
<1>3. D!digit = 0 .. (B - 1)
  BY DEF D!digit
<1>. HIDE DEF B
<1>4. p \in Nat /\ p <= (B - 1) * (B - 1)
  BY <1>1, SMT
<1>5. q \in Nat /\ r \in 0 .. (B - 1) /\ p = B * q + r
  BY <1>1, <1>4, DivMod
<1>. HIDE DEF p, q, r
<1>6. q <= B - 2
  <2>1. SUFFICES ASSUME q >= B - 1 PROVE FALSE
    BY <1>1, <1>5
  <2>2. B * q >= B * (B - 1)
    BY <1>1, <1>5, <2>1, SMT
  <2>3. B * (B - 1) > (B - 1) * (B - 1)
    BY <1>1, SMT
  <2>4. B * q \in Int /\ B * (B - 1) \in Int /\ (B - 1) * (B - 1) \in Int
    BY <1>1, <1>5
  <2>. QED  BY <1>1, <1>4, <1>5, <2>2, <2>3, <2>4
<1>7. r + q * B = x * y
  BY <1>1, <1>5, SMT DEF p
<1>. QED  BY <1>1, <1>2, <1>3, <1>5, <1>6, <1>7 DEF B

(* BigDigit::sub: the word is the difference modulo the base and an        *)
(* overflow is reported exactly when it borrows, but the number reported   *)
(* is the 1 that the next digit owes only where y is x + 1.                *)
THEOREM SubBorrow ==
  ASSUME D!Base \in Nat, D!Base > 2, NEW x \in D!digit, NEW y \in D!digit
  PROVE  LET s == D!sub(x, y)
             owed == IF y > x THEN 1 ELSE 0
         IN  /\ s.v \in D!digit /\ s.ov \in D!digit
             /\ s.v - owed * D!Base = x - y
             /\ s.ov = 0 <=> owed = 0
             /\ s.ov = owed <=> y <= x + 1
<1>. DEFINE B == D!Base
            v == (x - y) % B
            ov == IF y > x THEN y - x ELSE 0
<1>1. B \in Nat /\ B > 2 /\ x \in 0 .. (B - 1) /\ y \in 0 .. (B - 1)
  BY DEF D!digit
<1>2. D!sub(x, y).v = v /\ D!sub(x, y).ov = ov
  BY DEF D!sub
<1>3. D!digit = 0 .. (B - 1)
  BY DEF D!digit
<1>. HIDE DEF B
<1>4. CASE y <= x
  <2>1. x - y \in 0 .. (B - 1) /\ x - y = B * 0 + (x - y)
    BY <1>1, <1>4
  <2>2. v = x - y
    BY <1>1, <2>1, DivModUnique
  <2>. QED  BY <1>1, <1>2, <1>3, <1>4, <2>1, <2>2
<1>5. CASE y > x
  <2>1. x - y + B \in 0 .. (B - 1) /\ x - y = B * (-1) + (x - y + B)
    BY <1>1, <1>5
  <2>2. v = x - y + B
    BY <1>1, <2>1, DivModUnique
  <2>. QED  BY <1>1, <1>2, <1>3, <1>5, <2>1, <2>2 DEF B
<1>. QED  BY <1>1, <1>4, <1>5

(* BigNumberNaive::multiply, one step of the inner loop: the sum of the    *)
(* three overflows never leaves a word, although each of them is added     *)
(* without a test, and the step is exact: the new cell and the new carry   *)
(* are the old cell and carry plus the product of the digits.              *)
THEOREM CellExact ==
  ASSUME D!Base \in Nat, D!Base > 2, NEW x \in D!digit, NEW y \in D!digit,
         NEW p \in D!digit, NEW carry \in D!digit
  PROVE  /\ cell(x, y, p, carry).v \in D!digit
         /\ cell(x, y, p, carry).ov \in D!digit
         /\ cell(x, y, p, carry).v + cell(x, y, p, carry).ov * D!Base = p + x * y + carry
<1>. DEFINE m == D!mul(x, y)
            t == D!add(m.v, carry)
            r == D!add(p, t.v)
            B == D!Base
            c == m.ov + t.ov + r.ov
            prod == x * y
<1>1. m.v \in D!digit /\ m.ov \in 0 .. (B - 2) /\ m.v + m.ov * B = prod
  BY MulExact
<1>2. t.v \in D!digit /\ t.ov \in 0 .. 1 /\ t.v + t.ov * B = m.v + carry
  BY <1>1, AddExact
<1>3. r.v \in D!digit /\ r.ov \in 0 .. 1 /\ r.v + r.ov * B = p + t.v
  BY <1>2, AddExact
<1>4. cell(x, y, p, carry) = [v |-> r.v, ov |-> c % B]
  BY DEF cell
<1>5. D!digit = 0 .. (B - 1)
  BY DEF D!digit
<1>6. B \in Nat /\ B > 2 /\ p \in Nat /\ carry \in 0 .. (B - 1) /\ p \in 0 .. (B - 1)
      /\ prod \in Nat /\ prod <= (B - 1) * (B - 1)
  <2>1. x \in 0 .. (B - 1) /\ y \in 0 .. (B - 1) /\ B \in Nat /\ B > 2
    BY <1>5
  <2>. HIDE DEF B
  <2>2. prod \in Nat /\ prod <= (B - 1) * (B - 1)
    BY <2>1, SMT
  <2>. QED  BY <2>1, <2>2, <1>5 DEF B
<1>. HIDE DEF m, t, r, B, prod
<1>7. c \in Nat /\ r.v + c * B = p + prod + carry
  <2>1. m.ov \in Nat /\ t.ov \in Nat /\ r.ov \in Nat
    <3>1. m.ov \in 0 .. (B - 2) /\ t.ov \in 0 .. 1 /\ r.ov \in 0 .. 1
      BY <1>1, <1>2, <1>3
    <3>. QED  BY <3>1, <1>6
  <2>2. m.v \in Nat /\ t.v \in Nat /\ r.v \in Nat
    <3>1. m.v \in 0 .. (B - 1) /\ t.v \in 0 .. (B - 1) /\ r.v \in 0 .. (B - 1)
      BY <1>1, <1>2, <1>3, <1>5
    <3>. QED  BY <3>1, <1>6
  <2>3. r.v + (m.ov + t.ov + r.ov) * B = p + prod + carry
    <3>. DEFINE mB == m.ov * B
                tB == t.ov * B
                rB == r.ov * B
                mv == m.v
                tv == t.v
                rv == r.v
    <3>1. carry \in Nat /\ p \in Nat /\ prod \in Nat /\ B \in Nat
      BY <1>6
    <3>2. mv + mB = prod /\ tv + tB = mv + carry /\ rv + rB = p + tv
      BY <1>1, <1>2, <1>3, Zenon
    <3>3. (m.ov + t.ov + r.ov) * B = mB + tB + rB
      BY <2>1, <3>1, SMT
    <3>4. mB \in Nat /\ tB \in Nat /\ rB \in Nat
      BY <2>1, <3>1, SMT
    <3>5. mv \in Nat /\ tv \in Nat /\ rv \in Nat
      BY <2>2
    <3>. HIDE DEF mB, tB, rB, mv, tv, rv
    <3>6. rv + (mB + tB + rB) = p + prod + carry
      BY <3>1, <3>2, <3>4, <3>5
    <3>. QED  BY <3>3, <3>6 DEF rv
  <2>. QED  BY <2>1, <2>3
<1>8. c < B
  <2>1. p + prod + carry <= (B - 1) + (B - 1) * (B - 1) + (B - 1)
    BY <1>6, SMT
  <2>2. (B - 1) + (B - 1) * (B - 1) + (B - 1) = B * B - 1
    BY <1>6, SMT
  <2>3. c * B <= B * B - 1
    BY <1>3, <1>5, <1>6, <1>7, <2>1, <2>2, SMT
  <2>. QED  BY <1>6, <1>7, <2>3, SMT
<1>9. c % B = c
  BY <1>6, <1>7, <1>8, DivModUnique
<1>. QED  BY <1>3, <1>4, <1>5, <1>6, <1>7, <1>8, <1>9 DEF B, prod

-----------------------------------------------------------------------------
(* Numbers, finite sets and folds.                                         *)

(* A nonempty set of natural numbers has a least one. The proofs below     *)
(* that go along a loop or a recursion take the least counterexample.      *)
LEMMA LeastNatural ==
  ASSUME NEW T \in SUBSET Nat, T # {}
  PROVE  \E m \in T : \A n \in T : m <= n
<1>1. \E x \in T : \A y \in T : ~(<<y, x>> \in OpToRel(<, Nat))
  BY NatLessThanWellFounded, WFMin
<1>2. PICK m \in T : \A y \in T : ~(<<y, m>> \in OpToRel(<, Nat))
  BY <1>1
<1>3. \A n \in T : ~(n < m)
  BY <1>2 DEF OpToRel
<1> QED
  BY <1>3

(* Induction along an initial segment of the naturals, for a set in place  *)
(* of a predicate.                                                         *)
LEMMA Induction ==
  ASSUME NEW n \in Nat, NEW P, 0 \in P, \A k \in 1..n : k - 1 \in P => k \in P
  PROVE  \A k \in 0..n : k \in P
<1> DEFINE T == {k \in 0..n : k \notin P}
<1> SUFFICES ASSUME T # {} PROVE FALSE
  OBVIOUS
<1>1. PICK m \in T : \A k \in T : m <= k
  <2>1. T \in SUBSET Nat
    OBVIOUS
  <2> HIDE DEF T
  <2> QED
    BY <2>1, LeastNatural
<1>2. m \in 1..n /\ m - 1 \in 0..n /\ m - 1 \notin T
  BY <1>1
<1> QED
  BY <1>2

(* A nonempty set of subsets of a finite set has a minimal one.            *)
LEMMA MinimalSet ==
  ASSUME NEW T, IsFiniteSet(T), NEW P \in SUBSET SUBSET T, P # {}
  PROVE  \E m \in P : \A S \in P : S \subseteq m => S = m
<1> DEFINE R == StrictSubsetOrdering(T)
<1>1. P \subseteq FiniteSubsetsOf(T) /\ IsWellFoundedOn(R, FiniteSubsetsOf(T))
  BY FS_Subset, FS_StrictSubsetOrderingWellFounded DEF FiniteSubsetsOf
<1>2. \E m \in P : \A S \in P : ~(<<S, m>> \in R)
  <2> HIDE DEF R
  <2> QED
    BY <1>1, WFMin
<1> QED
  BY <1>2 DEF StrictSubsetOrdering

(* g folds F over the subsets in Dm, from b, taking the elements that c    *)
(* chooses.                                                                *)
Folds(g, Dm, b, c, F) ==
  \A s \in Dm : g[s] = IF s = {} THEN b ELSE F[<<c[s], g[s \ {c[s]}]>>]
Downward(Dm, c) == \A s \in Dm : s # {} => s \ {c[s]} \in Dm

(* One subset more.                                                        *)
LEMMA FoldOneMore ==
  ASSUME NEW S, NEW X, NEW b \in X, NEW c, NEW F,
         \A s \in SUBSET S : s # {} => c[s] \in s,
         \A e \in S : \A x \in X : F[<<e, x>>] \in X,
         NEW Dm \in SUBSET SUBSET S, Downward(Dm, c),
         NEW g \in [Dm -> X], Folds(g, Dm, b, c, F),
         NEW M \in SUBSET S, M \notin Dm, M # {} => M \ {c[M]} \in Dm
  PROVE  /\ Downward(Dm \cup {M}, c)
         /\ \E h \in [Dm \cup {M} -> X] : Folds(h, Dm \cup {M}, b, c, F)
<1> DEFINE E == Dm \cup {M}
           top == IF M = {} THEN b ELSE F[<<c[M], g[M \ {c[M]}]>>]
           h == [s \in E |-> IF s = M THEN top ELSE g[s]]
<1>1. ASSUME NEW s \in E, s # {}
      PROVE  s \ {c[s]} \in Dm /\ s \ {c[s]} # M
  <2>1. s \ {c[s]} \in Dm
    BY <1>1, Zenon DEF Downward
  <2> QED
    BY <2>1, Zenon
<1>2. Downward(E, c)
  BY <1>1 DEF Downward
<1>3. top \in X
  <2>1. CASE M = {}
    BY <2>1
  <2>2. CASE M # {}
    <3>1. c[M] \in S /\ g[M \ {c[M]}] \in X
      BY <2>2
    <3> QED
      BY <2>2, <3>1
  <2> QED
    BY <2>1, <2>2
<1> HIDE DEF top
<1>4. h \in [E -> X]
  BY <1>3
<1>5. (\A s \in Dm : h[s] = g[s]) /\ h[M] = top
  OBVIOUS
<1> HIDE DEF h
<1>6. ASSUME NEW s \in E
      PROVE  h[s] = IF s = {} THEN b ELSE F[<<c[s], h[s \ {c[s]}]>>]
  <2>1. s # {} => h[s \ {c[s]}] = g[s \ {c[s]}]
    BY <1>1, <1>5
  <2>2. CASE s \in Dm
    BY <1>5, <2>1, <2>2 DEF Folds
  <2>3. CASE s = M
    BY <1>5, <2>1, <2>3 DEF top
  <2> QED
    BY <2>2, <2>3
<1> QED
  BY <1>2, <1>4, <1>6 DEF Folds

(* A fold over a finite set exists, and its values are in a set that the   *)
(* step does not leave.                                                    *)
LEMMA FoldExists ==
  ASSUME NEW S, IsFiniteSet(S), NEW X, NEW b \in X, NEW c, NEW F,
         \A s \in SUBSET S : s # {} => c[s] \in s,
         \A e \in S : \A x \in X : F[<<e, x>>] \in X
  PROVE  \E g \in [SUBSET S -> X] : Folds(g, SUBSET S, b, c, F)
<1> DEFINE Can(Dm) == Downward(Dm, c) /\ \E g \in [Dm -> X] : Folds(g, Dm, b, c, F)
           P == {(SUBSET S) \ Dm : Dm \in {E \in SUBSET SUBSET S : Can(E)}}
<1>1. Can({})
  <2>1. Downward({}, c)
    BY Zenon DEF Downward
  <2>2. \A g : Folds(g, {}, b, c, F)
    BY Zenon DEF Folds
  <2>3. [s \in {} |-> b] \in [{} -> X]
    OBVIOUS
  <2> QED
    BY <2>1, <2>2, <2>3, Zenon
<1>2. ASSUME NEW Dm \in SUBSET SUBSET S, Can(Dm), NEW M \in SUBSET S, M \notin Dm,
             M # {} => M \ {c[M]} \in Dm
      PROVE  Can(Dm \cup {M})
  <2>1. PICK g \in [Dm -> X] : Folds(g, Dm, b, c, F)
    BY <1>2
  <2>2. Downward(Dm, c)
    BY <1>2
  <2> HIDE DEF Can
  <2>3. /\ Downward(Dm \cup {M}, c)
        /\ \E h \in [Dm \cup {M} -> X] : Folds(h, Dm \cup {M}, b, c, F)
    BY ONLY b \in X, \A t \in SUBSET S : t # {} => c[t] \in t,
            \A e \in S : \A x \in X : F[<<e, x>>] \in X,
            <1>2, <2>1, <2>2, FoldOneMore, Zenon
  <2> QED
    BY <2>3 DEF Can
<1>3. \A E \in SUBSET SUBSET S : Can(E) => \E g \in [E -> X] : Folds(g, E, b, c, F)
  OBVIOUS
<1> HIDE DEF Can
<1>4. IsFiniteSet(SUBSET S)
  BY FS_SUBSET
<1>5. P \in SUBSET SUBSET SUBSET S /\ P # {}
  <2>1. {} \in {E \in SUBSET SUBSET S : Can(E)}
    BY <1>1, Zenon
  <2>2. (SUBSET S) \ {} \in P
    BY <2>1, Zenon
  <2>3. P \in SUBSET SUBSET SUBSET S
    OBVIOUS
  <2> QED
    BY <2>2, <2>3, Zenon
<1>6. PICK m \in P : \A T \in P : T \subseteq m => T = m
  <2> HIDE DEF P
  <2> QED
    BY <1>4, <1>5, MinimalSet
<1>7. PICK Dm \in SUBSET SUBSET S : Can(Dm) /\ m = (SUBSET S) \ Dm
  BY <1>6
<1>8. m = {}
  <2> SUFFICES ASSUME m # {} PROVE FALSE
    OBVIOUS
  <2>1. m \in SUBSET SUBSET S
    BY <1>7
  <2>2. PICK M \in m : \A s \in m : s \subseteq M => s = M
    BY <2>1, MinimalSet
  <2>3. M \in SUBSET S /\ M \notin Dm
    BY <1>7, <2>2
  <2>4. ASSUME M # {} PROVE M \ {c[M]} \in Dm
    BY <1>7, <2>2, <2>3, <2>4
  <2>5. Can(Dm \cup {M})
    BY <1>2, <1>7, <2>3, <2>4
  <2>6. (SUBSET S) \ (Dm \cup {M}) \in P
    BY <2>3, <2>5
  <2>7. /\ (SUBSET S) \ (Dm \cup {M}) \subseteq m
        /\ (SUBSET S) \ (Dm \cup {M}) # m
    BY <1>7, <2>2
  <2> QED
    BY <1>6, <2>6, <2>7
<1>9. Dm = SUBSET S
  BY <1>7, <1>8
<1> QED
  BY <1>3, <1>7, <1>9

(* The greatest and the least number of a segment.                         *)
LEMMA MaxIn ==
  ASSUME NEW n \in Nat, NEW s \in SUBSET (1..n), s # {}
  PROVE  Max(s) \in s /\ \A y \in s : Max(s) >= y
<1> DEFINE T == {k \in Nat : \A y \in s : k >= y}
<1>1. n \in T
  OBVIOUS
<1>2. PICK m \in T : \A k \in T : m <= k
  <2>1. T \in SUBSET Nat /\ T # {}
    BY <1>1
  <2> HIDE DEF T
  <2> QED
    BY <2>1, LeastNatural
<1>3. m \in s
  <2> SUFFICES ASSUME m \notin s PROVE FALSE
    OBVIOUS
  <2>1. \A y \in s : y \in Nat /\ y >= 1 /\ m > y
    BY <1>2
  <2>2. m - 1 \in Nat
    <3>1. PICK y \in s : TRUE
      BY Zenon
    <3> QED
      BY <1>2, <2>1, <3>1
  <2>3. m - 1 \in T
    BY <1>2, <2>1, <2>2
  <2> QED
    BY <1>2, <2>3
<1>4. \E x \in s : \A y \in s : x >= y
  BY <1>2, <1>3
<1> QED
  BY <1>4 DEF Max

(* The same from below.                                                    *)
LEMMA MinIn ==
  ASSUME NEW n \in Nat, NEW s \in SUBSET (1..n), s # {}
  PROVE  Min(s) \in s /\ \A y \in s : Min(s) <= y
<1>1. PICK m \in s : \A y \in s : m <= y
  <2>1. s \in SUBSET Nat
    OBVIOUS
  <2> QED
    BY <2>1, LeastNatural
<1>2. \E x \in s : \A y \in s : x <= y
  BY <1>1
<1> QED
  BY <1>2 DEF Min

(* FoldLeft goes through a segment from its greatest number down.          *)
LEMMA LastOf ==
  ASSUME NEW n \in Nat, NEW k \in 1..n
  PROVE  Max(1..k) = k /\ (1..k) \ {k} = 1..(k - 1)
<1>1. 1..k \in SUBSET (1..n) /\ k \in 1..k
  OBVIOUS
<1>2. Max(1..k) \in 1..k /\ Max(1..k) >= k
  BY <1>1, MaxIn
<1> QED
  BY <1>2

(* FoldRight goes through it from its least number up.                     *)
LEMMA FirstOf ==
  ASSUME NEW n \in Nat, NEW k \in 1..n
  PROVE  Min(k..n) = k /\ (k..n) \ {k} = (k + 1)..n
<1>1. k..n \in SUBSET (1..n) /\ k \in k..n
  OBVIOUS
<1>2. Min(k..n) \in k..n /\ Min(k..n) <= k
  BY <1>1, MinIn
<1> QED
  BY <1>2

Keeps(F, n, X) == \A e \in 1..n : \A x \in X : F[<<e, x>>] \in X
(* it satisfies the equation that FoldLeft, or FoldRight, chooses it by,   *)
(* as far as its values are in X.                                          *)
Upward(it, n, X, b, F) ==
  /\ it[{}] = b
  /\ \A s \in SUBSET (1..n) : s # {} /\ it[s \ {Max(s)}] \in X
                                    => it[s] = F[<<Max(s), it[s \ {Max(s)}]>>]
Backward(it, n, X, b, F) ==
  /\ it[{}] = b
  /\ \A s \in SUBSET (1..n) : s # {} /\ it[s \ {Min(s)}] \in X
                                    => it[s] = F[<<Min(s), it[s \ {Min(s)}]>>]
(* h is the states of a loop.                                              *)
LoopUp(h, n, b, F) == h[0] = b /\ \A k \in 1..n : h[k] = F[<<k, h[k - 1]>>]
LoopDown(h, n, b, F) == h[n] = b /\ \A k \in 1..n : h[k - 1] = F[<<k, h[k]>>]
(* it ends where such a loop does.                                         *)
EndsUp(it, n, X, b, F) == \E h \in [0..n -> X] : LoopUp(h, n, b, F) /\ h[n] = it[1..n]
EndsDown(it, n, X, b, F) == \E h \in [0..n -> X] : LoopDown(h, n, b, F) /\ h[0] = it[1..n]

(* FoldLeft takes the greatest position out of the domain, FoldRight the   *)
(* least: the function each of them is defined by exists.                  *)
LEMMA FoldUp ==
  ASSUME NEW n \in Nat, NEW X, NEW b \in X, NEW F, Keeps(F, n, X)
  PROVE  \E g \in [SUBSET (1..n) -> X] : Upward(g, n, X, b, F)
<1> DEFINE S == 1..n
           c == [s \in SUBSET S |-> Max(s)]
<1>1. IsFiniteSet(S)
  BY FS_Interval
<1>2. \A s \in SUBSET S : s # {} => c[s] \in s
  BY MaxIn
<1>3. \A s \in SUBSET S : c[s] = Max(s)
  OBVIOUS
<1>4. {} \in SUBSET S
  OBVIOUS
<1> HIDE DEF c, S
<1>5. PICK g \in [SUBSET S -> X] : Folds(g, SUBSET S, b, c, F)
  BY <1>1, <1>2, FoldExists DEF S, Keeps
<1>6. g[{}] = b /\ \A s \in SUBSET S : s # {} => g[s] = F[<<Max(s), g[s \ {Max(s)}]>>]
  BY <1>3, <1>4, <1>5, Zenon DEF Folds
<1> QED
  BY <1>5, <1>6, Zenon DEF S, Upward

(* The same for FoldRight.                                                 *)
LEMMA FoldDown ==
  ASSUME NEW n \in Nat, NEW X, NEW b \in X, NEW F, Keeps(F, n, X)
  PROVE  \E g \in [SUBSET (1..n) -> X] : Backward(g, n, X, b, F)
<1> DEFINE S == 1..n
           c == [s \in SUBSET S |-> Min(s)]
<1>1. IsFiniteSet(S)
  BY FS_Interval
<1>2. \A s \in SUBSET S : s # {} => c[s] \in s
  BY MinIn
<1>3. \A s \in SUBSET S : c[s] = Min(s)
  OBVIOUS
<1>4. {} \in SUBSET S
  OBVIOUS
<1> HIDE DEF c, S
<1>5. PICK g \in [SUBSET S -> X] : Folds(g, SUBSET S, b, c, F)
  BY <1>1, <1>2, FoldExists DEF S, Keeps
<1>6. g[{}] = b /\ \A s \in SUBSET S : s # {} => g[s] = F[<<Min(s), g[s \ {Min(s)}]>>]
  BY <1>3, <1>4, <1>5, Zenon DEF Folds
<1> QED
  BY <1>5, <1>6, Zenon DEF S, Backward

(* The values of such a function at the segments are the states of a loop. *)
LEMMA StepsUp ==
  ASSUME NEW n \in Nat, NEW X, NEW b \in X, NEW F, Keeps(F, n, X),
         NEW it, Upward(it, n, X, b, F)
  PROVE  EndsUp(it, n, X, b, F)
<1> DEFINE h == [k \in 0..n |-> it[1..k]]
           P == {k \in 0..n : h[k] \in X}
<1>0. h[0] = it[1..0] /\ \A k \in 1..n : h[k] = it[1..k] /\ h[k - 1] = it[1..(k - 1)]
  OBVIOUS
<1>1. h[0] = b
  <2>1. 1..0 = {}
    OBVIOUS
  <2> HIDE DEF h
  <2> QED
    BY <1>0, <2>1, Zenon DEF Upward
<1>2. ASSUME NEW k \in 1..n, h[k - 1] \in X
      PROVE  h[k] = F[<<k, h[k - 1]>>] /\ h[k] \in X
  <2>1. Max(1..k) = k /\ (1..k) \ {k} = 1..(k - 1)
    BY LastOf
  <2>2. 1..k \in SUBSET (1..n) /\ k \in 1..k
    OBVIOUS
  <2>3. 1..k # {}
    BY <2>2, Zenon
  <2>4. it[1..(k - 1)] = h[k - 1] /\ h[k] = it[1..k]
    BY <1>0
  <2> HIDE DEF h
  <2>5. it[1..k] = F[<<k, it[1..(k - 1)]>>]
    BY ONLY <1>2, <2>1, <2>2, <2>3, <2>4, Upward(it, n, X, b, F), Zenon DEF Upward
  <2>6. h[k] = F[<<k, h[k - 1]>>]
    BY <2>4, <2>5
  <2>7. F[<<k, h[k - 1]>>] \in X
    BY <1>2 DEF Keeps
  <2> QED
    BY <2>6, <2>7
<1>3. 0 \in P /\ \A k \in 1..n : k - 1 \in P => k \in P
  <2> HIDE DEF h
  <2>1. 0 \in P
    BY <1>1
  <2>2. ASSUME NEW k \in 1..n, k - 1 \in P PROVE k \in P
    <3>1. h[k - 1] \in X
      BY <2>2
    <3>2. h[k] \in X
      BY <1>2, <3>1
    <3> QED
      BY <3>2
  <2> QED
    BY <2>1, <2>2
<1>4. \A k \in 0..n : k \in P
  <2> HIDE DEF P
  <2> QED
    BY <1>3, Induction
<1>5. h \in [0..n -> X]
  BY <1>4
<1>6. h[n] = it[1..n]
  OBVIOUS
<1>7. \A k \in 1..n : k - 1 \in 0..n
  OBVIOUS
<1>8. \A k \in 1..n : h[k] = F[<<k, h[k - 1]>>]
  BY <1>2, <1>4, <1>7
<1> HIDE DEF h
<1> QED
  BY <1>1, <1>5, <1>6, <1>8 DEF LoopUp, EndsUp

(* The same for FoldRight.                                                 *)
LEMMA StepsDown ==
  ASSUME NEW n \in Nat, NEW X, NEW b \in X, NEW F, Keeps(F, n, X),
         NEW it, Backward(it, n, X, b, F)
  PROVE  EndsDown(it, n, X, b, F)
<1> DEFINE h == [k \in 0..n |-> it[(k + 1)..n]]
           P == {k \in 0..n : h[n - k] \in X}
<1>1. h[n] = b
  <2>1. (n + 1)..n = {}
    OBVIOUS
  <2> QED
    BY <2>1 DEF Backward
<1>2. ASSUME NEW k \in 1..n, h[k] \in X
      PROVE  h[k - 1] = F[<<k, h[k]>>] /\ h[k - 1] \in X
  <2>1. Min(k..n) = k /\ (k..n) \ {k} = (k + 1)..n
    BY FirstOf
  <2>2. k..n \in SUBSET (1..n) /\ k \in k..n
    OBVIOUS
  <2>3. k..n # {}
    BY <2>2, Zenon
  <2>4. it[(k + 1)..n] = h[k] /\ h[k - 1] = it[k..n]
    OBVIOUS
  <2>5. it[k..n] = F[<<k, it[(k + 1)..n]>>]
    BY ONLY <1>2, <2>1, <2>2, <2>3, <2>4, Backward(it, n, X, b, F), Zenon DEF Backward
  <2>6. h[k - 1] = F[<<k, h[k]>>]
    BY <2>4, <2>5
  <2>7. F[<<k, h[k]>>] \in X
    BY <1>2 DEF Keeps
  <2> QED
    BY <2>6, <2>7
<1>3. ASSUME NEW k \in 1..n, k - 1 \in P PROVE k \in P
  <2>1. n - (k - 1) \in 1..n /\ n - (k - 1) - 1 = n - k
    OBVIOUS
  <2>2. h[n - (k - 1)] \in X
    BY <1>3
  <2>3. h[n - k] \in X
    BY <1>2, <2>1, <2>2
  <2> QED
    BY <2>3
<1>4. 0 \in P
  BY <1>1
<1>5. \A k \in 0..n : k \in P
  <2> HIDE DEF P
  <2> QED
    BY <1>3, <1>4, Induction
<1>6. ASSUME NEW k \in 0..n PROVE h[k] \in X
  <2>1. n - k \in 0..n /\ n - (n - k) = k
    OBVIOUS
  <2> HIDE DEF h
  <2> QED
    BY <1>5, <2>1
<1>7. h \in [0..n -> X]
  BY <1>6
<1>8. h[0] = it[1..n]
  OBVIOUS
<1>9. \A k \in 1..n : h[k - 1] = F[<<k, h[k]>>]
  <2> HIDE DEF h, P
  <2>1. \A k \in 1..n : k \in 0..n
    OBVIOUS
  <2> QED
    BY <1>2, <1>6, <2>1, Zenon
<1> HIDE DEF h
<1> QED
  BY <1>1, <1>7, <1>8, <1>9 DEF LoopDown, EndsDown

(* Definition by recursion on the naturals.                                *)
KeepsAll(F, X) == \A n \in Nat : \A x \in X : F[<<n, x>>] \in X
(* Definition by recursion on the naturals.                                *)
LEMMA Recursion ==
  ASSUME NEW X, NEW b \in X, NEW F, KeepsAll(F, X)
  PROVE  \E g \in [Nat -> X] : g[0] = b /\ \A n \in Nat : g[n + 1] = F[<<n, g[n]>>]
<1> DEFINE Approx(n) == {h \in [0..n -> X] : /\ h[0] = b
                                            /\ \A k \in 1..n : h[k] = F[<<k - 1, h[k - 1]>>]}
           G(n) == CHOOSE h : h \in Approx(n)
           g == [n \in Nat |-> G(n)[n]]
<1>1. ASSUME NEW n \in Nat PROVE Approx(n) # {}
  <2>1. \A e \in 1..n : \A x \in X : F[<<e - 1, x>>] \in X
    <3>1. \A e \in 1..n : e - 1 \in Nat
      OBVIOUS
    <3> QED
      BY <3>1 DEF KeepsAll
  <2>f. PICK f : \A e \in 1..n : \A x \in X : f[<<e, x>>] = F[<<e - 1, x>>] /\ f[<<e, x>>] \in X
    <3> DEFINE ff == [p \in (1..n) \X X |-> F[<<p[1] - 1, p[2]>>]]
    <3>1. \A e \in 1..n : \A x \in X : ff[<<e, x>>] = F[<<e - 1, x>>]
      OBVIOUS
    <3> HIDE DEF ff
    <3>2. \A e \in 1..n : \A x \in X : ff[<<e, x>>] = F[<<e - 1, x>>] /\ ff[<<e, x>>] \in X
      BY ONLY <2>1, <3>1, Zenon
    <3> QED
      BY ONLY <3>2, Zenon
  <2>2. Keeps(f, n, X)
    BY <2>f DEF Keeps
  <2>3. PICK h \in [0..n -> X] : LoopUp(h, n, b, f)
    <3>1. PICK t \in [SUBSET (1..n) -> X] : Upward(t, n, X, b, f)
      BY <2>2, FoldUp
    <3> QED
      BY <2>2, <3>1, StepsUp DEF EndsUp
  <2>4. ASSUME NEW k \in 1..n PROVE h[k] = F[<<k - 1, h[k - 1]>>]
    <3>1. h[k - 1] \in X
      OBVIOUS
    <3> QED
      BY <2>f, <2>3, <3>1 DEF LoopUp
  <2>5. h \in Approx(n)
    BY <2>3, <2>4 DEF LoopUp
  <2> QED
    BY <2>5
<1>2. ASSUME NEW n \in Nat, NEW m \in Nat, m <= n, NEW h \in Approx(n), NEW i \in Approx(m)
      PROVE  \A k \in 0..m : h[k] = i[k]
  <2> DEFINE P == {k \in 0..m : h[k] = i[k]}
  <2>1. 0 \in P
    OBVIOUS
  <2>2. ASSUME NEW k \in 1..m, k - 1 \in P PROVE k \in P
    <3>1. k \in 1..n
      BY <1>2
    <3>2. h[k] = F[<<k - 1, h[k - 1]>>] /\ i[k] = F[<<k - 1, i[k - 1]>>]
      BY <3>1
    <3> QED
      BY <2>2, <3>2
  <2>3. \A k \in 0..m : k \in P
    <3> HIDE DEF P
    <3> QED
      BY <2>1, <2>2, Induction
  <2> QED
    BY <2>3
<1>3. \A n \in Nat : G(n) \in Approx(n)
  BY <1>1
<1>4. \A n \in Nat : \A h \in Approx(n) : /\ h \in [0..n -> X] /\ h[0] = b
                                       /\ \A k \in 1..n : h[k] = F[<<k - 1, h[k - 1]>>]
  OBVIOUS
<1> HIDE DEF Approx
<1>5. \A n \in Nat : G(n)[n] \in X
  BY <1>3, <1>4
<1>6. G(0)[0] = b
  BY <1>3, <1>4
<1>7. ASSUME NEW n \in Nat PROVE G(n + 1)[n + 1] = F[<<n, G(n)[n]>>]
  <2>1. G(n + 1)[n + 1] = F[<<n, G(n + 1)[n]>>]
    <3>1. n + 1 \in 1..(n + 1) /\ n + 1 - 1 = n /\ n + 1 \in Nat
      OBVIOUS
    <3> HIDE DEF G
    <3> QED
      BY <1>3, <1>4, <3>1
  <2>2. G(n + 1)[n] = G(n)[n]
    <3> HIDE DEF G
    <3> QED
      BY <1>2, <1>3
  <2> QED
    BY <2>1, <2>2
<1> HIDE DEF G
<1>8. g \in [Nat -> X] /\ g[0] = b /\ \A n \in Nat : g[n + 1] = F[<<n, g[n]>>]
  BY <1>5, <1>6, <1>7
<1> QED
  BY <1>8

-----------------------------------------------------------------------------
(* The number of a vector.                                                 *)

(* The number of a vector, as in BigObjects, and the worth of a place.     *)
Value(a) == FoldRight(LAMBDA d, v : v * D!Base + d, a, 0)

Weight[k \in Nat] == IF k = 0 THEN 1 ELSE D!Base * Weight[k - 1]

(* The weights of the places are the powers of the base.                   *)
LEMMA WeightIs ==
  ASSUME D!Base \in Nat, D!Base > 2
  PROVE  /\ \A k \in Nat : Weight[k] \in Nat \ {0}
         /\ Weight[0] = 1
         /\ \A k \in Nat : Weight[k + 1] = D!Base * Weight[k]
<1> DEFINE B == D!Base
           X == Nat \ {0}
           F == [p \in Nat \X X |-> B * p[2]]
           Eq(g) == g = [k \in Nat |-> IF k = 0 THEN 1 ELSE B * g[k - 1]]
<1> HIDE DEF B
<1>0. B \in Nat /\ B > 2
  BY DEF B
<1>1. 1 \in X /\ \A n \in Nat : \A x \in X : F[<<n, x>>] \in X /\ F[<<n, x>>] = B * x
  BY <1>0
<1> HIDE DEF F, X
<1>k. KeepsAll(F, X)
  BY <1>1 DEF KeepsAll
<1>2. PICK g \in [Nat -> X] : g[0] = 1 /\ \A n \in Nat : g[n + 1] = F[<<n, g[n]>>]
  BY <1>1, <1>k, Recursion
<1>3. \A k \in Nat : k # 0 => k - 1 \in Nat /\ k = (k - 1) + 1
  OBVIOUS
<1>4. ASSUME NEW k \in Nat PROVE g[k] = IF k = 0 THEN 1 ELSE B * g[k - 1]
  BY <1>1, <1>2, <1>3
<1>5. Eq(g)
  BY <1>2, <1>4
<1>6. Weight = CHOOSE f : Eq(f)
  BY DEF Weight, B
<1> HIDE DEF Eq
<1>7. Eq(Weight)
  BY <1>5, <1>6
<1>8. ASSUME NEW k \in Nat PROVE Weight[k] = IF k = 0 THEN 1 ELSE B * Weight[k - 1]
  BY <1>7 DEF Eq
<1>9. Weight[0] = 1
  BY <1>8
<1>10. ASSUME NEW k \in Nat PROVE Weight[k + 1] = B * Weight[k]
  BY <1>8
<1>11. ASSUME NEW n \in Nat PROVE Weight[n] \in Nat \ {0}
  <2> DEFINE P == {k \in 0..n : Weight[k] \in Nat \ {0}}
  <2>1. 0 \in P
    BY <1>9
  <2>2. ASSUME NEW k \in 1..n, k - 1 \in P PROVE k \in P
    <3>1. Weight[k] = B * Weight[k - 1]
      BY <1>8
    <3>2. Weight[k - 1] \in Nat \ {0}
      BY <2>2
    <3> DEFINE w == Weight[k - 1]
    <3> HIDE DEF w
    <3>3. B * w \in Nat \ {0}
      BY <1>0, <3>2 DEF w
    <3> QED
      BY <3>1, <3>3 DEF w
  <2>3. \A k \in 0..n : k \in P
    <3> HIDE DEF P
    <3> QED
      BY <2>1, <2>2, Induction
  <2> QED
    BY <2>3
<1> QED
  BY <1>9, <1>10, <1>11 DEF B

(* The sums of the first digits times their weights.                       *)
Sums(p, a, n) == p[0] = 0 /\ \A k \in 1..n : p[k] = p[k - 1] + a[k] * Weight[k - 1]

(* A vector's number is the sum of its digits times their weights, so that *)
(* the fold by which BigObjects gives it can be taken apart from either    *)
(* end.                                                                    *)
LEMMA SumsExist ==
  ASSUME D!Base \in Nat, D!Base > 2, NEW a \in Seq(Nat)
  PROVE  \E p \in [0..Len(a) -> Nat] : Sums(p, a, Len(a)) /\ Value(a) = p[Len(a)]
<1> DEFINE B == D!Base
           n == Len(a)
           F == [p \in (1..n) \X Nat |-> p[2] * B + a[p[1]]]
           Body(f) == [s \in SUBSET (DOMAIN a) |->
                         IF s = {} THEN 0 ELSE f[s \ {Min(s)}] * B + a[Min(s)]]
           it == CHOOSE f : f = Body(f)
<1>0. B \in Nat /\ B > 2 /\ n \in Nat /\ DOMAIN a = 1..n /\ \A e \in 1..n : a[e] \in Nat
  OBVIOUS
<1>v. Value(a) = it[DOMAIN a]
  BY DEF Value, FoldRight, MapThenFoldSet
<1> HIDE DEF B, n
<1>1. \A e \in 1..n : \A x \in Nat : F[<<e, x>>] = x * B + a[e] /\ F[<<e, x>>] \in Nat
  BY <1>0
<1> HIDE DEF F
<1>2. Keeps(F, n, Nat) /\ 0 \in Nat
  BY <1>1 DEF Keeps
<1>3. PICK g \in [SUBSET (1..n) -> Nat] : Backward(g, n, Nat, 0, F)
  BY <1>0, <1>2, FoldDown
<1>m. \A s \in SUBSET (1..n) : s # {} => Min(s) \in 1..n
  BY <1>0, MinIn
<1>4. g = Body(g)
  <2>1. ASSUME NEW s \in SUBSET (1..n)
        PROVE  g[s] = IF s = {} THEN 0 ELSE g[s \ {Min(s)}] * B + a[Min(s)]
    <3>1. CASE s = {}
      BY <1>3, <3>1 DEF Backward
    <3>2. CASE s # {}
      <4>1. Min(s) \in 1..n /\ g[s \ {Min(s)}] \in Nat
        BY <1>m, <1>3, <3>2
      <4>2. g[s] = F[<<Min(s), g[s \ {Min(s)}]>>]
        BY <1>3, <3>2, <4>1, Zenon DEF Backward
      <4> QED
        BY <1>1, <3>2, <4>1, <4>2
    <3> QED
      BY <3>1, <3>2
  <2> QED
    BY <1>0, <1>3, <2>1
<1>5. it = Body(it)
  <2> HIDE DEF Body
  <2> QED
    BY <1>4
<1> HIDE DEF it
<1>6. ASSUME NEW s \in SUBSET (1..n)
      PROVE  it[s] = IF s = {} THEN 0 ELSE it[s \ {Min(s)}] * B + a[Min(s)]
  BY <1>0, <1>5
<1>7. Backward(it, n, Nat, 0, F)
  <2>1. it[{}] = 0
    BY <1>6
  <2>2. ASSUME NEW s \in SUBSET (1..n), s # {}, it[s \ {Min(s)}] \in Nat
        PROVE  it[s] = F[<<Min(s), it[s \ {Min(s)}]>>]
    BY <1>1, <1>m, <1>6, <2>2
  <2> QED
    BY <2>1, <2>2 DEF Backward
<1>8. PICK h \in [0..n -> Nat] : LoopDown(h, n, 0, F) /\ h[0] = it[1..n]
  <2> DEFINE X == Nat
  <2>1. Keeps(F, n, X) /\ 0 \in X /\ Backward(it, n, X, 0, F) /\ n \in Nat
    BY <1>0, <1>2, <1>7
  <2> HIDE DEF X
  <2>2. \E h \in [0..n -> X] : LoopDown(h, n, 0, F) /\ h[0] = it[1..n]
    BY <2>1, StepsDown DEF EndsDown
  <2> QED
    BY <2>2 DEF X
<1>9. ASSUME NEW k \in 1..n PROVE h[k - 1] = h[k] * B + a[k]
  <2>1. h[k] \in Nat
    BY <1>0
  <2> QED
    BY <1>1, <1>8, <2>1 DEF LoopDown
<1>10. h[n] = 0
  BY <1>8 DEF LoopDown
<1> DEFINE p == [k \in 0..n |-> h[0] - h[k] * Weight[k]]
<1>11. \A k \in 0..n : p[k] = h[0] - h[k] * Weight[k]
  OBVIOUS
<1>12. \A k \in 0..n : h[k] \in Nat /\ Weight[k] \in Nat
  <2>1. \A k \in Nat : Weight[k] \in Nat
    BY WeightIs
  <2>2. \A k \in 0..n : k \in Nat
    BY <1>0
  <2> QED
    BY <2>1, <2>2
<1> HIDE DEF p
<1>13. p[0] = 0 /\ p[n] = h[0]
  <2>1. p[0] = h[0] - h[0] * Weight[0] /\ p[n] = h[0] - h[n] * Weight[n]
    BY <1>0, <1>11
  <2>2. Weight[0] = 1 /\ h[0] \in Nat /\ Weight[n] \in Nat
    BY <1>0, <1>12, WeightIs
  <2> QED
    BY <1>10, <2>1, <2>2
<1>14. ASSUME NEW k \in 1..n PROVE p[k] = p[k - 1] + a[k] * Weight[k - 1]
       /\ a[k] * Weight[k - 1] \in Nat
  <2> DEFINE w == Weight[k - 1]
             x == h[k]
             d == a[k]
  <2>1. w \in Nat /\ x \in Nat /\ d \in Nat
    BY <1>0, <1>12
  <2>2. Weight[k] = B * w
    <3>1. k - 1 \in Nat /\ (k - 1) + 1 = k
      BY <1>0
    <3> QED
      BY <3>1, WeightIs DEF B
  <2>3. p[k] = h[0] - x * (B * w) /\ p[k - 1] = h[0] - (x * B + d) * w
    <3>1. k \in 0..n /\ k - 1 \in 0..n
      BY <1>0
    <3> QED
      BY <1>9, <1>11, <2>2, <3>1
  <2> HIDE DEF w, x, d
  <2>4. (x * B + d) * w = x * (B * w) + d * w /\ d * w \in Nat /\ x * (B * w) \in Nat
    BY <1>0, <2>1
  <2>5. h[0] \in Nat
    BY <1>0, <1>12
  <2> DEFINE u == x * (B * w)
             v == d * w
  <2>6. p[k] = h[0] - u /\ p[k - 1] = h[0] - (u + v) /\ u \in Nat /\ v \in Nat
    BY <2>3, <2>4
  <2> HIDE DEF u, v
  <2>7. p[k] = p[k - 1] + v
    BY <2>5, <2>6
  <2> QED
    BY <2>6, <2>7 DEF v, w, d
<1>15. Sums(p, a, n)
  BY <1>13, <1>14 DEF Sums
<1>16. ASSUME NEW k \in 0..n PROVE p[k] \in Nat
  <2> DEFINE P == {i \in 0..n : p[i] \in Nat}
  <2>1. 0 \in P
    BY <1>0, <1>13
  <2>2. ASSUME NEW i \in 1..n, i - 1 \in P PROVE i \in P
    BY <1>14, <2>2
  <2> HIDE DEF P
  <2>3. \A i \in 0..n : i \in P
    BY <1>0, <2>1, <2>2, Induction
  <2> QED
    BY <2>3 DEF P
<1>17. p \in [0..n -> Nat]
  <2>1. p = [k \in 0..n |-> p[k]]
    BY DEF p
  <2> QED
    BY <1>16, <2>1
<1>18. Value(a) = p[n]
  BY <1>0, <1>v, <1>8, <1>13
<1> QED
  BY <1>15, <1>17, <1>18 DEF n

(* Vectors that agree on their first digits have the same sums there.      *)
LEMMA SumsUnique ==
  ASSUME D!Base \in Nat, D!Base > 2, NEW n \in Nat, NEW a, NEW b, NEW p, NEW q,
         Sums(p, a, n), Sums(q, b, n), \A k \in 1..n : a[k] = b[k]
  PROVE  \A k \in 0..n : p[k] = q[k]
<1> DEFINE P == {k \in 0..n : p[k] = q[k]}
<1>1. 0 \in P
  BY DEF Sums
<1>2. ASSUME NEW k \in 1..n, k - 1 \in P PROVE k \in P
  <2>1. p[k - 1] = q[k - 1] /\ a[k] = b[k]
    BY <1>2
  <2>2. p[k] = p[k - 1] + a[k] * Weight[k - 1] /\ q[k] = q[k - 1] + b[k] * Weight[k - 1]
    BY DEF Sums
  <2>3. p[k] = q[k]
    BY <2>1, <2>2, Zenon
  <2> QED
    BY <2>3
<1> HIDE DEF P
<1>3. \A k \in 0..n : k \in P
  BY <1>1, <1>2, Induction
<1> QED
  BY <1>3 DEF P

(* The value of the first digits of a vector.                              *)
Parts(a) == CHOOSE p \in [0..Len(a) -> Nat] : Sums(p, a, Len(a)) /\ Value(a) = p[Len(a)]

(* The parts of a vector add up to its number.                             *)
LEMMA PartsOf ==
  ASSUME D!Base \in Nat, D!Base > 2, NEW a \in Seq(Nat)
  PROVE  /\ \A k \in 0..Len(a) : Parts(a)[k] \in Nat
         /\ Parts(a)[0] = 0 /\ Parts(a)[Len(a)] = Value(a) /\ Value(a) \in Nat
         /\ \A k \in 1..Len(a) : Parts(a)[k] = Parts(a)[k - 1] + a[k] * Weight[k - 1]
         /\ Sums(Parts(a), a, Len(a))
<1>1. \E p \in [0..Len(a) -> Nat] : Sums(p, a, Len(a)) /\ Value(a) = p[Len(a)]
  BY SumsExist
<1>2. /\ Parts(a) \in [0..Len(a) -> Nat] /\ Sums(Parts(a), a, Len(a))
      /\ Value(a) = Parts(a)[Len(a)]
  BY <1>1, Zenon DEF Parts
<1>3. Len(a) \in Nat
  OBVIOUS
<1> HIDE DEF Parts
<1>4. \A k \in 0..Len(a) : Parts(a)[k] \in Nat
  BY <1>2
<1>5. 0 \in 0..Len(a) /\ Len(a) \in 0..Len(a)
  BY <1>3
<1>6. Value(a) \in Nat
  BY <1>2, <1>4, <1>5, Zenon
<1> QED
  BY <1>2, <1>4, <1>6, Zenon DEF Sums

(* A weight is a positive number.                                          *)
LEMMA WeightNat ==
  ASSUME D!Base \in Nat, D!Base > 2, NEW k \in Nat
  PROVE  Weight[k] \in Nat /\ Weight[k] > 0
<1>1. Weight[k] \in Nat \ {0}
  BY WeightIs
<1> QED
  BY <1>1

(* A place is worth the base times the place below.                        *)
LEMMA WeightStep ==
  ASSUME D!Base \in Nat, D!Base > 2, NEW k \in Nat, k > 0
  PROVE  Weight[k] = D!Base * Weight[k - 1]
<1>1. k - 1 \in Nat /\ (k - 1) + 1 = k
  OBVIOUS
<1>2. Weight[(k - 1) + 1] = D!Base * Weight[k - 1]
  BY <1>1, WeightIs
<1> QED
  BY <1>1, <1>2

(* The first digits of two vectors that agree on them.                     *)
LEMMA PartsSame ==
  ASSUME D!Base \in Nat, D!Base > 2, NEW a \in Seq(Nat), NEW b \in Seq(Nat),
         NEW n \in Nat, n <= Len(a), n <= Len(b), \A k \in 1..n : a[k] = b[k]
  PROVE  Parts(a)[n] = Parts(b)[n]
<1>1. Sums(Parts(a), a, n) /\ Sums(Parts(b), b, n)
  BY PartsOf DEF Sums
<1>2. n \in 0..n
  OBVIOUS
<1> QED
  BY <1>1, <1>2, SumsUnique

(* A digit put on top, as push_back does, counts with the weight of its    *)
(* place.                                                                  *)
LEMMA ValueAppend ==
  ASSUME D!Base \in Nat, D!Base > 2, NEW a \in Seq(Nat), NEW d \in Nat
  PROVE  Value(Append(a, d)) = Value(a) + d * Weight[Len(a)]
<1> DEFINE c == Append(a, d)
           n == Len(a)
<1>1. c \in Seq(Nat) /\ n \in Nat /\ Len(c) = n + 1 /\ (\A k \in 1..n : a[k] = c[k]) /\ c[n + 1] = d
  OBVIOUS
<1> HIDE DEF c
<1>2. Parts(a)[n] = Parts(c)[n]
  <2>1. n <= Len(a) /\ n <= Len(c)
    BY <1>1
  <2> HIDE DEF n
  <2> QED
    BY <1>1, <2>1, PartsSame
<1>3. Parts(c)[n + 1] = Parts(c)[n] + c[n + 1] * Weight[n]
  <2>1. n + 1 \in 1..Len(c) /\ (n + 1) - 1 = n
    BY <1>1
  <2>2. Parts(c)[n + 1] = Parts(c)[(n + 1) - 1] + c[n + 1] * Weight[(n + 1) - 1]
    BY <1>1, <2>1, PartsOf
  <2> QED
    BY <2>1, <2>2
<1>4. Value(a) = Parts(a)[n] /\ Value(c) = Parts(c)[n + 1]
  BY <1>1, PartsOf
<1> QED
  BY <1>1, <1>2, <1>3, <1>4 DEF c

(* A digit replaced changes the number by the difference at its place.     *)
LEMMA ValuePut ==
  ASSUME D!Base \in Nat, D!Base > 2, NEW a \in Seq(Nat), NEW d \in Nat, NEW i \in 1..Len(a)
  PROVE  /\ [a EXCEPT ![i] = d] \in Seq(Nat) /\ Len([a EXCEPT ![i] = d]) = Len(a)
         /\ Value([a EXCEPT ![i] = d]) + a[i] * Weight[i - 1] = Value(a) + d * Weight[i - 1]
<1> DEFINE c == [a EXCEPT ![i] = d]
           n == Len(a)
           p == Parts(a)
           q == Parts(c)
           x == a[i] * Weight[i - 1]
           y == d * Weight[i - 1]
           P == {k \in 0..n : IF k < i THEN q[k] = p[k] ELSE q[k] + x = p[k] + y}
<1>1. c \in Seq(Nat) /\ n \in Nat /\ Len(c) = n /\ c[i] = d /\ i \in 1..n
      /\ \A k \in 1..n : k # i => c[k] = a[k]
  OBVIOUS
<1>2. /\ p[0] = 0 /\ q[0] = 0 /\ Value(a) = p[n] /\ Value(c) = q[n]
      /\ \A k \in 0..n : p[k] \in Nat /\ q[k] \in Nat
      /\ \A k \in 1..n : p[k] = p[k - 1] + a[k] * Weight[k - 1]
            /\ q[k] = q[k - 1] + c[k] * Weight[k - 1]
  <2> HIDE DEF c
  <2> QED
    BY <1>1, PartsOf
<1>3. x \in Nat /\ y \in Nat
  <2>1. i - 1 \in Nat /\ a[i] \in Nat
    OBVIOUS
  <2>2. Weight[i - 1] \in Nat
    BY <2>1, WeightNat
  <2> QED
    BY <2>1, <2>2
<1>4. \A k \in 1..n : a[k] * Weight[k - 1] \in Nat
  <2>1. \A k \in 1..n : k - 1 \in Nat /\ a[k] \in Nat
    OBVIOUS
  <2>2. \A k \in 1..n : Weight[k - 1] \in Nat
    BY <2>1, WeightNat
  <2> QED
    BY <2>1, <2>2
<1>e. p[i] = p[i - 1] + x /\ q[i] = q[i - 1] + y
  BY <1>1, <1>2
<1> HIDE DEF c, n, p, q, x, y
<1>5. 0 \in P
  BY <1>1, <1>2
<1>6. ASSUME NEW k \in 1..n, k - 1 \in P PROVE k \in P
  <2>1. k - 1 \in 0..n /\ k \in 0..n /\ p[k - 1] \in Nat /\ q[k - 1] \in Nat /\ p[k] \in Nat
        /\ q[k] \in Nat
    BY <1>1, <1>2
  <2>2. CASE k < i
    <3> DEFINE z == a[k] * Weight[k - 1]
    <3>1. p[k] = p[k - 1] + z /\ q[k] = q[k - 1] + z
      <4>1. k # i
        BY <1>1, <2>2
      <4>2. c[k] = a[k]
        BY <1>1, <4>1
      <4> QED
        BY <1>2, <4>2
    <3> HIDE DEF z
    <3> QED
      BY <1>1, <1>6, <2>1, <2>2, <3>1
  <2>3. CASE k = i
    <3>1. q[k - 1] = p[k - 1]
      BY <1>1, <1>6, <2>3
    <3>2. p[k] = p[k - 1] + x /\ q[k] = q[k - 1] + y
      BY <1>e, <2>3
    <3>3. q[k] + x = p[k] + y
      BY <1>3, <2>1, <3>1, <3>2
    <3>4. ~(k < i)
      BY <1>1, <2>3
    <3> QED
      BY <2>1, <3>3, <3>4
  <2>4. CASE k > i
    <3> DEFINE z == a[k] * Weight[k - 1]
    <3>1. p[k] = p[k - 1] + z /\ q[k] = q[k - 1] + z
      <4>1. k # i
        BY <1>1, <2>4
      <4>2. c[k] = a[k]
        BY <1>1, <4>1
      <4> QED
        BY <1>2, <4>2
    <3>2. z \in Nat
      BY <1>4
    <3> HIDE DEF z
    <3>3. q[k - 1] + x = p[k - 1] + y
      BY <1>1, <1>6, <2>4
    <3>4. q[k] + x = p[k] + y
      <4> DEFINE p0 == p[k - 1]
                 q0 == q[k - 1]
      <4>1. p[k] = p0 + z /\ q[k] = q0 + z /\ q0 + x = p0 + y /\ p0 \in Nat /\ q0 \in Nat
        BY <2>1, <3>1, <3>3
      <4> HIDE DEF p0, q0
      <4>2. (q0 + z) + x = (p0 + z) + y
        BY ONLY <1>3, <3>2, <4>1
      <4> QED
        BY ONLY <4>1, <4>2, Zenon
    <3>5. ~(k < i)
      BY <1>1, <2>4
    <3> QED
      BY ONLY <2>1, <3>4, <3>5, Zenon DEF P
  <2> QED
    BY <1>1, <2>2, <2>3, <2>4
<1>7. n \in P
  <2> HIDE DEF P
  <2>1. \A k \in 0..n : k \in P
    BY <1>1, <1>5, <1>6, Induction
  <2> QED
    BY <1>1, <2>1
<1>8. q[n] + x = p[n] + y
  BY <1>1, <1>7
<1> QED
  BY <1>1, <1>2, <1>8 DEF c, n, x, y

(* Zeros at the top of a vector do not count.                              *)
LEMMA ValueTop ==
  ASSUME D!Base \in Nat, D!Base > 2, NEW a \in Seq(Nat), NEW b \in Seq(Nat), Len(b) <= Len(a),
         \A k \in 1..Len(b) : b[k] = a[k], \A k \in (Len(b) + 1)..Len(a) : a[k] = 0
  PROVE  Value(a) = Value(b)
<1> DEFINE m == Len(b)
           n == Len(a)
           p == Parts(a)
           P == {k \in 0..(n - m) : p[m + k] = p[m]}
<1>1. m \in Nat /\ n \in Nat /\ n - m \in Nat /\ m <= n
  OBVIOUS
<1>2. p[m] = Value(b)
  BY PartsSame, PartsOf
<1>3. p[n] = Value(a) /\ \A k \in 0..n : p[k] \in Nat
  BY PartsOf
<1>4. 0 \in P
  BY <1>1
<1>5. ASSUME NEW k \in 1..(n - m), k - 1 \in P PROVE k \in P
  <2>1. m + k \in 1..n /\ m + k \in (m + 1)..n /\ (m + k) - 1 = m + (k - 1) /\ (m + k) - 1 \in Nat
    BY <1>1
  <2>2. p[m + k] = p[(m + k) - 1] + a[m + k] * Weight[(m + k) - 1]
    BY <2>1, PartsOf
  <2>3. a[m + k] = 0 /\ Weight[(m + k) - 1] \in Nat
    BY <2>1, WeightNat
  <2>4. p[m + (k - 1)] = p[m] /\ p[m] \in Nat
    BY <1>1, <1>3, <1>5
  <2> HIDE DEF p
  <2>5. p[m + k] = p[m]
    BY <2>1, <2>2, <2>3, <2>4
  <2> QED
    BY <2>5
<1>6. n - m \in P
  <2> HIDE DEF P, n, m
  <2>1. \A k \in 0..(n - m) : k \in P
    BY <1>1, <1>4, <1>5, Induction
  <2> QED
    BY <1>1, <2>1
<1>7. p[m + (n - m)] = p[m] /\ m + (n - m) = n
  BY <1>1, <1>6
<1> QED
  BY <1>2, <1>3, <1>7

(* The empty vector stands for 0.                                          *)
LEMMA ValueEmpty ==
  ASSUME D!Base \in Nat, D!Base > 2
  PROVE  Value(<<>>) = 0
<1> DEFINE a == <<>>
<1>1. a \in Seq(Nat) /\ Len(a) = 0
  OBVIOUS
<1> HIDE DEF a
<1>2. Parts(a)[0] = 0 /\ Parts(a)[Len(a)] = Value(a)
  BY <1>1, PartsOf
<1> QED
  BY <1>1, <1>2 DEF a

(* The vector of zeros that multiply and divide start from.                *)
LEMMA ZerosSeq ==
  ASSUME NEW n \in Nat
  PROVE  /\ Zeros(n) \in Seq(Nat) /\ Len(Zeros(n)) = n /\ \A k \in 1..n : Zeros(n)[k] = 0
  BY DEF Zeros

(* It stands for 0.                                                        *)
LEMMA ValueZeros ==
  ASSUME D!Base \in Nat, D!Base > 2, NEW n \in Nat
  PROVE  Value(Zeros(n)) = 0
<1>1. <<>> \in Seq(Nat) /\ Len(<<>>) = 0
  OBVIOUS
<1> QED
  BY <1>1, ValueTop, ValueEmpty, ZerosSeq

(* The vectors of digits that objects have, and those without zeros on top. *)
Vectors == Seq(D!digit) \ {<<>>}
Normals == {a \in Vectors : normalize(a) = a}

(* The digits are the numbers below the base.                              *)
LEMMA DigitNat ==
  ASSUME D!Base \in Nat, D!Base > 2
  PROVE  /\ D!digit \subseteq Nat /\ 0 \in D!digit /\ 1 \in D!digit
         /\ \A x \in D!digit : x \in Nat /\ x < D!Base
         /\ \A x \in Nat : x < D!Base => x \in D!digit
  BY DEF D!digit

(* A vector of digits is a sequence of numbers.                            *)
LEMMA VectorSeq ==
  ASSUME D!Base \in Nat, D!Base > 2, NEW a \in Seq(D!digit)
  PROVE  /\ a \in Seq(Nat) /\ Len(a) \in Nat /\ DOMAIN a = 1..Len(a)
         /\ \A k \in 1..Len(a) : a[k] \in D!digit /\ a[k] \in Nat
<1>1. D!digit \subseteq Nat
  BY DigitNat
<1> DEFINE S == D!digit
<1> HIDE DEF S
<1>2. a \in Seq(S) /\ S \subseteq Nat
  BY <1>1 DEF S
<1>3. Len(a) \in Nat /\ DOMAIN a = 1..Len(a) /\ \A k \in 1..Len(a) : a[k] \in S
  BY <1>2
<1>4. a \in Seq(Nat)
  <2>1. a \in [1..Len(a) -> Nat]
    <3>1. a \in [1..Len(a) -> S]
      BY <1>2
    <3> QED
      BY <1>2, <3>1
  <2> QED
    BY <1>3, <2>1, SeqDef
<1> QED
  BY <1>2, <1>3, <1>4 DEF S

(* The position of the digit that normalize leaves on top.                 *)
TopOf(a) == Max({1} \cup {i \in DOMAIN a : a[i] # 0})

(* normalize keeps the digits up to the topmost one that is not 0, and at  *)
(* least one.                                                              *)
LEMMA NormalizeIs ==
  ASSUME D!Base \in Nat, D!Base > 2, NEW a \in Seq(D!digit), a # <<>>
  PROVE  LET m == TopOf(a)
         IN  /\ m \in 1..Len(a) /\ normalize(a) = SubSeq(a, 1, m)
             /\ normalize(a) \in Seq(D!digit) /\ normalize(a) # <<>> /\ Len(normalize(a)) = m
             /\ \A k \in 1..m : normalize(a)[k] = a[k]
             /\ m = 1 \/ a[m] # 0
             /\ \A k \in (m + 1)..Len(a) : a[k] = 0
<1> DEFINE m == TopOf(a)
           n == Len(a)
           s == {1} \cup {i \in DOMAIN a : a[i] # 0}
<1>1. n \in Nat /\ n >= 1 /\ DOMAIN a = 1..n
  OBVIOUS
<1>2. s \in SUBSET (1..n) /\ 1 \in s
  BY <1>1
<1>3. Max(s) \in s /\ \A y \in s : Max(s) >= y
  <2> HIDE DEF s
  <2>1. s # {}
    BY <1>2, Zenon
  <2> QED
    BY <1>1, <1>2, <2>1, MaxIn
<1>4. m = Max(s)
  BY DEF TopOf
<1>5. m \in 1..n /\ (m = 1 \/ a[m] # 0)
  BY <1>2, <1>3, <1>4
<1>6. ASSUME NEW k \in (m + 1)..n PROVE a[k] = 0
  <2>1. k \in 1..n /\ k > m
    BY <1>1, <1>5
  <2>2. a[k] # 0 => k \in s
    BY <1>1, <2>1
  <2> HIDE DEF s
  <2> QED
    BY <1>3, <1>4, <1>5, <2>1, <2>2
<1>7. normalize(a) = SubSeq(a, 1, m)
  BY DEF normalize, TopOf
<1> HIDE DEF m
<1>8. SubSeq(a, 1, m) \in Seq(D!digit) /\ Len(SubSeq(a, 1, m)) = m
      /\ \A k \in 1..m : SubSeq(a, 1, m)[k] = a[k]
  BY <1>1, <1>5
<1>9. SubSeq(a, 1, m) # <<>>
  BY <1>1, <1>5, <1>8
<1> QED
  BY <1>5, <1>6, <1>7, <1>8, <1>9 DEF m

(* normalize (BigNumberNaive.cpp) does not change the number, and once is  *)
(* enough.                                                                 *)
LEMMA NormalizeKeeps ==
  ASSUME D!Base \in Nat, D!Base > 2, NEW a \in Seq(D!digit), a # <<>>
  PROVE  /\ normalize(a) \in Seq(D!digit) /\ normalize(a) # <<>>
         /\ Value(normalize(a)) = Value(a)
         /\ normalize(normalize(a)) = normalize(a)
<1> DEFINE m == TopOf(a)
           b == normalize(a)
           t == TopOf(b)
<1>1. /\ m \in 1..Len(a) /\ b \in Seq(D!digit) /\ b # <<>> /\ Len(b) = m
      /\ \A k \in 1..m : b[k] = a[k]
      /\ m = 1 \/ a[m] # 0
      /\ \A k \in (m + 1)..Len(a) : a[k] = 0
  BY NormalizeIs
<1>2. /\ t \in 1..Len(b) /\ normalize(b) = SubSeq(b, 1, t)
      /\ \A k \in (t + 1)..Len(b) : b[k] = 0
  <2> HIDE DEF b
  <2> QED
    BY <1>1, NormalizeIs
<1> HIDE DEF m, b, t
<1>3. a \in Seq(Nat) /\ b \in Seq(Nat) /\ Len(b) <= Len(a)
  BY <1>1, VectorSeq
<1>4. Value(a) = Value(b)
  BY <1>1, <1>3, ValueTop
<1>5. t = m
  BY <1>1, <1>2
<1>6. SubSeq(b, 1, m) = b
  BY <1>1
<1> QED
  BY <1>1, <1>2, <1>4, <1>5, <1>6 DEF b

(* Its result is in normal form.                                           *)
LEMMA NormalizeNormal ==
  ASSUME D!Base \in Nat, D!Base > 2, NEW a \in Seq(D!digit), a # <<>>
  PROVE  normalize(a) \in Normals
  BY NormalizeKeeps DEF Normals, Vectors

(* A vector of one digit is in normal form.                                *)
LEMMA DigitNormal ==
  ASSUME D!Base \in Nat, D!Base > 2, NEW d \in D!digit
  PROVE  <<d>> \in Normals
<1>1. <<d>> \in Seq(D!digit) /\ <<d>> # <<>> /\ Len(<<d>>) = 1
  OBVIOUS
<1> DEFINE a == <<d>>
           b == normalize(a)
<1> HIDE DEF a
<1>2. /\ b \in Seq(D!digit) /\ Len(b) \in 1..1
      /\ \A k \in 1..Len(b) : b[k] = a[k]
  BY <1>1, NormalizeIs DEF a
<1>3. b = a
  <2> HIDE DEF b
  <2>1. Len(b) = 1 /\ Len(a) = 1 /\ a \in Seq(D!digit) /\ b[1] = a[1]
    BY <1>1, <1>2 DEF a
  <2> QED
    BY <1>2, <2>1
<1> QED
  BY <1>1, <1>3 DEF Normals, Vectors, a

(* So are the vectors of 0 and 1.                                          *)
LEMMA ZeroNormal ==
  ASSUME D!Base \in Nat, D!Base > 2
  PROVE  Zero \in Normals /\ <<1>> \in Normals
  BY DigitNat, DigitNormal DEF Zero

(* The positions that a loop from i to n goes through.                     *)
LEMMA PositionsIs ==
  ASSUME NEW n \in Nat, NEW i \in 1..n
  PROVE  /\ DOMAIN Positions(i, n) = 1..(n - i + 1) /\ n - i + 1 \in Nat
         /\ \A k \in 1..(n - i + 1) : Positions(i, n)[k] = i + k - 1 /\ i + k - 1 \in 1..n
  BY DEF Positions

-----------------------------------------------------------------------------
(* add.                                                                    *)

(* A vector of n digits and a carry.                                       *)
Carrying(n) == [v : {s \in Seq(D!digit) : Len(s) = n}, c : D!digit]

(* The parts of such a state.                                              *)
LEMMA CarryingIs ==
  ASSUME NEW n \in Nat, NEW s \in Carrying(n)
  PROVE  s.v \in Seq(D!digit) /\ Len(s.v) = n /\ s.c \in D!digit
  BY DEF Carrying

(* Its parts make a state.                                                 *)
LEMMA CarryingMake ==
  ASSUME NEW n \in Nat, NEW v \in Seq(D!digit), Len(v) = n, NEW c \in D!digit
  PROVE  [v |-> v, c |-> c] \in Carrying(n)
  BY DEF Carrying

(* One digit of a vector and the carry replaced by two of the same worth.  *)
LEMMA PutExact ==
  ASSUME D!Base \in Nat, D!Base > 2, NEW n \in Nat, NEW s \in Carrying(n), NEW k \in 1..n,
         NEW r, r.v \in D!digit, r.ov \in D!digit
  PROVE  /\ put(s, k, r) \in Carrying(n)
         /\ put(s, k, r).c = r.ov
         /\ Value(put(s, k, r).v) + s.v[k] * Weight[k - 1] = Value(s.v) + r.v * Weight[k - 1]
<1> DEFINE a == s.v
           b == [a EXCEPT ![k] = r.v]
<1>1. a \in Seq(D!digit) /\ Len(a) = n /\ put(s, k, r) = [v |-> b, c |-> r.ov]
  BY CarryingIs DEF put
<1>2. r.v \in Nat /\ a \in Seq(Nat)
  BY <1>1, DigitNat, VectorSeq
<1>3. b \in Seq(D!digit) /\ Len(b) = n
  BY <1>1
<1>4. Value(b) + a[k] * Weight[k - 1] = Value(a) + r.v * Weight[k - 1]
  BY <1>1, <1>2, ValuePut
<1> HIDE DEF a, b
<1> QED
  BY <1>1, <1>3, <1>4, CarryingMake DEF a

(* The arithmetic of one step: what leaves a digit returns as a carry of   *)
(* the next place.                                                         *)
LEMMA WorthMoves ==
  ASSUME NEW B \in Nat, NEW w \in Nat, NEW x \in Nat, NEW y \in Nat, NEW v \in Nat, NEW o \in Nat,
         NEW A \in Nat, NEW C \in Nat,
         v + o * B = x + y, C + x * w = A + v * w
  PROVE  C + o * (B * w) = A + y * w
<1>1. (v + o * B) * w = (x + y) * w
  OBVIOUS
<1>2. (v + o * B) * w = v * w + o * (B * w) /\ (x + y) * w = x * w + y * w
  BY SMT
<1> DEFINE vw == v * w
           ob == o * (B * w)
           xw == x * w
           yw == y * w
<1>3. vw \in Nat /\ ob \in Nat /\ xw \in Nat /\ yw \in Nat
  BY SMT
<1>4. vw + ob = xw + yw /\ C + xw = A + vw
  BY <1>1, <1>2
<1> HIDE DEF vw, ob, xw, yw
<1>5. C + ob = A + yw
  BY <1>3, <1>4
<1> QED
  BY <1>5 DEF ob, yw

AddStep(s, k) == IF s.c = 0 THEN s ELSE put(s, k, D!add(s.v[k], s.c))

(* A step of addDigit moves worth from the carry to the digit and the next *)
(* carry, and loses none.                                                  *)
LEMMA AddStepExact ==
  ASSUME D!Base \in Nat, D!Base > 2, NEW n \in Nat, NEW s \in Carrying(n), NEW k \in 1..n
  PROVE  /\ AddStep(s, k) \in Carrying(n)
         /\ Value(AddStep(s, k).v) + AddStep(s, k).c * Weight[k] = Value(s.v) + s.c * Weight[k - 1]
<1> DEFINE x == s.v[k]
           y == s.c
           r == D!add(x, y)
           t == put(s, k, r)
           w == Weight[k - 1]
<1>1. s.v \in Seq(D!digit) /\ Len(s.v) = n /\ x \in D!digit /\ y \in D!digit
  BY CarryingIs
<1>2. w \in Nat /\ Weight[k] = D!Base * w /\ Weight[k] \in Nat
  <2>1. k - 1 \in Nat /\ k \in Nat /\ k > 0
    OBVIOUS
  <2> QED
    BY <2>1, WeightNat, WeightStep
<1>3. CASE y = 0
  <2>1. AddStep(s, k) = s
    BY <1>3 DEF AddStep
  <2>2. Value(s.v) \in Nat
    BY <1>1, VectorSeq, PartsOf
  <2> HIDE DEF w
  <2>3. Value(s.v) + s.c * Weight[k] = Value(s.v) + s.c * w
    BY <1>2, <1>3, <2>2
  <2> QED
    BY <2>1, <2>3 DEF w
<1>4. CASE y # 0
  <2>1. r.v \in D!digit /\ r.ov \in 0..1 /\ r.v + r.ov * D!Base = x + y
    <3> HIDE DEF x, y
    <3> QED
      BY <1>1, AddExact
  <2>2. r.ov \in D!digit
    BY <2>1 DEF D!digit
  <2> HIDE DEF r
  <2>3. t \in Carrying(n) /\ t.c = r.ov /\ Value(t.v) + x * w = Value(s.v) + r.v * w
    BY <2>1, <2>2, PutExact
  <2>4. AddStep(s, k) = t
    BY <1>4 DEF AddStep, r
  <2>5. Value(s.v) \in Nat /\ Value(t.v) \in Nat
    <3> HIDE DEF t
    <3>1. t.v \in Seq(D!digit)
      BY <2>3, CarryingIs
    <3> QED
      BY <1>1, <3>1, VectorSeq, PartsOf
  <2>6. x \in Nat /\ y \in Nat /\ r.v \in Nat /\ r.ov \in Nat
    BY <1>1, <2>1, <2>2, DigitNat
  <2> HIDE DEF t, w, x, y
  <2>7. Value(t.v) + r.ov * (D!Base * w) = Value(s.v) + y * w
    <3> DEFINE A == Value(s.v)
               C == Value(t.v)
               v == r.v
               o == r.ov
               B == D!Base
    <3>1. /\ B \in Nat /\ w \in Nat /\ x \in Nat /\ y \in Nat /\ v \in Nat /\ o \in Nat
          /\ A \in Nat /\ C \in Nat /\ v + o * B = x + y /\ C + x * w = A + v * w
      BY <1>2, <2>1, <2>3, <2>5, <2>6
    <3> HIDE DEF A, C, v, o, B
    <3>2. C + o * (B * w) = A + y * w
      BY ONLY <3>1, WorthMoves
    <3> QED
      BY <3>2 DEF A, C, v, o, B
  <2> QED
    BY <1>2, <2>3, <2>4, <2>7 DEF w, y
<1> QED
  BY <1>3, <1>4

(* The states of addDigit's loop over the digits from place i.             *)
LEMMA AddDigitLoop ==
  ASSUME D!Base \in Nat, D!Base > 2, NEW a \in Seq(D!digit), NEW i \in 1..Len(a), NEW d \in D!digit
  PROVE  \E h \in [0..(Len(a) - i + 1) -> Carrying(Len(a))] :
            /\ h[0] = [v |-> a, c |-> d]
            /\ \A k \in 1..(Len(a) - i + 1) : h[k] = AddStep(h[k - 1], i + k - 1)
            /\ addDigit(a, d, i) = carried(h[Len(a) - i + 1])
<1> DEFINE n == Len(a)
           N == n - i + 1
           X == Carrying(n)
           b == [v |-> a, c |-> d]
           q == Positions(i, n)
           F == [p \in (1..N) \X X |-> AddStep(p[2], i + p[1] - 1)]
           Body(f) == [s \in SUBSET (DOMAIN q) |->
                         IF s = {} THEN b ELSE AddStep(f[s \ {Max(s)}], q[Max(s)])]
           it == CHOOSE f : f = Body(f)
<1>1. n \in Nat /\ N \in Nat /\ b \in X
  BY CarryingMake
<1>2. DOMAIN q = 1..N /\ \A k \in 1..N : q[k] = i + k - 1 /\ i + k - 1 \in 1..n
  BY PositionsIs
<1>v. addDigit(a, d, i) = carried(it[DOMAIN q])
  BY DEF addDigit, FoldLeft, MapThenFoldSet, AddStep
<1> HIDE DEF n, N, X, b, q
<1>3. \A e \in 1..N : \A x \in X : F[<<e, x>>] = AddStep(x, i + e - 1)
  OBVIOUS
<1>4. \A e \in 1..N : \A x \in X : AddStep(x, i + e - 1) \in X
  BY <1>1, <1>2, AddStepExact DEF X
<1> HIDE DEF F
<1>5. Keeps(F, N, X)
  BY <1>3, <1>4 DEF Keeps
<1>6. PICK g \in [SUBSET (1..N) -> X] : Upward(g, N, X, b, F)
  BY <1>1, <1>5, FoldUp
<1>m. \A s \in SUBSET (1..N) : s # {} => Max(s) \in 1..N
  BY <1>1, MaxIn
<1>7. g = Body(g)
  <2>1. ASSUME NEW s \in SUBSET (1..N)
        PROVE  g[s] = IF s = {} THEN b ELSE AddStep(g[s \ {Max(s)}], q[Max(s)])
    <3>1. CASE s = {}
      BY <1>6, <3>1 DEF Upward
    <3>2. CASE s # {}
      <4>1. Max(s) \in 1..N /\ g[s \ {Max(s)}] \in X
        BY <1>m, <1>6, <3>2
      <4>2. g[s] = F[<<Max(s), g[s \ {Max(s)}]>>]
        BY <1>6, <3>2, <4>1, Zenon DEF Upward
      <4> QED
        BY <1>2, <1>3, <3>2, <4>1, <4>2
    <3> QED
      BY <3>1, <3>2
  <2> QED
    BY <1>2, <1>6, <2>1
<1>8. it = Body(it)
  <2> HIDE DEF Body
  <2> QED
    BY <1>7
<1> HIDE DEF it
<1>9. ASSUME NEW s \in SUBSET (1..N)
      PROVE  it[s] = IF s = {} THEN b ELSE AddStep(it[s \ {Max(s)}], q[Max(s)])
  BY <1>2, <1>8
<1>10. Upward(it, N, X, b, F)
  <2>1. it[{}] = b
    BY <1>9
  <2>2. ASSUME NEW s \in SUBSET (1..N), s # {}, it[s \ {Max(s)}] \in X
        PROVE  it[s] = F[<<Max(s), it[s \ {Max(s)}]>>]
    BY <1>2, <1>3, <1>m, <1>9, <2>2
  <2> QED
    BY <2>1, <2>2 DEF Upward
<1>11. PICK h \in [0..N -> X] : LoopUp(h, N, b, F) /\ h[N] = it[1..N]
  <2>1. EndsUp(it, N, X, b, F)
    BY <1>1, <1>5, <1>10, StepsUp, Zenon
  <2> QED
    BY <2>1 DEF EndsUp
<1>12. ASSUME NEW k \in 1..N PROVE h[k] = AddStep(h[k - 1], i + k - 1)
  <2>1. h[k - 1] \in X
    BY <1>1
  <2> QED
    BY <1>3, <1>11, <2>1 DEF LoopUp
<1>13. h[0] = b /\ addDigit(a, d, i) = carried(h[N])
  BY <1>2, <1>v, <1>11 DEF LoopUp
<1> QED
  BY <1>12, <1>13 DEF n, N, X, b

(* The last carry becomes a digit.                                         *)
LEMMA CarriedExact ==
  ASSUME D!Base \in Nat, D!Base > 2, NEW n \in Nat, NEW s \in Carrying(n)
  PROVE  /\ carried(s) \in Seq(D!digit) /\ Len(carried(s)) \in n..(n + 1)
         /\ Value(carried(s)) = Value(s.v) + s.c * Weight[n]
<1>1. s.v \in Seq(D!digit) /\ Len(s.v) = n /\ s.c \in D!digit
  BY CarryingIs
<1>2. s.v \in Seq(Nat) /\ s.c \in Nat
  BY <1>1, DigitNat, VectorSeq
<1>3. Weight[n] \in Nat /\ Value(s.v) \in Nat
  BY <1>2, WeightNat, PartsOf
<1>4. CASE s.c = 0
  BY <1>1, <1>3, <1>4 DEF carried
<1>5. CASE s.c # 0
  <2>1. carried(s) = Append(s.v, s.c)
    BY <1>5 DEF carried
  <2> QED
    BY <1>1, <1>2, <2>1, ValueAppend
<1> QED
  BY <1>4, <1>5

(* addDigit adds the digit times the weight of its place.                  *)
LEMMA AddDigitExact ==
  ASSUME D!Base \in Nat, D!Base > 2, NEW a \in Seq(D!digit), NEW i \in 1..(Len(a) + 1),
         NEW d \in D!digit
  PROVE  /\ addDigit(a, d, i) \in Seq(D!digit)
         /\ Len(addDigit(a, d, i)) \in Len(a)..(Len(a) + 1)
         /\ i > Len(a) => Len(addDigit(a, d, i)) = Len(a) + 1
         /\ Value(addDigit(a, d, i)) = Value(a) + d * Weight[i - 1]
<1>0. a \in Seq(Nat) /\ d \in Nat /\ Len(a) \in Nat
  BY VectorSeq, DigitNat
<1>1. CASE i > Len(a)
  <2>1. addDigit(a, d, i) = Append(a, d)
    BY <1>1 DEF addDigit
  <2>2. i - 1 = Len(a)
    BY <1>0, <1>1
  <2>3. Append(a, d) \in Seq(D!digit) /\ Len(Append(a, d)) = Len(a) + 1
    OBVIOUS
  <2> QED
    BY <1>0, <2>1, <2>2, <2>3, ValueAppend
<1>2. CASE ~(i > Len(a))
  <2> DEFINE n == Len(a)
             N == n - i + 1
             v == Value(a) + d * Weight[i - 1]
  <2>1. i \in 1..n /\ n \in Nat /\ N \in Nat
    BY <1>0, <1>2
  <2>2. PICK h \in [0..N -> Carrying(n)] :
            /\ h[0] = [v |-> a, c |-> d]
            /\ \A k \in 1..N : h[k] = AddStep(h[k - 1], i + k - 1)
            /\ addDigit(a, d, i) = carried(h[N])
    BY <2>1, AddDigitLoop
  <2> DEFINE P == {k \in 0..N : Value(h[k].v) + h[k].c * Weight[i + k - 1] = v}
  <2> HIDE DEF n, N
  <2>3. 0 \in P
    <3>1. i + 0 - 1 = i - 1 /\ 0 \in 0..N
      BY <2>1
    <3> QED
      BY <2>2, <3>1
  <2> HIDE DEF v
  <2>4. ASSUME NEW k \in 1..N, k - 1 \in P PROVE k \in P
    <3>1. k - 1 \in 0..N /\ h[k - 1] \in Carrying(n)
      BY <2>1, <2>2
    <3>2. i + k - 1 \in 1..n /\ i + (k - 1) - 1 = (i + k - 1) - 1
      BY <2>1 DEF N
    <3> DEFINE s == h[k - 1]
               t == AddStep(s, i + k - 1)
    <3>3. Value(t.v) + t.c * Weight[i + k - 1] = Value(s.v) + s.c * Weight[(i + k - 1) - 1]
      <4> HIDE DEF s
      <4> QED
        BY <2>1, <3>1, <3>2, AddStepExact DEF s
    <3>4. Value(s.v) + s.c * Weight[i + (k - 1) - 1] = v
      BY <2>4
    <3>5. h[k] = t
      BY <2>2
    <3> HIDE DEF t, s
    <3>6. Value(h[k].v) + h[k].c * Weight[i + k - 1] = v
      BY <3>2, <3>3, <3>4, <3>5
    <3> QED
      BY <3>6
  <2>5. N \in P
    <3> HIDE DEF P
    <3>1. \A k \in 0..N : k \in P
      BY <2>1, <2>3, <2>4, Induction
    <3> QED
      BY <2>1, <3>1
  <2>6. Value(h[N].v) + h[N].c * Weight[n] = v
    <3>1. i + N - 1 = n
      BY <2>1 DEF N
    <3> QED
      BY <2>5, <3>1
  <2>7. h[N] \in Carrying(n)
    BY <2>1, <2>2
  <2>8. /\ carried(h[N]) \in Seq(D!digit) /\ Len(carried(h[N])) \in n..(n + 1)
        /\ Value(carried(h[N])) = v
    BY <2>1, <2>6, <2>7, CarriedExact
  <2> QED
    BY <1>2, <2>2, <2>8 DEF n, v
<1> QED
  BY <1>1, <1>2

(* At any place a vector of digits stays one.                              *)
LEMMA AddDigitDigits ==
  ASSUME D!Base \in Nat, D!Base > 2, NEW a \in Seq(D!digit), NEW i \in Nat, i >= 1,
         NEW d \in D!digit
  PROVE  addDigit(a, d, i) \in Seq(D!digit) /\ Len(addDigit(a, d, i)) >= Len(a)
<1>1. CASE i > Len(a)
  BY <1>1 DEF addDigit
<1>2. CASE ~(i > Len(a))
  <2>1. i \in 1..(Len(a) + 1) /\ Len(a) \in Nat
    BY <1>2
  <2> QED
    BY <2>1, AddDigitExact
<1> QED
  BY <1>1, <1>2

(* The vectors that add works through.                                     *)
LEMMA AddLoop ==
  ASSUME D!Base \in Nat, D!Base > 2, NEW a \in Seq(D!digit), NEW b \in Seq(D!digit)
  PROVE  LET N == Len(b)
             X == Seq(D!digit)
         IN  \E h \in [0..N -> X] :
               /\ h[0] = a
               /\ \A k \in 1..N : h[k] = addDigit(h[k - 1], b[k], k)
               /\ FoldLeftDomain(LAMBDA v, i : addDigit(v, b[i], i), a, b) = h[N]
<1> DEFINE N == Len(b)
           X == Seq(D!digit)
           b0 == a
           q == [i \in DOMAIN b |-> i]
           F == [p \in (1..N) \X X |-> addDigit(p[2], b[p[1]], p[1])]
           Body(f) == [s \in SUBSET (DOMAIN q) |->
                         IF s = {} THEN b0 ELSE addDigit(f[s \ {Max(s)}], b[q[Max(s)]], q[Max(s)])]
           it == CHOOSE f : f = Body(f)
<1>1. N \in Nat /\ b0 \in X
  BY VectorSeq
<1>2. DOMAIN q = 1..N /\ \A k \in 1..N : q[k] = k
  BY VectorSeq
<1>b. \A k \in 1..N : b[k] \in D!digit
  BY VectorSeq
<1>v. FoldLeftDomain(LAMBDA v, i : addDigit(v, b[i], i), a, b) = it[DOMAIN q]
  BY DEF FoldLeftDomain, FoldLeft, MapThenFoldSet
<1> HIDE DEF N, b0, q
<1>3. \A e \in 1..N : \A x \in X : F[<<e, x>>] = addDigit(x, b[e], e)
  OBVIOUS
<1>4. \A e \in 1..N : \A x \in X : addDigit(x, b[e], e) \in X
  <2>1. ASSUME NEW e \in 1..N, NEW x \in X PROVE addDigit(x, b[e], e) \in X
    <3>1. e \in Nat /\ e >= 1 /\ b[e] \in D!digit
      BY <1>b
    <3> QED
      BY <3>1, AddDigitDigits
  <2> QED
    BY <2>1
<1> HIDE DEF F, X
<1>5. Keeps(F, N, X)
  BY <1>3, <1>4 DEF Keeps
<1>6. PICK g \in [SUBSET (1..N) -> X] : Upward(g, N, X, b0, F)
  BY <1>1, <1>5, FoldUp
<1>m. \A s \in SUBSET (1..N) : s # {} => Max(s) \in 1..N
  BY <1>1, MaxIn
<1>7. g = Body(g)
  <2>1. ASSUME NEW s \in SUBSET (1..N)
        PROVE  g[s] = IF s = {} THEN b0 ELSE addDigit(g[s \ {Max(s)}], b[q[Max(s)]], q[Max(s)])
    <3>1. CASE s = {}
      BY <1>6, <3>1 DEF Upward
    <3>2. CASE s # {}
      <4>1. Max(s) \in 1..N /\ g[s \ {Max(s)}] \in X
        BY <1>m, <1>6, <3>2
      <4>2. g[s] = F[<<Max(s), g[s \ {Max(s)}]>>]
        BY <1>6, <3>2, <4>1, Zenon DEF Upward
      <4> QED
        BY <1>2, <1>3, <3>2, <4>1, <4>2
    <3> QED
      BY <3>1, <3>2
  <2> QED
    BY <1>2, <1>6, <2>1
<1>8. it = Body(it)
  <2> HIDE DEF Body
  <2> QED
    BY <1>7
<1> HIDE DEF it
<1>9. ASSUME NEW s \in SUBSET (1..N)
      PROVE  it[s] = IF s = {} THEN b0 ELSE addDigit(it[s \ {Max(s)}], b[q[Max(s)]], q[Max(s)])
  BY <1>2, <1>8
<1>10. Upward(it, N, X, b0, F)
  <2>1. it[{}] = b0
    BY <1>9
  <2>2. ASSUME NEW s \in SUBSET (1..N), s # {}, it[s \ {Max(s)}] \in X
        PROVE  it[s] = F[<<Max(s), it[s \ {Max(s)}]>>]
    <3>1. Max(s) \in 1..N
      BY <1>m, <2>2
    <3>2. q[Max(s)] = Max(s)
      BY <1>2, <3>1
    <3>3. it[s] = addDigit(it[s \ {Max(s)}], b[Max(s)], Max(s))
      BY <1>9, <2>2, <3>2, Zenon
    <3> QED
      BY <1>3, <2>2, <3>1, <3>3, Zenon
  <2> QED
    BY <2>1, <2>2 DEF Upward
<1>11. PICK h \in [0..N -> X] : LoopUp(h, N, b0, F) /\ h[N] = it[1..N]
  <2>1. EndsUp(it, N, X, b0, F)
    BY <1>1, <1>5, <1>10, StepsUp, Zenon
  <2> QED
    BY <2>1 DEF EndsUp
<1>12. ASSUME NEW k \in 1..N PROVE h[k] = addDigit(h[k - 1], b[k], k)
  <2>1. h[k - 1] \in X
    BY <1>1
  <2> QED
    BY <1>3, <1>11, <2>1 DEF LoopUp
<1>13. h[0] = b0 /\ FoldLeftDomain(LAMBDA v, i : addDigit(v, b[i], i), a, b) = h[N]
  BY <1>2, <1>v, <1>11 DEF LoopUp
<1> QED
  BY <1>12, <1>13 DEF N, X, b0

(* BigNumberNaive::add of two different vectors is exact for every width   *)
(* of a digit and every length: the carries that run along the digits,     *)
(* past the end included, lose nothing, and the result is normalised.      *)
THEOREM NaiveAddExact ==
  ASSUME D!Base \in Nat, D!Base > 2, NEW a \in Seq(D!digit), a # <<>>, NEW b \in Seq(D!digit)
  PROVE  /\ add(a, b) \in Seq(D!digit) /\ add(a, b) # <<>>
         /\ Value(add(a, b)) = Value(a) + Value(b)
         /\ normalize(add(a, b)) = add(a, b)
<1> DEFINE N == Len(b)
           sum == FoldLeftDomain(LAMBDA v, i : addDigit(v, b[i], i), a, b)
<1>0. add(a, b) = normalize(sum)
  BY DEF add
<1>1. PICK h \in [0..N -> Seq(D!digit)] :
         /\ h[0] = a
         /\ \A k \in 1..N : h[k] = addDigit(h[k - 1], b[k], k)
         /\ sum = h[N]
  BY AddLoop
<1>2. /\ N \in Nat /\ b \in Seq(Nat) /\ a \in Seq(Nat)
      /\ \A k \in 1..N : b[k] \in D!digit /\ b[k] \in Nat
  BY VectorSeq
<1>3. /\ Parts(b)[0] = 0 /\ Parts(b)[N] = Value(b) /\ Value(a) \in Nat
      /\ \A k \in 0..N : Parts(b)[k] \in Nat
      /\ \A k \in 1..N : Parts(b)[k] = Parts(b)[k - 1] + b[k] * Weight[k - 1]
  BY <1>2, PartsOf
<1> HIDE DEF sum, N
<1> DEFINE P == {k \in 0..N : /\ Len(h[k]) >= k /\ Len(h[k]) >= 1
                             /\ Value(h[k]) = Value(a) + Parts(b)[k]}
<1>4. 0 \in P
  <2>1. Len(a) >= 1 /\ Len(a) >= 0
    BY <1>2
  <2>2. Value(a) = Value(a) + 0
    BY <1>3
  <2> QED
    BY <1>1, <1>2, <1>3, <2>1, <2>2
<1>5. ASSUME NEW k \in 1..N, k - 1 \in P PROVE k \in P
  <2> DEFINE v == h[k - 1]
             w == b[k] * Weight[k - 1]
  <2>1. /\ Len(v) >= k - 1 /\ Len(v) >= 1 /\ Value(v) = Value(a) + Parts(b)[k - 1]
        /\ h[k] = addDigit(v, b[k], k)
    BY <1>1, <1>5
  <2>2. v \in Seq(D!digit) /\ Len(v) \in Nat
    BY <1>2
  <2>3. k \in Nat /\ k >= 1 /\ b[k] \in D!digit /\ k - 1 \in 0..N /\ k - 1 \in Nat
    BY <1>2
  <2> HIDE DEF v
  <2>4. k \in 1..(Len(v) + 1)
    BY <2>1, <2>2, <2>3
  <2>5. /\ h[k] \in Seq(D!digit) /\ Len(h[k]) \in Len(v)..(Len(v) + 1)
        /\ k > Len(v) => Len(h[k]) = Len(v) + 1
        /\ Value(h[k]) = Value(v) + w
    <3> DEFINE u == addDigit(v, b[k], k)
    <3>1. v \in Seq(D!digit) /\ b[k] \in D!digit /\ k \in 1..(Len(v) + 1)
      BY <2>2, <2>3, <2>4
    <3>2. /\ u \in Seq(D!digit) /\ Len(u) \in Len(v)..(Len(v) + 1)
          /\ k > Len(v) => Len(u) = Len(v) + 1
          /\ Value(u) = Value(v) + w
      BY <3>1, AddDigitExact, Zenon
    <3>3. h[k] = u
      BY <2>1
    <3> HIDE DEF u
    <3> QED
      BY <3>2, <3>3
  <2>6. Len(h[k]) >= k /\ Len(h[k]) >= 1
    BY <2>1, <2>2, <2>3, <2>5
  <2>7. Parts(b)[k] = Parts(b)[k - 1] + w /\ w \in Nat
    <3>1. b[k] \in Nat /\ Weight[k - 1] \in Nat
      BY <1>2, <2>3, WeightNat
    <3> QED
      BY <1>3, <3>1
  <2> HIDE DEF w
  <2>8. Value(h[k]) = Value(a) + Parts(b)[k]
    BY <1>3, <2>1, <2>3, <2>5, <2>7
  <2> QED
    BY <2>6, <2>8
<1>6. N \in P
  <2> HIDE DEF P
  <2>1. \A k \in 0..N : k \in P
    BY <1>2, <1>4, <1>5, Induction
  <2> QED
    BY <1>2, <2>1
<1>7. sum \in Seq(D!digit) /\ sum # <<>> /\ Value(sum) = Value(a) + Value(b)
  <2>1. sum \in Seq(D!digit) /\ Len(sum) >= 1 /\ Value(sum) = Value(a) + Value(b)
    BY <1>1, <1>2, <1>3, <1>6
  <2> QED
    BY <2>1
<1> QED
  BY <1>0, <1>7, NormalizeKeeps

-----------------------------------------------------------------------------
(* multiply.                                                               *)

(* Weights multiply where places add.                                      *)
LEMMA WeightSum ==
  ASSUME D!Base \in Nat, D!Base > 2, NEW i \in Nat, NEW n \in Nat
  PROVE  Weight[i + n] = Weight[i] * Weight[n]
<1> DEFINE P == {k \in 0..n : Weight[i + k] = Weight[i] * Weight[k]}
<1>1. 0 \in P
  <2>1. i + 0 = i /\ Weight[0] = 1 /\ Weight[i] \in Nat /\ 0 \in 0..n
    BY WeightIs, WeightNat
  <2> QED
    BY <2>1
<1>2. ASSUME NEW k \in 1..n, k - 1 \in P PROVE k \in P
  <2> DEFINE B == D!Base
             u == Weight[i]
             w == Weight[k - 1]
  <2>1. k - 1 \in Nat /\ k \in Nat /\ k > 0 /\ i + k \in Nat /\ i + k > 0 /\ (i + k) - 1 = i + (k - 1)
    OBVIOUS
  <2>2. Weight[k] = B * w /\ Weight[i + k] = B * Weight[i + (k - 1)]
    BY <2>1, WeightStep
  <2>3. Weight[i + (k - 1)] = u * w
    BY <1>2
  <2>4. u \in Nat /\ w \in Nat /\ B \in Nat
    BY <2>1, WeightNat
  <2> HIDE DEF u, w, B
  <2>5. B * (u * w) = u * (B * w)
    BY <2>4, SMT
  <2>6. Weight[i + k] = u * Weight[k]
    BY <2>2, <2>3, <2>5
  <2> QED
    BY <2>6 DEF u
<1> HIDE DEF P
<1>3. \A k \in 0..n : k \in P
  BY <1>1, <1>2, Induction
<1>4. n \in P
  BY <1>3
<1> QED
  BY <1>4 DEF P

(* One step of the inner loop of multiply, at place k.                     *)
CellStep(s, x, d, k) == put(s, k, cell(x, d, s.v[k], s.c))

(* A cell of the product moves worth to the digit and to the carry that is *)
(* added from three overflows, and loses none.                             *)
LEMMA CellStepExact ==
  ASSUME D!Base \in Nat, D!Base > 2, NEW n \in Nat, NEW s \in Carrying(n), NEW k \in 1..n,
         NEW x \in D!digit, NEW d \in D!digit
  PROVE  LET t == CellStep(s, x, d, k)
         IN  /\ t \in Carrying(n)
             /\ Value(t.v) + t.c * Weight[k]
                  = (Value(s.v) + s.c * Weight[k - 1]) + (x * d) * Weight[k - 1]
<1> DEFINE p == s.v[k]
           c == s.c
           r == cell(x, d, p, c)
           t == CellStep(s, x, d, k)
           w == Weight[k - 1]
           y == x * d + c
<1>1. s.v \in Seq(D!digit) /\ Len(s.v) = n /\ p \in D!digit /\ c \in D!digit
  BY CarryingIs
<1>2. w \in Nat /\ Weight[k] = D!Base * w
  <2>1. k - 1 \in Nat /\ k \in Nat /\ k > 0
    OBVIOUS
  <2> QED
    BY <2>1, WeightNat, WeightStep
<1>3. r.v \in D!digit /\ r.ov \in D!digit /\ r.v + r.ov * D!Base = p + x * d + c
  <2> HIDE DEF p, c
  <2> QED
    BY <1>1, CellExact
<1>4. x \in Nat /\ d \in Nat /\ p \in Nat /\ c \in Nat /\ r.v \in Nat /\ r.ov \in Nat
  BY <1>1, <1>3, DigitNat
<1>5. y \in Nat /\ r.v + r.ov * D!Base = p + y
  <2> DEFINE xd == x * d
  <2>1. xd \in Nat
    BY <1>4, SMT
  <2>2. r.v + r.ov * D!Base = p + xd + c
    BY <1>3
  <2> HIDE DEF xd, r
  <2>3. p + xd + c = p + (xd + c) /\ xd + c \in Nat
    BY <1>4, <2>1
  <2> QED
    BY <2>2, <2>3 DEF xd
<1>t. t = put(s, k, r)
  BY DEF CellStep
<1> HIDE DEF r, t, y
<1>6. t \in Carrying(n) /\ t.c = r.ov /\ Value(t.v) + p * w = Value(s.v) + r.v * w
  BY <1>3, <1>t, PutExact
<1>7. Value(s.v) \in Nat /\ Value(t.v) \in Nat
  <2>1. t.v \in Seq(D!digit)
    BY <1>6, CarryingIs
  <2> QED
    BY <1>1, <2>1, VectorSeq, PartsOf
<1>8. Value(t.v) + r.ov * (D!Base * w) = Value(s.v) + y * w
  <2> DEFINE A == Value(s.v)
             C == Value(t.v)
             v == r.v
             o == r.ov
             B == D!Base
  <2>1. /\ B \in Nat /\ w \in Nat /\ p \in Nat /\ y \in Nat /\ v \in Nat /\ o \in Nat
        /\ A \in Nat /\ C \in Nat /\ v + o * B = p + y /\ C + p * w = A + v * w
    BY <1>2, <1>4, <1>5, <1>6, <1>7
  <2> HIDE DEF A, C, v, o, B, p, w
  <2>2. C + o * (B * w) = A + y * w
    BY ONLY <2>1, WorthMoves
  <2> QED
    BY <2>2 DEF A, C, v, o, B
<1>9. Value(s.v) + y * w = (Value(s.v) + c * w) + (x * d) * w
  <2> DEFINE A == Value(s.v)
             z == x * d
  <2>1. z \in Nat /\ A \in Nat /\ c \in Nat /\ w \in Nat /\ y = z + c
    BY <1>2, <1>4, <1>7, SMT DEF y
  <2> HIDE DEF A, z, c, w
  <2>2. (z + c) * w = z * w + c * w /\ z * w \in Nat /\ c * w \in Nat
    BY <2>1, SMT
  <2>3. A + (z * w + c * w) = (A + c * w) + z * w
    <3> DEFINE zw == z * w
               cw == c * w
    <3>1. zw \in Nat /\ cw \in Nat
      BY <2>2
    <3> HIDE DEF zw, cw
    <3>2. A + (zw + cw) = (A + cw) + zw
      BY <2>1, <3>1
    <3> QED
      BY <3>2 DEF zw, cw
  <2> QED
    BY <2>1, <2>2, <2>3 DEF A, z
<1> QED
  BY <1>2, <1>6, <1>8, <1>9 DEF t

(* The states of the inner loop of multiply.                               *)
LEMMA RowLoop ==
  ASSUME D!Base \in Nat, D!Base > 2, NEW product \in Seq(D!digit), NEW a \in Seq(D!digit),
         NEW d \in D!digit, NEW bi \in Nat, bi >= 1, bi + Len(a) <= Len(product)
  PROVE  LET N == Len(a)
             X == Carrying(Len(product))
         IN  \E h \in [0..N -> X] :
               /\ h[0] = [v |-> product, c |-> 0]
               /\ \A k \in 1..N : h[k] = CellStep(h[k - 1], a[k], d, k + bi - 1)
               /\ row(product, a, d, bi) = rowEnd(h[N], bi + Len(a))
<1> DEFINE N == Len(a)
           X == Carrying(Len(product))
           b0 == [v |-> product, c |-> 0]
           q == [i \in DOMAIN a |-> i]
           F == [p \in (1..N) \X X |-> CellStep(p[2], a[p[1]], d, p[1] + bi - 1)]
           Body(f) == [s \in SUBSET (DOMAIN q) |->
                         IF s = {} THEN b0 ELSE CellStep(f[s \ {Max(s)}], a[q[Max(s)]], d,
                           q[Max(s)] + bi - 1)]
           it == CHOOSE f : f = Body(f)
<1>1. N \in Nat /\ b0 \in X /\ Len(product) \in Nat
  <2>1. 0 \in D!digit /\ Len(product) \in Nat
    BY DigitNat, VectorSeq
  <2> QED
    BY <2>1, CarryingMake, VectorSeq
<1>2. DOMAIN q = 1..N /\ \A k \in 1..N : q[k] = k
  BY VectorSeq
<1>b. \A k \in 1..N : a[k] \in D!digit /\ k + bi - 1 \in 1..Len(product)
  BY <1>1, VectorSeq
<1>v. row(product, a, d, bi) = rowEnd(it[DOMAIN q], bi + Len(a))
  BY DEF row, FoldLeftDomain, FoldLeft, MapThenFoldSet, CellStep
<1> HIDE DEF N, b0, q
<1>3. \A e \in 1..N : \A x \in X : F[<<e, x>>] = CellStep(x, a[e], d, e + bi - 1)
  OBVIOUS
<1>4. \A e \in 1..N : \A x \in X : CellStep(x, a[e], d, e + bi - 1) \in X
  BY <1>1, <1>b, CellStepExact
<1> HIDE DEF F, X
<1>5. Keeps(F, N, X)
  BY <1>3, <1>4 DEF Keeps
<1>6. PICK g \in [SUBSET (1..N) -> X] : Upward(g, N, X, b0, F)
  BY <1>1, <1>5, FoldUp
<1>m. \A s \in SUBSET (1..N) : s # {} => Max(s) \in 1..N
  BY <1>1, MaxIn
<1>7. g = Body(g)
  <2>1. ASSUME NEW s \in SUBSET (1..N)
        PROVE  g[s] = IF s = {} THEN b0 ELSE CellStep(g[s \ {Max(s)}], a[q[Max(s)]], d,
               q[Max(s)] + bi - 1)
    <3>1. CASE s = {}
      BY <1>6, <3>1 DEF Upward
    <3>2. CASE s # {}
      <4>1. Max(s) \in 1..N /\ g[s \ {Max(s)}] \in X
        BY <1>m, <1>6, <3>2
      <4>2. g[s] = F[<<Max(s), g[s \ {Max(s)}]>>]
        BY <1>6, <3>2, <4>1, Zenon DEF Upward
      <4> QED
        BY <1>2, <1>3, <3>2, <4>1, <4>2
    <3> QED
      BY <3>1, <3>2
  <2> QED
    BY <1>2, <1>6, <2>1
<1>8. it = Body(it)
  <2> HIDE DEF Body
  <2> QED
    BY <1>7
<1> HIDE DEF it
<1>9. ASSUME NEW s \in SUBSET (1..N)
      PROVE  it[s] = IF s = {} THEN b0 ELSE CellStep(it[s \ {Max(s)}], a[q[Max(s)]], d,
             q[Max(s)] + bi - 1)
  BY <1>2, <1>8
<1>10. Upward(it, N, X, b0, F)
  <2>1. it[{}] = b0
    BY <1>9
  <2>2. ASSUME NEW s \in SUBSET (1..N), s # {}, it[s \ {Max(s)}] \in X
        PROVE  it[s] = F[<<Max(s), it[s \ {Max(s)}]>>]
    <3>1. Max(s) \in 1..N
      BY <1>m, <2>2
    <3>2. q[Max(s)] = Max(s)
      BY <1>2, <3>1
    <3>3. it[s] = CellStep(it[s \ {Max(s)}], a[Max(s)], d, Max(s) + bi - 1)
      BY <1>9, <2>2, <3>2, Zenon
    <3> QED
      BY <1>3, <2>2, <3>1, <3>3, Zenon
  <2> QED
    BY <2>1, <2>2 DEF Upward
<1>11. PICK h \in [0..N -> X] : LoopUp(h, N, b0, F) /\ h[N] = it[1..N]
  <2>1. EndsUp(it, N, X, b0, F)
    BY <1>1, <1>5, <1>10, StepsUp, Zenon
  <2> QED
    BY <2>1 DEF EndsUp
<1>12. ASSUME NEW k \in 1..N PROVE h[k] = CellStep(h[k - 1], a[k], d, k + bi - 1)
  <2>1. h[k - 1] \in X
    BY <1>1
  <2> QED
    BY <1>3, <1>11, <2>1 DEF LoopUp
<1>13. h[0] = b0 /\ row(product, a, d, bi) = rowEnd(h[N], bi + Len(a))
  BY <1>2, <1>v, <1>11 DEF LoopUp
<1> QED
  BY <1>12, <1>13 DEF N, X, b0

(* A row of multiply adds the digits of a times one digit of b, from that  *)
(* digit's place on.                                                       *)
LEMMA RowExact ==
  ASSUME D!Base \in Nat, D!Base > 2, NEW product \in Seq(D!digit), NEW a \in Seq(D!digit),
         NEW d \in D!digit, NEW bi \in Nat, bi >= 1, bi + Len(a) <= Len(product)
  PROVE  /\ row(product, a, d, bi) \in Seq(D!digit)
         /\ Len(row(product, a, d, bi)) >= Len(product)
         /\ Value(row(product, a, d, bi)) = Value(product) + (Value(a) * d) * Weight[bi - 1]
<1> DEFINE N == Len(a)
           n == Len(product)
           u == Weight[bi - 1]
           A == Value(product)
<1>1. PICK h \in [0..N -> Carrying(n)] :
         /\ h[0] = [v |-> product, c |-> 0]
         /\ \A k \in 1..N : h[k] = CellStep(h[k - 1], a[k], d, k + bi - 1)
         /\ row(product, a, d, bi) = rowEnd(h[N], bi + Len(a))
  BY RowLoop
<1>2. /\ N \in Nat /\ n \in Nat /\ a \in Seq(Nat) /\ product \in Seq(Nat) /\ d \in Nat
      /\ \A k \in 1..N : a[k] \in D!digit /\ a[k] \in Nat
  BY VectorSeq, DigitNat
<1>3. /\ Parts(a)[0] = 0 /\ Parts(a)[N] = Value(a) /\ A \in Nat
      /\ \A k \in 0..N : Parts(a)[k] \in Nat
      /\ \A k \in 1..N : Parts(a)[k] = Parts(a)[k - 1] + a[k] * Weight[k - 1]
  BY <1>2, PartsOf
<1>4. bi - 1 \in Nat /\ u \in Nat
  BY WeightNat
<1>n. bi + N <= n
  OBVIOUS
<1> DEFINE P == {k \in 0..N : Value(h[k].v) + h[k].c * Weight[k + bi - 1]
                               = A + (Parts(a)[k] * d) * u}
<1> HIDE DEF N, n
<1>5. 0 \in P
  <2>1. h[0].v = product /\ h[0].c = 0 /\ 0 + bi - 1 = bi - 1 /\ 0 \in 0..N
    BY <1>1, <1>2
  <2>2. A + 0 * u = A + (0 * d) * u
    BY <1>2, <1>3, <1>4
  <2> HIDE DEF u
  <2> QED
    BY <1>3, <2>1, <2>2 DEF u
<1> HIDE DEF A
<1>6. ASSUME NEW k \in 1..N, k - 1 \in P PROVE k \in P
  <2> DEFINE s == h[k - 1]
             t == h[k]
             x == a[k]
             w == Weight[(k + bi - 1) - 1]
             wk == Weight[k - 1]
             p0 == Parts(a)[k - 1]
  <2>1. k - 1 \in 0..N /\ k - 1 \in Nat /\ s \in Carrying(n) /\ x \in D!digit /\ x \in Nat /\ p0 \in Nat
    BY <1>2, <1>3
  <2>2. /\ k + bi - 1 \in 1..n /\ (k - 1) + bi - 1 = (k + bi - 1) - 1
        /\ (k + bi - 1) - 1 = (k - 1) + (bi - 1)
    BY <1>2, <1>4, <1>n
  <2>3. t = CellStep(s, x, d, k + bi - 1)
    BY <1>1
  <2>4. w = wk * u /\ wk \in Nat
    BY <1>4, <2>1, <2>2, WeightSum, WeightNat
  <2>5. Value(s.v) + s.c * w = A + (p0 * d) * u
    <3>1. Value(s.v) + s.c * Weight[(k - 1) + bi - 1] = A + (p0 * d) * u
      BY <1>6
    <3> QED
      BY <2>2, <3>1
  <2>6. Parts(a)[k] = p0 + x * wk
    BY <1>3
  <2> HIDE DEF s, t, x, w, wk, p0, u
  <2>7. Value(t.v) + t.c * Weight[k + bi - 1] = (Value(s.v) + s.c * w) + (x * d) * w
    <3> DEFINE j == k + bi - 1
    <3>1. t = CellStep(s, x, d, j) /\ j \in 1..n /\ n \in Nat /\ w = Weight[j - 1]
      BY <1>2, <2>2, <2>3 DEF w
    <3> HIDE DEF j
    <3>2. Value(t.v) + t.c * Weight[j] = (Value(s.v) + s.c * Weight[j - 1]) + (x * d) * Weight[j - 1]
      BY <2>1, <3>1, CellStepExact
    <3> QED
      BY <3>1, <3>2 DEF j
  <2>8. (A + (p0 * d) * u) + (x * d) * (wk * u) = A + ((p0 + x * wk) * d) * u
    <3> DEFINE e == (p0 * d) * u
               f == (x * d) * (wk * u)
    <3>1. ((p0 + x * wk) * d) * u = e + f /\ e \in Nat /\ f \in Nat
      BY <1>2, <1>4, <2>1, <2>4, SMT
    <3> HIDE DEF e, f
    <3>2. (A + e) + f = A + (e + f)
      BY <1>3, <3>1
    <3> QED
      BY <3>1, <3>2 DEF e, f
  <2>9. Value(t.v) + t.c * Weight[k + bi - 1] = A + (Parts(a)[k] * d) * u
    BY <2>4, <2>5, <2>6, <2>7, <2>8, Zenon
  <2> QED
    BY <2>9 DEF t
<1>7. N \in P
  <2> HIDE DEF P
  <2>1. \A k \in 0..N : k \in P
    BY <1>2, <1>5, <1>6, Induction
  <2> QED
    BY <1>2, <2>1
<1> DEFINE s == h[N]
<1>8. s \in Carrying(n) /\ row(product, a, d, bi) = rowEnd(s, bi + N)
  <2>1. N \in 0..N
    BY <1>2
  <2>2. row(product, a, d, bi) = rowEnd(s, bi + N)
    BY <1>1, Zenon DEF N
  <2> QED
    BY <1>1, <2>1, <2>2, Zenon
<1>9. Value(s.v) + s.c * Weight[(bi + N) - 1] = A + (Value(a) * d) * u
  <2>1. N + bi - 1 = (bi + N) - 1
    BY <1>2
  <2> QED
    BY <1>3, <1>7, <2>1
<1> HIDE DEF s, u
<1>10. s.v \in Seq(D!digit) /\ Len(s.v) = n /\ s.c \in D!digit /\ s.c \in Nat
  BY <1>2, <1>8, CarryingIs, DigitNat
<1>11. CASE s.c = 0
  <2>1. row(product, a, d, bi) = s.v
    BY <1>8, <1>11 DEF rowEnd
  <2>2. Value(s.v) \in Nat /\ Weight[(bi + N) - 1] \in Nat
    <3>1. (bi + N) - 1 \in Nat
      BY <1>2
    <3> QED
      BY <1>10, <3>1, VectorSeq, PartsOf, WeightNat
  <2>3. Value(s.v) = A + (Value(a) * d) * u
    BY <1>9, <1>11, <2>2
  <2> QED
    BY <1>2, <1>10, <2>1, <2>3 DEF A, u, n
<1>12. CASE s.c # 0
  <2>1. row(product, a, d, bi) = addDigit(s.v, s.c, bi + N)
    BY <1>8, <1>12 DEF rowEnd
  <2>2. bi + N \in 1..(Len(s.v) + 1)
    BY <1>2, <1>n, <1>10
  <2>3. /\ addDigit(s.v, s.c, bi + N) \in Seq(D!digit)
        /\ Len(addDigit(s.v, s.c, bi + N)) \in Len(s.v)..(Len(s.v) + 1)
        /\ Value(addDigit(s.v, s.c, bi + N)) = Value(s.v) + s.c * Weight[(bi + N) - 1]
    BY <1>10, <2>2, AddDigitExact
  <2> QED
    BY <1>2, <1>9, <1>10, <2>1, <2>3 DEF A, u, n
<1> QED
  BY <1>11, <1>12

(* Zeros are digits.                                                       *)
LEMMA ZerosDigits ==
  ASSUME D!Base \in Nat, D!Base > 2, NEW n \in Nat
  PROVE  /\ Zeros(n) \in Seq(D!digit) /\ Len(Zeros(n)) = n /\ \A k \in 1..n : Zeros(n)[k] = 0
<1> DEFINE S == D!digit
<1>1. 0 \in S
  BY DigitNat
<1> HIDE DEF S
<1>2. Zeros(n) \in Seq(S)
  BY <1>1 DEF Zeros
<1> QED
  BY <1>2, ZerosSeq DEF S

(* The vectors of the outer loop of multiply.                              *)
LEMMA MultiplyLoop ==
  ASSUME D!Base \in Nat, D!Base > 2, NEW a \in Seq(D!digit), NEW b \in Seq(D!digit),
         a # <<>>, b # <<>>
  PROVE  LET N == Len(b)
             X == {p \in Seq(D!digit) : Len(p) >= Len(a) + Len(b)}
         IN  \E h \in [0..N -> X] :
               /\ h[0] = Zeros(Len(a) + Len(b))
               /\ \A k \in 1..N : h[k] = row(h[k - 1], a, b[k], k)
               /\ multiply(a, b) = normalize(h[N])
<1> DEFINE N == Len(b)
           X == {p \in Seq(D!digit) : Len(p) >= Len(a) + Len(b)}
           b0 == Zeros(Len(a) + Len(b))
           q == [i \in DOMAIN b |-> i]
           F == [p \in (1..N) \X X |-> row(p[2], a, b[p[1]], p[1])]
           Body(f) == [s \in SUBSET (DOMAIN q) |->
                         IF s = {} THEN b0 ELSE row(f[s \ {Max(s)}], a, b[q[Max(s)]], q[Max(s)])]
           it == CHOOSE f : f = Body(f)
<1>1. N \in Nat /\ b0 \in X
  <2>1. Len(a) \in Nat /\ Len(b) \in Nat
    BY VectorSeq
  <2>2. b0 \in Seq(D!digit) /\ Len(b0) = Len(a) + Len(b)
    <3> DEFINE n == Len(a) + Len(b)
    <3>1. n \in Nat
      BY <2>1
    <3> HIDE DEF n
    <3>2. Zeros(n) \in Seq(D!digit) /\ Len(Zeros(n)) = n
      BY <3>1, ZerosDigits
    <3> QED
      BY <3>2 DEF n
  <2>3. N \in Nat
    BY <2>1
  <2> HIDE DEF b0, N
  <2> QED
    BY <2>1, <2>2, <2>3
<1>2. DOMAIN q = 1..N /\ \A k \in 1..N : q[k] = k
  BY VectorSeq
<1>b. \A k \in 1..N : b[k] \in D!digit /\ k \in Nat /\ k >= 1 /\ k <= Len(b)
  BY <1>1, VectorSeq
<1>v. multiply(a, b) = normalize(it[DOMAIN q])
  BY DEF multiply, FoldLeftDomain, FoldLeft, MapThenFoldSet
<1> HIDE DEF N, b0, q
<1>3. \A e \in 1..N : \A x \in X : F[<<e, x>>] = row(x, a, b[e], e)
  OBVIOUS
<1>4. \A e \in 1..N : \A x \in X : row(x, a, b[e], e) \in X
  <2>1. ASSUME NEW e \in 1..N, NEW x \in X PROVE row(x, a, b[e], e) \in X
    <3>1. /\ x \in Seq(D!digit) /\ Len(x) \in Nat /\ Len(x) >= Len(a) + Len(b)
          /\ Len(a) \in Nat /\ Len(b) \in Nat
      BY VectorSeq
    <3>2. e \in Nat /\ e >= 1 /\ e + Len(a) <= Len(x) /\ b[e] \in D!digit
      BY <1>b, <3>1
    <3>3. row(x, a, b[e], e) \in Seq(D!digit) /\ Len(row(x, a, b[e], e)) >= Len(x)
      BY <3>1, <3>2, RowExact
    <3>4. Len(row(x, a, b[e], e)) \in Nat
      BY <3>3, VectorSeq
    <3>5. Len(row(x, a, b[e], e)) >= Len(a) + Len(b)
      BY <3>1, <3>3, <3>4
    <3> QED
      BY <3>3, <3>5
  <2> QED
    BY <2>1
<1> HIDE DEF F, X
<1>5. Keeps(F, N, X)
  BY <1>3, <1>4 DEF Keeps
<1>6. PICK g \in [SUBSET (1..N) -> X] : Upward(g, N, X, b0, F)
  BY <1>1, <1>5, FoldUp
<1>m. \A s \in SUBSET (1..N) : s # {} => Max(s) \in 1..N
  BY <1>1, MaxIn
<1>7. g = Body(g)
  <2>1. ASSUME NEW s \in SUBSET (1..N)
        PROVE  g[s] = IF s = {} THEN b0 ELSE row(g[s \ {Max(s)}], a, b[q[Max(s)]], q[Max(s)])
    <3>1. CASE s = {}
      BY <1>6, <3>1 DEF Upward
    <3>2. CASE s # {}
      <4>1. Max(s) \in 1..N /\ g[s \ {Max(s)}] \in X
        BY <1>m, <1>6, <3>2
      <4>2. g[s] = F[<<Max(s), g[s \ {Max(s)}]>>]
        BY <1>6, <3>2, <4>1, Zenon DEF Upward
      <4> QED
        BY <1>2, <1>3, <3>2, <4>1, <4>2
    <3> QED
      BY <3>1, <3>2
  <2> QED
    BY <1>2, <1>6, <2>1
<1>8. it = Body(it)
  <2> HIDE DEF Body
  <2> QED
    BY <1>7
<1> HIDE DEF it
<1>9. ASSUME NEW s \in SUBSET (1..N)
      PROVE  it[s] = IF s = {} THEN b0 ELSE row(it[s \ {Max(s)}], a, b[q[Max(s)]], q[Max(s)])
  BY <1>2, <1>8
<1>10. Upward(it, N, X, b0, F)
  <2>1. it[{}] = b0
    BY <1>9
  <2>2. ASSUME NEW s \in SUBSET (1..N), s # {}, it[s \ {Max(s)}] \in X
        PROVE  it[s] = F[<<Max(s), it[s \ {Max(s)}]>>]
    <3>1. Max(s) \in 1..N
      BY <1>m, <2>2
    <3>2. q[Max(s)] = Max(s)
      BY <1>2, <3>1
    <3>3. it[s] = row(it[s \ {Max(s)}], a, b[Max(s)], Max(s))
      BY <1>9, <2>2, <3>2, Zenon
    <3> QED
      BY <1>3, <2>2, <3>1, <3>3, Zenon
  <2> QED
    BY <2>1, <2>2 DEF Upward
<1>11. PICK h \in [0..N -> X] : LoopUp(h, N, b0, F) /\ h[N] = it[1..N]
  <2>1. EndsUp(it, N, X, b0, F)
    BY <1>1, <1>5, <1>10, StepsUp, Zenon
  <2> QED
    BY <2>1 DEF EndsUp
<1>12. ASSUME NEW k \in 1..N PROVE h[k] = row(h[k - 1], a, b[k], k)
  <2>1. h[k - 1] \in X
    BY <1>1
  <2> QED
    BY <1>3, <1>11, <2>1 DEF LoopUp
<1>13. h[0] = b0 /\ multiply(a, b) = normalize(h[N])
  BY <1>2, <1>v, <1>11 DEF LoopUp
<1> QED
  BY <1>12, <1>13 DEF N, X, b0

(* BigNumberNaive::multiply is exact for every width and all lengths: the  *)
(* three overflows that the inner loop adds into one carry never pass the  *)
(* word, and the result is normalised.                                     *)
THEOREM NaiveMultiplyExact ==
  ASSUME D!Base \in Nat, D!Base > 2, NEW a \in Seq(D!digit), NEW b \in Seq(D!digit),
         a # <<>>, b # <<>>
  PROVE  /\ multiply(a, b) \in Seq(D!digit) /\ multiply(a, b) # <<>>
         /\ Value(multiply(a, b)) = Value(a) * Value(b)
         /\ normalize(multiply(a, b)) = multiply(a, b)
<1> DEFINE N == Len(b)
           n == Len(a) + Len(b)
           A == Value(a)
<1>1. PICK h \in [0..N -> {p \in Seq(D!digit) : Len(p) >= n}] :
         /\ h[0] = Zeros(n)
         /\ \A k \in 1..N : h[k] = row(h[k - 1], a, b[k], k)
         /\ multiply(a, b) = normalize(h[N])
  BY MultiplyLoop
<1>2. /\ N \in Nat /\ n \in Nat /\ n = Len(a) + N /\ Len(a) \in Nat
      /\ a \in Seq(Nat) /\ b \in Seq(Nat)
      /\ \A k \in 1..N : b[k] \in D!digit /\ b[k] \in Nat
  BY VectorSeq
<1>n. n >= 1
  <2>1. Len(a) >= 1
    BY <1>2
  <2> QED
    BY <1>2, <2>1
<1>3. /\ Parts(b)[0] = 0 /\ Parts(b)[N] = Value(b) /\ A \in Nat
      /\ \A k \in 0..N : Parts(b)[k] \in Nat
      /\ \A k \in 1..N : Parts(b)[k] = Parts(b)[k - 1] + b[k] * Weight[k - 1]
  BY <1>2, PartsOf
<1> HIDE DEF N, n
<1> DEFINE P == {k \in 0..N : Value(h[k]) = A * Parts(b)[k]}
<1>4. 0 \in P
  <2>1. Value(h[0]) = 0 /\ A * 0 = 0 /\ 0 \in 0..N
    BY <1>1, <1>2, <1>3, ValueZeros
  <2> QED
    BY <1>3, <2>1
<1>5. ASSUME NEW k \in 1..N, k - 1 \in P PROVE k \in P
  <2> DEFINE v == h[k - 1]
             d == b[k]
             w == Weight[k - 1]
             p0 == Parts(b)[k - 1]
  <2>1. v \in Seq(D!digit) /\ Len(v) >= n /\ h[k] = row(v, a, d, k) /\ Value(v) = A * p0
    BY <1>1, <1>2, <1>5
  <2>2. /\ k \in Nat /\ k >= 1 /\ d \in D!digit /\ d \in Nat /\ k - 1 \in 0..N /\ k - 1 \in Nat
        /\ p0 \in Nat /\ Len(v) \in Nat /\ k <= N
    <3>1. k \in Nat /\ k >= 1 /\ k - 1 \in 0..N /\ k - 1 \in Nat /\ k <= N
      BY <1>2
    <3>2. d \in D!digit /\ d \in Nat /\ p0 \in Nat
      BY <1>2, <1>3, <3>1
    <3>3. Len(v) \in Nat
      <4> HIDE DEF v
      <4> QED
        BY <2>1, VectorSeq
    <3> QED
      BY <3>1, <3>2, <3>3
  <2>3. w \in Nat
    BY <2>2, WeightNat
  <2>4. Parts(b)[k] = p0 + d * w
    BY <1>3
  <2>5. k + Len(a) <= Len(v)
    BY <1>2, <2>1, <2>2
  <2> HIDE DEF v, d, w, p0
  <2>6. Value(h[k]) = Value(v) + (A * d) * w
    <3>1. Value(row(v, a, d, k)) = Value(v) + (Value(a) * d) * Weight[k - 1]
      BY <2>1, <2>2, <2>5, RowExact
    <3> QED
      BY <2>1, <3>1 DEF w
  <2> HIDE DEF A
  <2>7. (A * p0) + (A * d) * w = A * (p0 + d * w)
    BY <1>3, <2>2, <2>3, SMT
  <2>8. Value(h[k]) = A * Parts(b)[k]
    BY <2>1, <2>4, <2>6, <2>7, Zenon
  <2> QED
    BY <2>8
<1>6. N \in P
  <2> HIDE DEF P
  <2>1. \A k \in 0..N : k \in P
    BY <1>2, <1>4, <1>5, Induction
  <2> QED
    BY <1>2, <2>1
<1> DEFINE v == h[N]
<1>7. v \in Seq(D!digit) /\ Len(v) >= n /\ Value(v) = Value(a) * Value(b)
  BY <1>1, <1>2, <1>3, <1>6
<1>8. v # <<>> /\ multiply(a, b) = normalize(v)
  <2>1. Len(v) >= 1
    BY <1>2, <1>n, <1>7, VectorSeq
  <2> QED
    BY <1>1, <2>1
<1> HIDE DEF v
<1> QED
  BY <1>7, <1>8, NormalizeKeeps

-----------------------------------------------------------------------------
(* compare.                                                                *)

(* A higher place is worth no less.                                        *)
LEMMA WeightGrows ==
  ASSUME D!Base \in Nat, D!Base > 2, NEW i \in Nat, NEW j \in Nat, i <= j
  PROVE  Weight[i] <= Weight[j]
<1> DEFINE u == Weight[i]
           w == Weight[j - i]
<1>1. j - i \in Nat /\ i + (j - i) = j
  OBVIOUS
<1>2. Weight[j] = u * w /\ u \in Nat /\ w \in Nat /\ w > 0
  BY <1>1, WeightSum, WeightNat
<1> HIDE DEF u, w
<1>3. u <= u * w
  BY <1>2, SMT
<1> QED
  BY <1>2, <1>3 DEF u

(* The first k digits are worth less than the weight of the next one.      *)
LEMMA PartsBound ==
  ASSUME D!Base \in Nat, D!Base > 2, NEW a \in Seq(D!digit), NEW m \in 0..Len(a)
  PROVE  Parts(a)[m] < Weight[m]
<1> DEFINE n == Len(a)
           P == {k \in 0..n : Parts(a)[k] < Weight[k]}
<1>1. n \in Nat /\ a \in Seq(Nat) /\ \A k \in 1..n : a[k] \in Nat /\ a[k] \in D!digit
  BY VectorSeq
<1>2. /\ Parts(a)[0] = 0 /\ \A k \in 0..n : Parts(a)[k] \in Nat
      /\ \A k \in 1..n : Parts(a)[k] = Parts(a)[k - 1] + a[k] * Weight[k - 1]
  BY <1>1, PartsOf
<1>3. 0 \in P
  <2>1. Weight[0] = 1
    BY WeightIs
  <2> QED
    BY <1>1, <1>2, <2>1
<1>4. ASSUME NEW k \in 1..n, k - 1 \in P PROVE k \in P
  <2> DEFINE p == Parts(a)[k - 1]
             w == Weight[k - 1]
             d == a[k]
             B == D!Base
  <2>1. k - 1 \in Nat /\ k \in Nat /\ k > 0 /\ k - 1 \in 0..n
    BY <1>1
  <2>2. w \in Nat /\ Weight[k] = B * w /\ p \in Nat /\ d \in Nat /\ B \in Nat
    BY <1>1, <1>2, <2>1, WeightNat, WeightStep
  <2>3. d < B
    BY <1>1, DigitNat
  <2>4. p < w /\ Parts(a)[k] = p + d * w
    BY <1>2, <1>4
  <2> HIDE DEF p, w, d, B
  <2>5. p + d * w < B * w
    <3>1. d + 1 <= B /\ d + 1 \in Nat
      BY <2>2, <2>3
    <3>2. (d + 1) * w <= B * w
      BY <2>2, <3>1, SMT
    <3>3. (d + 1) * w = d * w + w /\ d * w \in Nat /\ B * w \in Nat
      BY <2>2, SMT
    <3> DEFINE x == d * w
               y == B * w
    <3>4. x \in Nat /\ y \in Nat /\ x + w <= y
      BY <3>2, <3>3
    <3> HIDE DEF x, y
    <3>5. p + x < y
      BY <2>2, <2>4, <3>4
    <3> QED
      BY <3>5 DEF x, y
  <2>6. Parts(a)[k] < Weight[k]
    BY <2>2, <2>4, <2>5
  <2> QED
    BY <2>6
<1>5. \A k \in 0..n : k \in P
  <2> HIDE DEF P, n
  <2> QED
    BY <1>1, <1>3, <1>4, Induction
<1> QED
  BY <1>5

(* No digit is worth more than the vector.                                 *)
LEMMA PartsGrow ==
  ASSUME D!Base \in Nat, D!Base > 2, NEW a \in Seq(D!digit), NEW k \in 1..Len(a)
  PROVE  a[k] * Weight[k - 1] <= Value(a)
<1> DEFINE n == Len(a)
           w == a[k] * Weight[k - 1]
           P == {j \in 0..(n - k) : Parts(a)[k + j] >= w}
<1>1. n \in Nat /\ a \in Seq(Nat) /\ k \in 1..n /\ \A j \in 1..n : a[j] \in Nat /\ a[j] \in D!digit
  BY VectorSeq
<1>2. /\ Parts(a)[n] = Value(a) /\ \A j \in 0..n : Parts(a)[j] \in Nat
      /\ \A j \in 1..n : Parts(a)[j] = Parts(a)[j - 1] + a[j] * Weight[j - 1]
  BY <1>1, PartsOf
<1>3. ASSUME NEW j \in 1..n
      PROVE  a[j] * Weight[j - 1] \in Nat /\ Parts(a)[j - 1] \in Nat
  <2>1. j - 1 \in Nat /\ j - 1 \in 0..n
    BY <1>1
  <2>2. Weight[j - 1] \in Nat /\ a[j] \in Nat
    BY <1>1, <2>1, WeightNat
  <2> QED
    BY <1>2, <2>1, <2>2
<1>w. w \in Nat /\ Parts(a)[k] = Parts(a)[k - 1] + w
  BY <1>1, <1>2, <1>3
<1> HIDE DEF n, w
<1>4. 0 \in P
  <2>1. k + 0 = k /\ 0 \in 0..(n - k)
    BY <1>1
  <2>2. Parts(a)[k] >= w
    BY <1>1, <1>3, <1>w
  <2> QED
    BY <2>1, <2>2
<1>5. ASSUME NEW j \in 1..(n - k), j - 1 \in P PROVE j \in P
  <2> DEFINE x == a[k + j] * Weight[(k + j) - 1]
             p0 == Parts(a)[k + (j - 1)]
  <2>1. k + j \in 1..n /\ (k + j) - 1 = k + (j - 1)
    BY <1>1
  <2>2. x \in Nat /\ Parts(a)[k + j] = p0 + x /\ p0 \in Nat
    BY <1>2, <1>3, <2>1
  <2>3. p0 >= w
    BY <1>5
  <2> HIDE DEF x, p0
  <2>4. Parts(a)[k + j] >= w
    BY <1>w, <2>2, <2>3
  <2> QED
    BY <2>4
<1>6. n - k \in P
  <2>0. n - k \in Nat
    BY <1>1
  <2> HIDE DEF P
  <2>1. \A j \in 0..(n - k) : j \in P
    BY <1>4, <1>5, <2>0, Induction
  <2> QED
    BY <2>0, <2>1
<1>7. Value(a) >= w
  <2>1. k + (n - k) = n
    BY <1>1
  <2> QED
    BY <1>2, <1>6, <2>1
<1> QED
  BY <1>1, <1>2, <1>7, <1>w DEF w, n

(* Above the place where two vectors last differ they gain the same.       *)
LEMMA PartsAbove ==
  ASSUME D!Base \in Nat, D!Base > 2, NEW a \in Seq(D!digit), NEW b \in Seq(D!digit),
         Len(a) = Len(b), NEW m \in 0..Len(a), \A k \in (m + 1)..Len(a) : a[k] = b[k]
  PROVE  Value(a) + Parts(b)[m] = Value(b) + Parts(a)[m]
<1> DEFINE n == Len(a)
           p == Parts(a)
           q == Parts(b)
           P == {j \in 0..(n - m) : p[m + j] + q[m] = q[m + j] + p[m]}
<1>1. n \in Nat /\ n - m \in Nat /\ m \in Nat /\ m <= n /\ a \in Seq(Nat) /\ b \in Seq(Nat)
  BY VectorSeq
<1>2. /\ p[n] = Value(a) /\ q[n] = Value(b) /\ \A j \in 0..n : p[j] \in Nat /\ q[j] \in Nat
      /\ \A j \in 1..n : p[j] = p[j - 1] + a[j] * Weight[j - 1]
            /\ q[j] = q[j - 1] + b[j] * Weight[j - 1]
  BY <1>1, PartsOf
<1>3. p[m] \in Nat /\ q[m] \in Nat
  BY <1>1, <1>2
<1>e. \A k \in (m + 1)..n : a[k] = b[k] /\ a[k] \in Nat
  BY <1>1
<1> HIDE DEF n, p, q
<1>4. 0 \in P
  <2>1. m + 0 = m /\ 0 \in 0..(n - m)
    BY <1>1
  <2> QED
    BY <1>3, <2>1
<1>5. ASSUME NEW j \in 1..(n - m), j - 1 \in P PROVE j \in P
  <2> DEFINE x == a[m + j] * Weight[(m + j) - 1]
             p0 == p[m + (j - 1)]
             q0 == q[m + (j - 1)]
  <2>1. /\ m + j \in 1..n /\ m + j \in (m + 1)..n /\ (m + j) - 1 = m + (j - 1) /\ (m + j) - 1 \in Nat
        /\ m + (j - 1) \in 0..n
    BY <1>1
  <2>2. x \in Nat /\ p0 \in Nat /\ q0 \in Nat
    BY <1>e, <1>2, <2>1, WeightNat
  <2>3. p[m + j] = p0 + x /\ q[m + j] = q0 + x
    <3>1. a[m + j] = b[m + j]
      BY <1>e, <2>1
    <3> QED
      BY <1>2, <2>1, <3>1
  <2>4. p0 + q[m] = q0 + p[m]
    BY <1>5
  <2> HIDE DEF x, p0, q0
  <2>5. (p0 + x) + q[m] = (q0 + x) + p[m]
    <3> DEFINE pm == p[m]
               qm == q[m]
    <3>1. pm \in Nat /\ qm \in Nat /\ p0 + qm = q0 + pm
      BY <1>3, <2>4
    <3> HIDE DEF pm, qm
    <3>2. (p0 + x) + qm = (q0 + x) + pm
      BY <2>2, <3>1
    <3> QED
      BY <3>2 DEF pm, qm
  <2>6. p[m + j] + q[m] = q[m + j] + p[m]
    BY <2>3, <2>5
  <2> QED
    BY <2>6
<1>6. n - m \in P
  <2> HIDE DEF P
  <2>1. \A j \in 0..(n - m) : j \in P
    BY <1>1, <1>4, <1>5, Induction
  <2> QED
    BY <1>1, <2>1
<1>7. p[n] + q[m] = q[n] + p[m]
  <2>1. m + (n - m) = n
    BY <1>1
  <2> QED
    BY <1>6, <2>1
<1> QED
  BY <1>2, <1>7 DEF p, q

Lower(a, b) ==
  \/ Len(a) < Len(b)
  \/ Len(a) = Len(b) /\ \E m \in 1..Len(a) : a[m] < b[m] /\ \A k \in (m + 1)..Len(a) : a[k] = b[k]

(* A normal vector of more than one digit has a top digit.                 *)
LEMMA NormalTop ==
  ASSUME D!Base \in Nat, D!Base > 2, NEW a \in Seq(D!digit), a # <<>>, normalize(a) = a
  PROVE  Len(a) \in Nat /\ Len(a) >= 1 /\ (Len(a) = 1 \/ a[Len(a)] # 0)
<1>1. /\ TopOf(a) \in 1..Len(a) /\ Len(normalize(a)) = TopOf(a)
      /\ TopOf(a) = 1 \/ a[TopOf(a)] # 0
  BY NormalizeIs
<1>2. Len(a) \in Nat /\ Len(a) >= 1
  OBVIOUS
<1>3. TopOf(a) = Len(a)
  BY <1>1
<1> QED
  BY <1>1, <1>2, <1>3

(* A vector that compare finds lower stands for a smaller number.          *)
LEMMA LowerLess ==
  ASSUME D!Base \in Nat, D!Base > 2, NEW a \in Seq(D!digit), a # <<>>,
         NEW b \in Seq(D!digit), b # <<>>, normalize(b) = b, Lower(a, b)
  PROVE  Value(a) < Value(b)
<1>0. /\ Len(a) \in Nat /\ Len(a) >= 1 /\ Value(a) = Parts(a)[Len(a)] /\ Value(a) \in Nat
      /\ Len(b) \in Nat /\ Len(b) >= 1 /\ Value(b) = Parts(b)[Len(b)] /\ Value(b) \in Nat
      /\ a \in Seq(Nat) /\ b \in Seq(Nat)
  <2>1. a \in Seq(Nat) /\ b \in Seq(Nat)
    BY VectorSeq
  <2>2. Len(a) \in Nat /\ Len(a) >= 1 /\ Len(b) \in Nat /\ Len(b) >= 1
    OBVIOUS
  <2> QED
    BY <2>1, <2>2, PartsOf
<1>1. CASE Len(a) < Len(b)
  <2> DEFINE n == Len(b)
             w == Weight[n - 1]
  <2>1. b[n] # 0 /\ n \in 1..n /\ n - 1 \in Nat /\ Len(a) <= n - 1
    BY <1>0, <1>1, NormalTop
  <2>2. b[n] \in Nat
    BY <1>0, <2>1
  <2>3. Value(a) < Weight[Len(a)]
    BY <1>0, PartsBound
  <2>4. Weight[Len(a)] <= w /\ Weight[Len(a)] \in Nat /\ w \in Nat
    BY <1>0, <2>1, WeightGrows, WeightNat
  <2>5. b[n] * w <= Value(b)
    BY <1>0, <2>1, PartsGrow
  <2> DEFINE d == b[n]
  <2>6. d \in Nat /\ d # 0 /\ d * w <= Value(b)
    BY <2>1, <2>2, <2>5
  <2> HIDE DEF d, w
  <2>7. w <= d * w /\ d * w \in Nat
    BY <2>4, <2>6, SMT
  <2> DEFINE dw == d * w
  <2>8. w <= dw /\ dw \in Nat /\ dw <= Value(b)
    BY <2>6, <2>7
  <2> HIDE DEF dw
  <2> QED
    BY <1>0, <2>3, <2>4, <2>8
<1>2. ASSUME Len(a) = Len(b), NEW m \in 1..Len(a), a[m] < b[m],
             \A k \in (m + 1)..Len(a) : a[k] = b[k]
      PROVE  Value(a) < Value(b)
  <2> DEFINE p0 == Parts(a)[m - 1]
             q0 == Parts(b)[m - 1]
             p1 == Parts(a)[m]
             q1 == Parts(b)[m]
             w == Weight[m - 1]
             x == a[m]
             y == b[m]
  <2>1. m - 1 \in 0..Len(a) /\ m \in 0..Len(a) /\ m - 1 \in Nat /\ m \in 1..Len(b)
        /\ m - 1 \in 0..Len(b)
        /\ m \in 0..Len(b)
    BY <1>0, <1>2
  <2>2. p1 = p0 + x * w /\ q1 = q0 + y * w /\ p0 \in Nat /\ q0 \in Nat /\ p1 \in Nat /\ q1 \in Nat
    BY <1>0, <2>1, PartsOf
  <2>3. p0 < w /\ w \in Nat
    BY <2>1, PartsBound, WeightNat
  <2>4. x \in Nat /\ y \in Nat /\ x < y
    BY <1>0, <1>2, <2>1
  <2>5. Value(a) + q1 = Value(b) + p1
    BY <1>2, <2>1, PartsAbove
  <2> HIDE DEF p0, q0, p1, q1, w, x, y
  <2>6. p0 + x * w < q0 + y * w
    <3>1. x * w \in Nat /\ y * w \in Nat /\ (x + 1) * w = x * w + w
      BY <2>3, <2>4, SMT
    <3>2. (x + 1) * w <= y * w
      BY <2>3, <2>4, SMT
    <3> DEFINE xw == x * w
               yw == y * w
    <3>3. xw \in Nat /\ yw \in Nat /\ xw + w <= yw
      BY <3>1, <3>2
    <3> HIDE DEF xw, yw
    <3>4. p0 + xw < q0 + yw
      BY <2>2, <2>3, <3>3
    <3> QED
      BY <3>4 DEF xw, yw
  <2>7. p1 < q1
    BY <2>2, <2>6
  <2> QED
    BY <1>0, <2>2, <2>5, <2>7
<1> QED
  BY <1>1, <1>2 DEF Lower

(* compare of two vectors, by their last difference.                       *)
LEMMA CompareCases ==
  ASSUME D!Base \in Nat, D!Base > 2, NEW a \in Seq(D!digit), NEW b \in Seq(D!digit)
  PROVE  \/ compare(a, b) = -1 /\ Lower(a, b)
         \/ compare(a, b) = 1 /\ Lower(b, a)
         \/ compare(a, b) = 0 /\ a = b
<1> DEFINE differ == {i \in DOMAIN a : a[i] # b[i]}
<1>0. /\ Len(a) \in Nat /\ DOMAIN a = 1..Len(a) /\ Len(b) \in Nat /\ DOMAIN b = 1..Len(b)
      /\ \A k \in 1..Len(a) : a[k] \in Nat
      /\ \A k \in 1..Len(b) : b[k] \in Nat
  BY VectorSeq
<1>1. CASE Len(a) # Len(b)
  <2>1. compare(a, b) = IF Len(a) < Len(b) THEN -1 ELSE 1
    BY <1>1 DEF compare
  <2>2. CASE Len(a) < Len(b)
    BY <2>1, <2>2 DEF Lower
  <2>3. CASE Len(b) < Len(a)
    <3>1. compare(a, b) = 1
      BY <1>0, <2>1, <2>3
    <3> QED
      BY <2>3, <3>1 DEF Lower
  <2>4. Len(a) < Len(b) \/ Len(b) < Len(a)
    <3>1. Len(a) \in Nat /\ Len(b) \in Nat
      BY <1>0
    <3> QED
      BY ONLY <1>1, <3>1
  <2> QED
    BY <2>2, <2>3, <2>4
<1>2. CASE Len(a) = Len(b) /\ differ = {}
  <2>1. compare(a, b) = 0
    BY <1>2, Zenon DEF compare
  <2>2. \A k \in 1..Len(a) : a[k] = b[k]
    <3>1. \A k \in 1..Len(a) : k \notin differ
      BY <1>2, Zenon
    <3> QED
      BY <1>0, <3>1
  <2>3. a = b
    BY <1>0, <1>2, <2>2
  <2> QED
    BY <2>1, <2>3
<1>3. CASE Len(a) = Len(b) /\ differ # {}
  <2> DEFINE m == Max(differ)
  <2>1. differ \in SUBSET (1..Len(a))
    BY <1>0
  <2>2. m \in differ /\ \A y \in differ : m >= y
    <3> HIDE DEF differ
    <3> QED
      BY <1>0, <1>3, <2>1, MaxIn
  <2>3. compare(a, b) = IF a[m] < b[m] THEN -1 ELSE 1
    BY <1>3 DEF compare
  <2> HIDE DEF m
  <2>4. m \in 1..Len(a) /\ m \in 1..Len(b) /\ a[m] # b[m]
    BY <1>0, <1>3, <2>2
  <2>5. a[m] \in Nat /\ b[m] \in Nat
    BY <1>0, <2>4
  <2>6. \A k \in (m + 1)..Len(a) : a[k] = b[k]
    <3> SUFFICES ASSUME NEW k \in (m + 1)..Len(a), a[k] # b[k] PROVE FALSE
      OBVIOUS
    <3>1. k \in 1..Len(a) /\ k > m
      BY <1>0, <2>4
    <3>2. k \in differ
      BY <1>0, <3>1
    <3> HIDE DEF differ
    <3>3. m >= k
      BY <2>2, <3>2
    <3> QED
      BY <1>0, <2>4, <3>1, <3>3
  <2>7. \A k \in (m + 1)..Len(b) : b[k] = a[k]
    BY <1>3, <2>6
  <2>8. CASE a[m] < b[m]
    <3>1. compare(a, b) = -1
      BY <2>3, <2>8
    <3>2. Lower(a, b)
      BY <1>3, <2>4, <2>6, <2>8 DEF Lower
    <3> QED
      BY <3>1, <3>2
  <2>9. CASE ~(a[m] < b[m])
    <3>1. compare(a, b) = 1 /\ b[m] < a[m]
      BY <2>3, <2>4, <2>5, <2>9
    <3>2. Lower(b, a)
      BY <1>3, <2>4, <2>7, <3>1 DEF Lower
    <3> QED
      BY <3>1, <3>2
  <2> QED
    BY <2>8, <2>9
<1> QED
  BY <1>1, <1>2, <1>3

(* BigNumberNaive::compare of normalised vectors is the order of the       *)
(* numbers: first the lengths, then the highest digit that differs.        *)
THEOREM NaiveCompareExact ==
  ASSUME D!Base \in Nat, D!Base > 2, NEW a \in Seq(D!digit), a # <<>>, normalize(a) = a,
         NEW b \in Seq(D!digit), b # <<>>, normalize(b) = b
  PROVE  /\ compare(a, b) \in {-1, 0, 1}
         /\ compare(a, b) < 0 <=> Value(a) < Value(b)
         /\ compare(a, b) = 0 <=> Value(a) = Value(b)
<1>0. Value(a) \in Nat /\ Value(b) \in Nat
  BY VectorSeq, PartsOf
<1>1. CASE compare(a, b) = -1 /\ Lower(a, b)
  <2>1. Value(a) < Value(b)
    BY <1>1, LowerLess
  <2> QED
    BY <1>0, <1>1, <2>1
<1>2. CASE compare(a, b) = 1 /\ Lower(b, a)
  <2>1. Value(b) < Value(a)
    BY <1>2, LowerLess
  <2> QED
    BY <1>0, <1>2, <2>1
<1>3. CASE compare(a, b) = 0 /\ a = b
  BY <1>0, <1>3
<1> QED
  BY <1>1, <1>2, <1>3, CompareCases

-----------------------------------------------------------------------------
(* subtract.                                                               *)

SubStep(s, k) == IF s.c = 0 THEN s ELSE put(s, k, D!sub(s.v[k], s.c))

(* One step of subtractDigit; the digit is large enough for the exact one. *)
LEMMA SubStepIs ==
  ASSUME D!Base \in Nat, D!Base > 2, NEW n \in Nat, NEW s \in Carrying(n), NEW k \in 1..n
  PROVE  /\ SubStep(s, k) \in Carrying(n)
         /\ s.c <= s.v[k] => SubStep(s, k) = [v |-> [s.v EXCEPT ![k] = s.v[k] - s.c], c |-> 0]
<1> DEFINE x == s.v[k]
           y == s.c
           r == D!sub(x, y)
<1>1. s.v \in Seq(D!digit) /\ Len(s.v) = n /\ x \in D!digit /\ y \in D!digit /\ x \in Nat /\ y \in Nat
      /\ s = [v |-> s.v, c |-> s.c]
  <2>1. s.v \in Seq(D!digit) /\ Len(s.v) = n /\ y \in D!digit
    BY CarryingIs
  <2>2. x \in D!digit
    BY <2>1
  <2>3. s = [v |-> s.v, c |-> s.c]
    BY DEF Carrying
  <2> QED
    BY <2>1, <2>2, <2>3, DigitNat
<1>2. CASE y = 0
  <2>1. SubStep(s, k) = s
    BY <1>2 DEF SubStep
  <2>2. [s.v EXCEPT ![k] = x - y] = s.v
    BY <1>1, <1>2
  <2> QED
    BY <1>1, <1>2, <2>1, <2>2
<1>3. CASE y # 0
  <2>1. SubStep(s, k) = put(s, k, r)
    BY <1>3 DEF SubStep
  <2>2. r.v \in D!digit /\ r.ov \in D!digit
    <3> HIDE DEF x, y
    <3> QED
      BY <1>1, SubBorrow
  <2>3. put(s, k, r) \in Carrying(n)
    <3> HIDE DEF r
    <3> QED
      BY <2>2, PutExact
  <2>4. ASSUME y <= x PROVE r = [v |-> x - y, ov |-> 0]
    <3> DEFINE B == D!Base
    <3>1. x < B
      BY <1>1, DigitNat
    <3> HIDE DEF B, x, y
    <3>2. x - y \in 0..(B - 1) /\ x - y \in Int /\ x - y = B * 0 + (x - y) /\ B \in Nat /\ B > 0
      BY <1>1, <2>4, <3>1 DEF B
    <3>3. (x - y) % B = x - y
      BY <3>2, DivModUnique
    <3>4. ~(y > x)
      BY <1>1, <2>4
    <3> QED
      BY <3>3, <3>4 DEF D!sub, B
  <2>5. ASSUME y <= x PROVE put(s, k, r) = [v |-> [s.v EXCEPT ![k] = x - y], c |-> 0]
    BY <2>4, <2>5 DEF put
  <2> QED
    BY <2>1, <2>3, <2>5
<1> QED
  BY <1>2, <1>3

(* The states of subtractDigit.                                            *)
LEMMA SubtractDigitLoop ==
  ASSUME D!Base \in Nat, D!Base > 2, NEW a \in Seq(D!digit), NEW i \in 1..Len(a), NEW d \in D!digit
  PROVE  LET N == Len(a) - i + 1
             X == Carrying(Len(a))
         IN  \E h \in [0..N -> X] :
               /\ h[0] = [v |-> a, c |-> d]
               /\ \A k \in 1..N : h[k] = SubStep(h[k - 1], i + k - 1)
               /\ subtractDigit(a, d, i) = borrowed(h[N])
<1> DEFINE N == Len(a) - i + 1
           X == Carrying(Len(a))
           b0 == [v |-> a, c |-> d]
           q == Positions(i, Len(a))
           F == [p \in (1..N) \X X |-> SubStep(p[2], i + p[1] - 1)]
           Body(f) == [s \in SUBSET (DOMAIN q) |->
                         IF s = {} THEN b0 ELSE SubStep(f[s \ {Max(s)}], q[Max(s)])]
           it == CHOOSE f : f = Body(f)
<1>1. N \in Nat /\ b0 \in X /\ Len(a) \in Nat
  BY CarryingMake, VectorSeq
<1>2. DOMAIN q = 1..N /\ \A k \in 1..N : q[k] = i + k - 1 /\ i + k - 1 \in 1..Len(a)
  BY <1>1, PositionsIs
<1>v. subtractDigit(a, d, i) = borrowed(it[DOMAIN q])
  BY DEF subtractDigit, FoldLeft, MapThenFoldSet, SubStep
<1> HIDE DEF N, b0, q
<1>3. \A e \in 1..N : \A x \in X : F[<<e, x>>] = SubStep(x, i + e - 1)
  OBVIOUS
<1>4. \A e \in 1..N : \A x \in X : SubStep(x, i + e - 1) \in X
  BY <1>1, <1>2, SubStepIs
<1> HIDE DEF F, X
<1>5. Keeps(F, N, X)
  BY <1>3, <1>4 DEF Keeps
<1>6. PICK g \in [SUBSET (1..N) -> X] : Upward(g, N, X, b0, F)
  BY <1>1, <1>5, FoldUp
<1>m. \A s \in SUBSET (1..N) : s # {} => Max(s) \in 1..N
  BY <1>1, MaxIn
<1>7. g = Body(g)
  <2>1. ASSUME NEW s \in SUBSET (1..N)
        PROVE  g[s] = IF s = {} THEN b0 ELSE SubStep(g[s \ {Max(s)}], q[Max(s)])
    <3>1. CASE s = {}
      BY <1>6, <3>1 DEF Upward
    <3>2. CASE s # {}
      <4>1. Max(s) \in 1..N /\ g[s \ {Max(s)}] \in X
        BY <1>m, <1>6, <3>2
      <4>2. g[s] = F[<<Max(s), g[s \ {Max(s)}]>>]
        BY <1>6, <3>2, <4>1, Zenon DEF Upward
      <4> QED
        BY <1>2, <1>3, <3>2, <4>1, <4>2
    <3> QED
      BY <3>1, <3>2
  <2> QED
    BY <1>2, <1>6, <2>1
<1>8. it = Body(it)
  <2> HIDE DEF Body
  <2> QED
    BY <1>7
<1> HIDE DEF it
<1>9. ASSUME NEW s \in SUBSET (1..N)
      PROVE  it[s] = IF s = {} THEN b0 ELSE SubStep(it[s \ {Max(s)}], q[Max(s)])
  BY <1>2, <1>8
<1>10. Upward(it, N, X, b0, F)
  <2>1. it[{}] = b0
    BY <1>9
  <2>2. ASSUME NEW s \in SUBSET (1..N), s # {}, it[s \ {Max(s)}] \in X
        PROVE  it[s] = F[<<Max(s), it[s \ {Max(s)}]>>]
    <3>1. Max(s) \in 1..N
      BY <1>m, <2>2
    <3>2. q[Max(s)] = i + Max(s) - 1
      BY <1>2, <3>1
    <3>3. it[s] = SubStep(it[s \ {Max(s)}], i + Max(s) - 1)
      BY <1>9, <2>2, <3>2, Zenon
    <3> QED
      BY <1>3, <2>2, <3>1, <3>3, Zenon
  <2> QED
    BY <2>1, <2>2 DEF Upward
<1>11. PICK h \in [0..N -> X] : LoopUp(h, N, b0, F) /\ h[N] = it[1..N]
  <2>1. EndsUp(it, N, X, b0, F)
    BY <1>1, <1>5, <1>10, StepsUp, Zenon
  <2> QED
    BY <2>1 DEF EndsUp
<1>12. ASSUME NEW k \in 1..N PROVE h[k] = SubStep(h[k - 1], i + k - 1)
  <2>1. h[k - 1] \in X
    BY <1>1
  <2> QED
    BY <1>3, <1>11, <2>1 DEF LoopUp
<1>13. h[0] = b0 /\ subtractDigit(a, d, i) = borrowed(h[N])
  BY <1>2, <1>v, <1>11 DEF LoopUp
<1> QED
  BY <1>12, <1>13 DEF N, X, b0

(* A digit is taken from a place, exactly when the place has as much.      *)
LEMMA SubtractDigitIs ==
  ASSUME D!Base \in Nat, D!Base > 2, NEW a \in Seq(D!digit), NEW d \in D!digit, NEW i \in Nat, i >= 1
  PROVE  LET r == subtractDigit(a, d, i)
         IN  /\ r = [ok |-> r.ok, v |-> r.v] /\ r.ok \in BOOLEAN
             /\ r.v \in Seq(D!digit) /\ Len(r.v) = Len(a)
             /\ i <= Len(a) /\ d <= a[i] => r = [ok |-> TRUE, v |-> [a EXCEPT ![i] = a[i] - d]]
<1> DEFINE n == Len(a)
           r == subtractDigit(a, d, i)
<1>0. n \in Nat
  BY VectorSeq
<1>1. CASE i > n
  <2>1. r = [ok |-> FALSE, v |-> a]
    BY <1>1 DEF subtractDigit, D!Throws
  <2> QED
    BY <1>0, <1>1, <2>1
<1>2. CASE ~(i > n)
  <2> DEFINE N == n - i + 1
  <2>1. i \in 1..n /\ N \in Nat /\ N >= 1
    BY <1>0, <1>2
  <2>2. PICK h \in [0..N -> Carrying(n)] :
            /\ h[0] = [v |-> a, c |-> d]
            /\ \A k \in 1..N : h[k] = SubStep(h[k - 1], i + k - 1)
            /\ r = borrowed(h[N])
    BY <2>1, SubtractDigitLoop
  <2> HIDE DEF n, N, r
  <2>3. h[N] \in Carrying(n)
    BY <2>1, <2>2
  <2>4. h[N].v \in Seq(D!digit) /\ Len(h[N].v) = n
    BY <1>0, <2>3, CarryingIs
  <2>5. r = [ok |-> r.ok, v |-> r.v] /\ r.ok \in BOOLEAN /\ r.v = h[N].v
    BY <2>2 DEF borrowed
  <2>6. ASSUME d <= a[i] PROVE r = [ok |-> TRUE, v |-> [a EXCEPT ![i] = a[i] - d]]
    <3> DEFINE g == [v |-> [a EXCEPT ![i] = a[i] - d], c |-> 0]
               P == {j \in 0..(N - 1) : h[j + 1] = g}
    <3>1. h[0] \in Carrying(n) /\ h[0].c = d /\ h[0].v = a
      BY <2>1, <2>2
    <3>2. h[1] = SubStep(h[0], i)
      <4>1. 1 \in 1..N /\ 1 - 1 = 0 /\ i + 1 - 1 = i
        BY <2>1
      <4> QED
        BY <2>2, <4>1
    <3>3. SubStep(h[0], i) = g
      <4> DEFINE s == h[0]
      <4>1. s.c <= s.v[i]
        BY <2>6, <3>1
      <4> HIDE DEF s
      <4>2. SubStep(s, i) = [v |-> [s.v EXCEPT ![i] = s.v[i] - s.c], c |-> 0]
        BY <1>0, <2>1, <3>1, <4>1, SubStepIs DEF s
      <4> QED
        BY <3>1, <4>2 DEF s
    <3>4. 0 \in P
      <4>1. 0 \in 0..(N - 1) /\ 0 + 1 = 1
        BY <2>1
      <4> QED
        BY <3>2, <3>3, <4>1
    <3>5. ASSUME NEW j \in 1..(N - 1), j - 1 \in P PROVE j \in P
      <4>1. j + 1 \in 1..N /\ (j + 1) - 1 = j /\ (j - 1) + 1 = j /\ j \in 0..(N - 1)
        BY <2>1
      <4>2. h[j + 1] = SubStep(h[j], i + (j + 1) - 1)
        BY <2>2, <4>1
      <4>3. h[j] = g
        BY <3>5, <4>1
      <4>4. SubStep(g, i + (j + 1) - 1) = g
        BY DEF SubStep
      <4> HIDE DEF g
      <4> QED
        BY <4>1, <4>2, <4>3, <4>4
    <3>6. N - 1 \in P
      <4>0. N - 1 \in Nat
        BY <2>1
      <4> HIDE DEF P
      <4>1. \A j \in 0..(N - 1) : j \in P
        BY <3>4, <3>5, <4>0, Induction
      <4> QED
        BY <4>0, <4>1
    <3>7. h[N] = g
      <4>1. (N - 1) + 1 = N
        BY <2>1
      <4> HIDE DEF g
      <4> QED
        BY <3>6, <4>1
    <3>8. r = [ok |-> h[N].c = 0, v |-> h[N].v]
      BY <2>2 DEF borrowed
    <3>9. h[N].c = 0 /\ h[N].v = [a EXCEPT ![i] = a[i] - d]
      BY <3>7
    <3>10. (h[N].c = 0) = TRUE
      BY <3>9
    <3> QED
      BY <3>8, <3>9, <3>10, Zenon
  <2> QED
    BY <2>4, <2>5, <2>6 DEF n, r
<1> QED
  BY <1>1, <1>2

(* A vector of n digits and whether it was reached without a throw.        *)
Flowing(n) == [ok : BOOLEAN, v : {s \in Seq(D!digit) : Len(s) = n}]
TakeStep(s, d, i) == IF s.ok THEN subtractDigit(s.v, d, i) ELSE s

(* A digit taken from a vector of n digits leaves one, or throws.          *)
LEMMA TakeStepIs ==
  ASSUME D!Base \in Nat, D!Base > 2, NEW n \in Nat, NEW s \in Flowing(n), NEW d \in D!digit,
         NEW i \in Nat, i >= 1
  PROVE  TakeStep(s, d, i) \in Flowing(n)
<1>1. s.v \in Seq(D!digit) /\ Len(s.v) = n
  BY DEF Flowing
<1> DEFINE r == subtractDigit(s.v, d, i)
<1>2. r = [ok |-> r.ok, v |-> r.v] /\ r.ok \in BOOLEAN /\ r.v \in Seq(D!digit) /\ Len(r.v) = n
  BY <1>1, SubtractDigitIs
<1> HIDE DEF r
<1>3. r \in Flowing(n)
  BY <1>2 DEF Flowing
<1> QED
  BY <1>3 DEF TakeStep, r

(* The vectors that subtract works through.                                *)
LEMMA SubtractLoop ==
  ASSUME D!Base \in Nat, D!Base > 2, NEW a \in Seq(D!digit), NEW b \in Seq(D!digit)
  PROVE  LET N == Len(b)
             X == Flowing(Len(a))
         IN  \E h \in [0..N -> X] :
               /\ h[0] = [ok |-> TRUE, v |-> a]
               /\ \A k \in 1..N : h[k] = TakeStep(h[k - 1], b[k], k)
               /\ subtract(a, b) = shortened(h[N])
<1> DEFINE N == Len(b)
           X == Flowing(Len(a))
           b0 == [ok |-> TRUE, v |-> a]
           q == [i \in DOMAIN b |-> i]
           F == [p \in (1..N) \X X |-> TakeStep(p[2], b[p[1]], p[1])]
           Body(f) == [s \in SUBSET (DOMAIN q) |->
                         IF s = {} THEN b0 ELSE TakeStep(f[s \ {Max(s)}], b[q[Max(s)]], q[Max(s)])]
           it == CHOOSE f : f = Body(f)
<1>1. N \in Nat /\ b0 \in X /\ Len(a) \in Nat
  BY VectorSeq DEF Flowing
<1>2. DOMAIN q = 1..N /\ \A k \in 1..N : q[k] = k
  BY VectorSeq
<1>b. \A k \in 1..N : b[k] \in D!digit /\ k \in Nat /\ k >= 1
  BY <1>1, VectorSeq
<1>v. subtract(a, b) = shortened(it[DOMAIN q])
  BY DEF subtract, FoldLeftDomain, FoldLeft, MapThenFoldSet, TakeStep, D!Returns
<1> HIDE DEF N, b0, q
<1>3. \A e \in 1..N : \A x \in X : F[<<e, x>>] = TakeStep(x, b[e], e)
  OBVIOUS
<1>4. \A e \in 1..N : \A x \in X : TakeStep(x, b[e], e) \in X
  BY <1>1, <1>b, TakeStepIs
<1> HIDE DEF F, X
<1>5. Keeps(F, N, X)
  BY <1>3, <1>4 DEF Keeps
<1>6. PICK g \in [SUBSET (1..N) -> X] : Upward(g, N, X, b0, F)
  BY <1>1, <1>5, FoldUp
<1>m. \A s \in SUBSET (1..N) : s # {} => Max(s) \in 1..N
  BY <1>1, MaxIn
<1>7. g = Body(g)
  <2>1. ASSUME NEW s \in SUBSET (1..N)
        PROVE  g[s] = IF s = {} THEN b0 ELSE TakeStep(g[s \ {Max(s)}], b[q[Max(s)]], q[Max(s)])
    <3>1. CASE s = {}
      BY <1>6, <3>1 DEF Upward
    <3>2. CASE s # {}
      <4>1. Max(s) \in 1..N /\ g[s \ {Max(s)}] \in X
        BY <1>m, <1>6, <3>2
      <4>2. g[s] = F[<<Max(s), g[s \ {Max(s)}]>>]
        BY <1>6, <3>2, <4>1, Zenon DEF Upward
      <4> QED
        BY <1>2, <1>3, <3>2, <4>1, <4>2
    <3> QED
      BY <3>1, <3>2
  <2> QED
    BY <1>2, <1>6, <2>1
<1>8. it = Body(it)
  <2> HIDE DEF Body
  <2> QED
    BY <1>7
<1> HIDE DEF it
<1>9. ASSUME NEW s \in SUBSET (1..N)
      PROVE  it[s] = IF s = {} THEN b0 ELSE TakeStep(it[s \ {Max(s)}], b[q[Max(s)]], q[Max(s)])
  BY <1>2, <1>8
<1>10. Upward(it, N, X, b0, F)
  <2>1. it[{}] = b0
    BY <1>9
  <2>2. ASSUME NEW s \in SUBSET (1..N), s # {}, it[s \ {Max(s)}] \in X
        PROVE  it[s] = F[<<Max(s), it[s \ {Max(s)}]>>]
    <3>1. Max(s) \in 1..N
      BY <1>m, <2>2
    <3>2. q[Max(s)] = Max(s)
      BY <1>2, <3>1
    <3>3. it[s] = TakeStep(it[s \ {Max(s)}], b[Max(s)], Max(s))
      BY <1>9, <2>2, <3>2, Zenon
    <3> QED
      BY <1>3, <2>2, <3>1, <3>3, Zenon
  <2> QED
    BY <2>1, <2>2 DEF Upward
<1>11. PICK h \in [0..N -> X] : LoopUp(h, N, b0, F) /\ h[N] = it[1..N]
  <2>1. EndsUp(it, N, X, b0, F)
    BY <1>1, <1>5, <1>10, StepsUp, Zenon
  <2> QED
    BY <2>1 DEF EndsUp
<1>12. ASSUME NEW k \in 1..N PROVE h[k] = TakeStep(h[k - 1], b[k], k)
  <2>1. h[k - 1] \in X
    BY <1>1
  <2> QED
    BY <1>3, <1>11, <2>1 DEF LoopUp
<1>13. h[0] = b0 /\ subtract(a, b) = shortened(h[N])
  BY <1>2, <1>v, <1>11 DEF LoopUp
<1> QED
  BY <1>12, <1>13 DEF N, X, b0

(* BigNumberNaive::subtract leaves a vector of digits whether it returns   *)
(* or throws, a normal one when it returns, and it is exact where no digit *)
(* has to borrow.                                                          *)
THEOREM NaiveSubtractExact ==
  ASSUME D!Base \in Nat, D!Base > 2, NEW a \in Seq(D!digit), a # <<>>, NEW b \in Seq(D!digit)
  PROVE  LET r == subtract(a, b)
         IN  /\ r = [ok |-> r.ok, v |-> r.v] /\ r.ok \in BOOLEAN
             /\ r.v \in Seq(D!digit) /\ r.v # <<>>
             /\ r.ok => normalize(r.v) = r.v
             /\ (Len(b) <= Len(a) /\ \A i \in 1..Len(b) : b[i] <= a[i])
                  => r.ok /\ Value(r.v) = Value(a) - Value(b)
<1> DEFINE n == Len(a)
           N == Len(b)
           r == subtract(a, b)
<1>1. PICK h \in [0..N -> Flowing(n)] :
         /\ h[0] = [ok |-> TRUE, v |-> a]
         /\ \A k \in 1..N : h[k] = TakeStep(h[k - 1], b[k], k)
         /\ r = shortened(h[N])
  BY SubtractLoop
<1>2. /\ n \in Nat /\ N \in Nat /\ a \in Seq(Nat) /\ b \in Seq(Nat) /\ n >= 1
      /\ \A k \in 1..n : a[k] \in Nat /\ a[k] \in D!digit
      /\ \A k \in 1..N : b[k] \in Nat /\ b[k] \in D!digit
  <2>1. n >= 1
    OBVIOUS
  <2> QED
    BY <2>1, VectorSeq
<1> HIDE DEF r
<1>3. \A k \in 0..N : h[k].ok \in BOOLEAN /\ h[k].v \in Seq(D!digit) /\ Len(h[k].v) = n
  BY <1>1 DEF Flowing
<1> DEFINE s == h[N]
<1>4. s.ok \in BOOLEAN /\ s.v \in Seq(D!digit) /\ Len(s.v) = n /\ s.v # <<>>
  <2>1. s.ok \in BOOLEAN /\ s.v \in Seq(D!digit) /\ Len(s.v) = n
    BY <1>2, <1>3
  <2> QED
    BY <1>2, <2>1
<1>5. r = [ok |-> s.ok, v |-> IF s.ok THEN normalize(s.v) ELSE s.v]
  BY <1>1 DEF shortened
<1>6. /\ normalize(s.v) \in Seq(D!digit) /\ normalize(s.v) # <<>>
      /\ Value(normalize(s.v)) = Value(s.v) /\ normalize(normalize(s.v)) = normalize(s.v)
  <2> HIDE DEF s
  <2> QED
    BY <1>4, NormalizeKeeps
<1>7. ASSUME N <= n, \A i \in 1..N : b[i] <= a[i]
      PROVE  s.ok /\ Value(s.v) = Value(a) - Value(b)
  <2> DEFINE P == {k \in 0..N : /\ h[k].ok /\ Value(h[k].v) + Parts(b)[k] = Value(a)
                               /\ \A j \in (k + 1)..n : h[k].v[j] = a[j]}
  <2>1. /\ Parts(b)[0] = 0 /\ Parts(b)[N] = Value(b) /\ Value(a) \in Nat
        /\ \A k \in 0..N : Parts(b)[k] \in Nat
        /\ \A k \in 1..N : Parts(b)[k] = Parts(b)[k - 1] + b[k] * Weight[k - 1]
    BY <1>2, PartsOf
  <2> HIDE DEF s, n, N
  <2>2. 0 \in P
    <3>1. Value(a) + 0 = Value(a) /\ 0 \in 0..N
      BY <1>2, <2>1
    <3> QED
      BY <1>1, <2>1, <3>1
  <2>3. ASSUME NEW k \in 1..N, k - 1 \in P PROVE k \in P
    <3> DEFINE v == h[k - 1].v
               x == v[k]
               d == b[k]
               w == Weight[k - 1]
               u == [v EXCEPT ![k] = x - d]
               p0 == Parts(b)[k - 1]
    <3>1. k - 1 \in 0..N /\ k \in 0..N /\ k \in Nat /\ k >= 1 /\ k - 1 \in Nat /\ k \in 1..n
          /\ k \in ((k - 1) + 1)..n
      BY <1>2, <1>7
    <3>2. h[k - 1].ok /\ Value(v) + p0 = Value(a) /\ \A j \in ((k - 1) + 1)..n : v[j] = a[j]
      BY <2>3
    <3>3. v \in Seq(D!digit) /\ Len(v) = n /\ d \in D!digit /\ d \in Nat /\ p0 \in Nat
      BY <1>2, <1>3, <2>1, <3>1
    <3>4. x = a[k] /\ x \in Nat /\ d <= x
      BY <1>2, <1>7, <3>1, <3>2
    <3>5. h[k] = TakeStep(h[k - 1], d, k)
      BY <1>1
    <3>6. h[k] = [ok |-> TRUE, v |-> u]
      <4>1. h[k] = subtractDigit(v, d, k)
        BY <3>2, <3>5 DEF TakeStep
      <4>2. k <= Len(v) /\ d <= v[k]
        BY <1>2, <3>1, <3>3, <3>4
      <4> HIDE DEF v, d
      <4>3. subtractDigit(v, d, k) = [ok |-> TRUE, v |-> [v EXCEPT ![k] = v[k] - d]]
        BY <3>1, <3>3, <4>2, SubtractDigitIs
      <4> QED
        BY <4>1, <4>3
    <3>7. x - d \in Nat
      BY <3>3, <3>4
    <3>8. u \in Seq(Nat) /\ Value(u) + x * w = Value(v) + (x - d) * w
      <4>1. v \in Seq(Nat)
        BY <3>3, VectorSeq
      <4>2. k \in 1..Len(v)
        BY <3>1, <3>3
      <4> HIDE DEF v
      <4> QED
        BY <3>7, <4>1, <4>2, ValuePut
    <3>9. w \in Nat /\ Parts(b)[k] = p0 + d * w
      BY <2>1, <3>1, WeightNat
    <3>10. Value(u) \in Nat /\ Value(v) \in Nat
      BY <3>3, <3>8, VectorSeq, PartsOf
    <3>11. \A j \in (k + 1)..n : u[j] = a[j]
      <4> SUFFICES ASSUME NEW j \in (k + 1)..n PROVE u[j] = a[j]
        OBVIOUS
      <4>1. j \in ((k - 1) + 1)..n /\ j # k /\ j \in 1..n
        BY <1>2, <3>1
      <4>2. u[j] = v[j]
        BY <3>3, <4>1
      <4> QED
        BY <3>2, <4>1, <4>2
    <3>12. Value(u) + Parts(b)[k] = Value(a)
      <4> DEFINE U == Value(u)
                 V == Value(v)
                 A == Value(a)
                 xw == x * w
                 dw == d * w
      <4>1. xw \in Nat /\ dw \in Nat /\ (x - d) * w = xw - dw
        <5> HIDE DEF x, d, w
        <5>1. x \in Nat /\ d \in Nat /\ w \in Nat
          BY <3>3, <3>4, <3>9
        <5> QED
          BY ONLY <5>1, SMT
      <4>2. U + xw = V + (xw - dw) /\ V + p0 = A /\ Parts(b)[k] = p0 + dw /\ U \in Nat /\ V \in Nat
            /\ A \in Nat /\ p0 \in Nat
        BY <2>1, <3>2, <3>3, <3>8, <3>9, <3>10, <4>1
      <4> HIDE DEF U, V, A, xw, dw, p0
      <4>3. xw \in Nat /\ dw \in Nat
        BY <4>1
      <4>4. U + (p0 + dw) = A
        BY ONLY <4>2, <4>3
      <4> QED
        BY <4>2, <4>4 DEF U, A
    <3> HIDE DEF u
    <3>13. h[k].ok /\ h[k].v = u
      BY <3>6
    <3> QED
      BY <3>1, <3>11, <3>12, <3>13
  <2>4. N \in P
    <3> HIDE DEF P
    <3>1. \A k \in 0..N : k \in P
      BY <1>2, <2>2, <2>3, Induction
    <3> QED
      BY <1>2, <3>1
  <2>5. s.ok /\ Value(s.v) + Value(b) = Value(a)
    BY <2>1, <2>4 DEF s
  <2>6. Value(s.v) \in Nat /\ Value(b) \in Nat
    BY <1>2, <1>4, VectorSeq, PartsOf
  <2> QED
    BY <2>1, <2>5, <2>6
<1> HIDE DEF s
<1> QED
  BY <1>4, <1>5, <1>6, <1>7 DEF r

-----------------------------------------------------------------------------
(* add of a vector to itself.                                              *)

(* A vector that got another digit is worth at least the weight of it.     *)
LEMMA CarriedLong ==
  ASSUME D!Base \in Nat, D!Base > 2, NEW n \in Nat, NEW s \in Carrying(n),
         Len(carried(s)) = n + 1
  PROVE  Weight[n] <= Value(carried(s))
<1>1. s.v \in Seq(D!digit) /\ Len(s.v) = n /\ s.c \in D!digit
  BY CarryingIs
<1>2. s.v \in Seq(Nat) /\ s.c \in Nat
  BY <1>1, DigitNat, VectorSeq
<1>3. Weight[n] \in Nat /\ Value(s.v) \in Nat
  BY <1>2, WeightNat, PartsOf
<1>4. s.c # 0
  <2> SUFFICES ASSUME s.c = 0 PROVE FALSE
    OBVIOUS
  <2>1. carried(s) = s.v
    BY DEF carried
  <2> QED
    BY <1>1, <2>1
<1> DEFINE w == Weight[n]
           c == s.c
           v == Value(s.v)
<1>5. Value(carried(s)) = v + c * w
  BY CarriedExact
<1>6. w \in Nat /\ c \in Nat /\ c # 0 /\ v \in Nat
  BY <1>2, <1>3, <1>4
<1> HIDE DEF w, c, v
<1>7. w <= c * w /\ c * w \in Nat
  BY <1>6, SMT
<1> DEFINE cw == c * w
<1>8. w <= cw /\ cw \in Nat /\ Value(carried(s)) = v + cw
  BY <1>5, <1>7
<1> HIDE DEF cw
<1>9. w <= v + cw
  BY <1>6, <1>8
<1> QED
  BY <1>8, <1>9 DEF w

(* addDigit that makes the vector longer makes it worth the weight of the  *)
(* new place.                                                              *)
LEMMA AddDigitLong ==
  ASSUME D!Base \in Nat, D!Base > 2, NEW a \in Seq(D!digit), NEW i \in 1..Len(a), NEW d \in D!digit,
         Len(addDigit(a, d, i)) = Len(a) + 1
  PROVE  Weight[Len(a)] <= Value(addDigit(a, d, i))
<1>1. Len(a) \in Nat /\ (Len(a) - i + 1) \in 0..(Len(a) - i + 1)
  BY VectorSeq
<1>2. PICK h \in [0..(Len(a) - i + 1) -> Carrying(Len(a))] :
            /\ h[0] = [v |-> a, c |-> d]
            /\ \A k \in 1..(Len(a) - i + 1) : h[k] = AddStep(h[k - 1], i + k - 1)
            /\ addDigit(a, d, i) = carried(h[Len(a) - i + 1])
  BY AddDigitLoop
<1> DEFINE s == h[Len(a) - i + 1]
<1>3. s \in Carrying(Len(a)) /\ addDigit(a, d, i) = carried(s)
  BY <1>1, <1>2
<1> HIDE DEF s
<1>4. Len(carried(s)) = Len(a) + 1
  BY <1>3
<1> QED
  BY <1>1, <1>3, <1>4, CarriedLong

(* One round of add where both vectors are the same.                       *)
DoubleStep(v, i) == IF i > Len(v) THEN v ELSE addDigit(v, v[i], i)

(* A round leaves a vector of digits that is no shorter.                   *)
LEMMA DoubleStepDigits ==
  ASSUME D!Base \in Nat, D!Base > 2, NEW v \in Seq(D!digit), NEW i \in Nat, i >= 1
  PROVE  DoubleStep(v, i) \in Seq(D!digit) /\ Len(DoubleStep(v, i)) >= Len(v)
<1>0. Len(v) \in Nat
  BY VectorSeq
<1>1. CASE i > Len(v)
  BY <1>0, <1>1 DEF DoubleStep
<1>2. CASE ~(i > Len(v))
  <2>1. i \in 1..Len(v) /\ DoubleStep(v, i) = addDigit(v, v[i], i)
    BY <1>0, <1>2 DEF DoubleStep
  <2>2. v[i] \in D!digit
    BY <2>1
  <2> QED
    BY <2>1, <2>2, AddDigitDigits
<1> QED
  BY <1>1, <1>2

(* The vectors that add works through when both are the same.              *)
LEMMA DoubleLoop ==
  ASSUME D!Base \in Nat, D!Base > 2, NEW a \in Seq(D!digit)
  PROVE  LET N == Len(a) + 1
             X == Seq(D!digit)
         IN  \E h \in [0..N -> X] :
               /\ h[0] = a
               /\ \A k \in 1..N : h[k] = DoubleStep(h[k - 1], k)
               /\ addToItself(a) = normalize(h[N])
<1> DEFINE N == Len(a) + 1
           X == Seq(D!digit)
           b0 == a
           q == Positions(1, Len(a) + 1)
           F == [p \in (1..N) \X X |-> DoubleStep(p[2], p[1])]
           Body(f) == [s \in SUBSET (DOMAIN q) |->
                         IF s = {} THEN b0 ELSE DoubleStep(f[s \ {Max(s)}], q[Max(s)])]
           it == CHOOSE f : f = Body(f)
<1>1. N \in Nat /\ b0 \in X /\ N >= 1
  BY VectorSeq
<1>2. DOMAIN q = 1..N /\ \A k \in 1..N : q[k] = k
  <2>1. 1 \in 1..N
    BY <1>1
  <2> HIDE DEF N
  <2>2. DOMAIN Positions(1, N) = 1..(N - 1 + 1)
        /\ \A k \in 1..(N - 1 + 1) : Positions(1, N)[k] = 1 + k - 1
    BY <1>1, <2>1, PositionsIs
  <2>3. N - 1 + 1 = N /\ \A k \in 1..N : 1 + k - 1 = k
    BY <1>1
  <2> QED
    BY <2>2, <2>3 DEF N
<1>v. addToItself(a) = normalize(it[DOMAIN q])
  BY DEF addToItself, FoldLeft, MapThenFoldSet, DoubleStep
<1> HIDE DEF N, b0, q
<1>3. \A e \in 1..N : \A x \in X : F[<<e, x>>] = DoubleStep(x, e)
  OBVIOUS
<1>4. \A e \in 1..N : \A x \in X : DoubleStep(x, e) \in X
  BY <1>1, DoubleStepDigits
<1> HIDE DEF F, X
<1>5. Keeps(F, N, X)
  BY <1>3, <1>4 DEF Keeps
<1>6. PICK g \in [SUBSET (1..N) -> X] : Upward(g, N, X, b0, F)
  BY <1>1, <1>5, FoldUp
<1>m. \A s \in SUBSET (1..N) : s # {} => Max(s) \in 1..N
  BY <1>1, MaxIn
<1>7. g = Body(g)
  <2>1. ASSUME NEW s \in SUBSET (1..N)
        PROVE  g[s] = IF s = {} THEN b0 ELSE DoubleStep(g[s \ {Max(s)}], q[Max(s)])
    <3>1. CASE s = {}
      BY <1>6, <3>1 DEF Upward
    <3>2. CASE s # {}
      <4>1. Max(s) \in 1..N /\ g[s \ {Max(s)}] \in X
        BY <1>m, <1>6, <3>2
      <4>2. g[s] = F[<<Max(s), g[s \ {Max(s)}]>>]
        BY <1>6, <3>2, <4>1, Zenon DEF Upward
      <4> QED
        BY <1>2, <1>3, <3>2, <4>1, <4>2
    <3> QED
      BY <3>1, <3>2
  <2> QED
    BY <1>2, <1>6, <2>1
<1>8. it = Body(it)
  <2> HIDE DEF Body
  <2> QED
    BY <1>7
<1> HIDE DEF it
<1>9. ASSUME NEW s \in SUBSET (1..N)
      PROVE  it[s] = IF s = {} THEN b0 ELSE DoubleStep(it[s \ {Max(s)}], q[Max(s)])
  BY <1>2, <1>8
<1>10. Upward(it, N, X, b0, F)
  <2>1. it[{}] = b0
    BY <1>9
  <2>2. ASSUME NEW s \in SUBSET (1..N), s # {}, it[s \ {Max(s)}] \in X
        PROVE  it[s] = F[<<Max(s), it[s \ {Max(s)}]>>]
    <3>1. Max(s) \in 1..N
      BY <1>m, <2>2
    <3>2. q[Max(s)] = Max(s)
      BY <1>2, <3>1
    <3>3. it[s] = DoubleStep(it[s \ {Max(s)}], Max(s))
      BY <1>9, <2>2, <3>2, Zenon
    <3> QED
      BY <1>3, <2>2, <3>1, <3>3, Zenon
  <2> QED
    BY <2>1, <2>2 DEF Upward
<1>11. PICK h \in [0..N -> X] : LoopUp(h, N, b0, F) /\ h[N] = it[1..N]
  <2>1. EndsUp(it, N, X, b0, F)
    BY <1>1, <1>5, <1>10, StepsUp, Zenon
  <2> QED
    BY <2>1 DEF EndsUp
<1>12. ASSUME NEW k \in 1..N PROVE h[k] = DoubleStep(h[k - 1], k)
  <2>1. h[k - 1] \in X
    BY <1>1
  <2> QED
    BY <1>3, <1>11, <2>1 DEF LoopUp
<1>13. h[0] = b0 /\ addToItself(a) = normalize(h[N])
  BY <1>2, <1>v, <1>11 DEF LoopUp
<1> QED
  BY <1>12, <1>13 DEF N, X, b0

(* BigNumberNaive::add of a vector to itself ends, although its bound is   *)
(* the length of the vector that it makes longer: the vector never gets    *)
(* two digits more, so one round more than its length is enough, and the   *)
(* result is a normal vector.                                              *)
THEOREM DoublingEnds ==
  ASSUME D!Base \in Nat, D!Base > 2, NEW a \in Seq(D!digit), a # <<>>
  PROVE  /\ addToItself(a) \in Seq(D!digit) /\ addToItself(a) # <<>>
         /\ normalize(addToItself(a)) = addToItself(a)
         /\ \E v \in Seq(D!digit) : addToItself(a) = normalize(v) /\ ~(Len(a) + 2 <= Len(v))
<1> DEFINE n == Len(a)
           N == n + 1
           u == Weight[n]
<1>1. PICK h \in [0..N -> Seq(D!digit)] :
         /\ h[0] = a
         /\ \A k \in 1..N : h[k] = DoubleStep(h[k - 1], k)
         /\ addToItself(a) = normalize(h[N])
  BY DoubleLoop
<1>2. n \in Nat /\ n >= 1 /\ N \in Nat /\ a \in Seq(Nat) /\ Value(a) \in Nat /\ N = n + 1
  <2>1. n >= 1
    OBVIOUS
  <2> QED
    BY <2>1, VectorSeq, PartsOf
<1>3. u \in Nat /\ u > 0 /\ Value(a) < u /\ Weight[n + 1] = D!Base * u /\ Weight[n + 1] \in Nat
  <2>1. Value(a) < u
    BY <1>2, PartsOf, PartsBound
  <2>2. n + 1 \in Nat /\ n + 1 > 0 /\ (n + 1) - 1 = n
    BY <1>2
  <2>3. Weight[n + 1] = D!Base * Weight[(n + 1) - 1] /\ Weight[n + 1] \in Nat
    BY <2>2, WeightStep, WeightNat
  <2> QED
    BY <1>2, <2>1, <2>2, <2>3, WeightNat
<1>4. Weight[n + 1] >= 3 * u
  <2> DEFINE B == D!Base
  <2>1. B \in Nat /\ B >= 3
    OBVIOUS
  <2> HIDE DEF B, u
  <2>2. B * u >= 3 * u
    BY <1>3, <2>1, SMT
  <2> QED
    BY <1>3, <2>2 DEF B
<1>5. ASSUME NEW k \in 0..N
      PROVE  h[k] \in Seq(D!digit) /\ Len(h[k]) \in Nat /\ Value(h[k]) \in Nat
  <2>1. h[k] \in Seq(D!digit)
    OBVIOUS
  <2> QED
    BY <2>1, VectorSeq, PartsOf
<1> HIDE DEF n, N, u
<1>6. ASSUME NEW k \in 1..N, k <= Len(h[k - 1])
      PROVE  /\ h[k - 1][k] \in D!digit /\ h[k - 1][k] \in Nat
             /\ Value(h[k]) = Value(h[k - 1]) + h[k - 1][k] * Weight[k - 1]
             /\ Len(h[k]) \in Len(h[k - 1])..(Len(h[k - 1]) + 1)
             /\ Len(h[k]) = Len(h[k - 1]) + 1 => Weight[Len(h[k - 1])] <= Value(h[k])
  <2> DEFINE v == h[k - 1]
             d == v[k]
  <2>1. k - 1 \in 0..N /\ k \in Nat /\ k >= 1
    BY <1>2
  <2>2. v \in Seq(D!digit) /\ Len(v) \in Nat
    BY <1>5, <2>1
  <2>3. k \in 1..Len(v) /\ k \in 1..(Len(v) + 1)
    BY <1>6, <2>1, <2>2
  <2>4. d \in D!digit /\ d \in Nat
    BY <2>2, <2>3, VectorSeq
  <2>5. h[k] = addDigit(v, d, k)
    <3>1. ~(k > Len(v))
      BY <2>1, <2>2, <2>3
    <3> QED
      BY <1>1, <3>1 DEF DoubleStep
  <2> HIDE DEF v, d
  <2>6. /\ Len(h[k]) \in Len(v)..(Len(v) + 1)
        /\ Value(h[k]) = Value(v) + d * Weight[k - 1]
        /\ Len(h[k]) = Len(v) + 1 => Weight[Len(v)] <= Value(h[k])
    BY <2>2, <2>3, <2>4, <2>5, AddDigitExact, AddDigitLong
  <2> QED
    BY <2>4, <2>6 DEF v, d
<1> DEFINE P == {k \in 0..n : /\ Len(h[k]) \in n..(n + 1) /\ Value(h[k]) < u + Weight[k]}
<1>7. 0 \in P
  <2>1. Weight[0] = 1
    BY WeightIs
  <2>2. Len(h[0]) = n /\ Value(h[0]) = Value(a)
    BY <1>1 DEF n
  <2> QED
    BY <1>2, <1>3, <2>1, <2>2
<1>8. ASSUME NEW k \in 1..n, k - 1 \in P PROVE k \in P
  <2> DEFINE v == h[k - 1]
             d == v[k]
             w == Weight[k - 1]
             dw == d * w
  <2>1. k \in 1..N /\ k - 1 \in 0..N /\ k \in 0..N /\ k \in Nat /\ k > 0 /\ k - 1 \in Nat
        /\ k <= n /\ k \in 0..n
    BY <1>2
  <2>2. Len(v) \in n..(n + 1) /\ Value(v) < u + w
    BY <1>8
  <2>3. k <= Len(v)
    BY <1>2, <2>1, <2>2
  <2>4. /\ d \in D!digit /\ d \in Nat /\ Value(h[k]) = Value(v) + dw
        /\ Len(h[k]) \in Len(v)..(Len(v) + 1)
        /\ Len(h[k]) = Len(v) + 1 => Weight[Len(v)] <= Value(h[k])
    BY <1>6, <2>1, <2>3
  <2>5. w \in Nat /\ Weight[k] = D!Base * w /\ Weight[k] \in Nat /\ Weight[k] <= u
    BY <1>2, <2>1, WeightNat, WeightStep, WeightGrows DEF u
  <2>6. dw \in Nat /\ dw + w <= Weight[k]
    <3> DEFINE B == D!Base
    <3>1. d < B /\ B \in Nat
      BY <2>4, DigitNat
    <3> HIDE DEF d, w, B
    <3>2. (d + 1) * w <= B * w /\ (d + 1) * w = d * w + w /\ d * w \in Nat
      BY <2>4, <2>5, <3>1, SMT
    <3> QED
      BY <2>5, <3>2 DEF B
  <2>7. Value(v) \in Nat /\ Value(h[k]) \in Nat /\ Len(v) \in Nat /\ Len(h[k]) \in Nat
    BY <1>5, <2>1
  <2> HIDE DEF dw, d, w, v
  <2>8. Value(h[k]) < u + Weight[k]
    BY <1>3, <2>2, <2>4, <2>5, <2>6, <2>7
  <2>9. Len(h[k]) \in n..(n + 1)
    <3>1. CASE Len(v) = n
      BY <1>2, <2>4, <2>7, <3>1
    <3>2. CASE Len(v) = n + 1
      <4>1. ASSUME Len(h[k]) = Len(v) + 1 PROVE FALSE
        <5> DEFINE W == Weight[n + 1]
                   w2 == Weight[k]
                   y == Value(h[k])
        <5>1. W <= y /\ W \in Nat /\ y \in Nat /\ W >= 3 * u /\ w2 \in Nat /\ w2 <= u /\ y < u + w2
          BY <1>3, <1>4, <2>4, <2>5, <2>7, <2>8, <3>2, <4>1
        <5> HIDE DEF W, w2, y
        <5> QED
          BY ONLY <1>3, <5>1
      <4> DEFINE l == Len(h[k])
      <4>2. l \in (n + 1)..(n + 2) /\ l # n + 2 /\ l \in Nat
        <5>1. Len(v) + 1 = n + 2
          BY <1>2, <3>2
        <5> QED
          BY <2>4, <2>7, <3>2, <4>1, <5>1
      <4> HIDE DEF l
      <4>3. l \in n..(n + 1)
        BY <1>2, <4>2
      <4> QED
        BY <4>3 DEF l
    <3> QED
      BY <1>2, <2>2, <3>1, <3>2
  <2> QED
    BY <2>1, <2>8, <2>9
<1>9. n \in P
  <2> HIDE DEF P
  <2>1. \A k \in 0..n : k \in P
    BY <1>2, <1>7, <1>8, Induction
  <2> QED
    BY <1>2, <2>1
<1>10. Len(h[N]) \in n..(n + 1)
  <2> DEFINE v == h[n]
             d == v[n + 1]
             x == d * u
  <2>1. n \in 0..N /\ N \in 1..N /\ N \in 0..N /\ N - 1 = n /\ n + 1 = N
    BY <1>2
  <2>2. Len(v) \in n..(n + 1) /\ Value(v) < u + u
    BY <1>9 DEF u
  <2>3. Value(v) \in Nat /\ Len(v) \in Nat /\ Value(h[N]) \in Nat /\ Len(h[N]) \in Nat
        /\ v \in Seq(D!digit)
    BY <1>5, <2>1
  <2>4. CASE Len(v) = n
    <3>1. h[N] = v
      <4>1. h[N] = DoubleStep(v, N)
        BY <1>1, <2>1
      <4>2. N > Len(v)
        BY <1>2, <2>4
      <4> QED
        BY <4>1, <4>2 DEF DoubleStep
    <3> QED
      BY <1>2, <2>4, <3>1
  <2>5. CASE Len(v) = n + 1
    <3>1. /\ d \in Nat /\ Value(h[N]) = Value(v) + x
          /\ Len(h[N]) \in Len(v)..(Len(v) + 1)
          /\ Len(h[N]) = Len(v) + 1 => Weight[Len(v)] <= Value(h[N])
      <4>1. N <= Len(h[N - 1])
        BY <1>2, <2>1, <2>5
      <4> QED
        BY <1>6, <2>1, <4>1 DEF u
    <3>2. x <= Value(v)
      <4>1. N \in 1..Len(v)
        BY <1>2, <2>5
      <4> HIDE DEF v
      <4>2. v[N] * Weight[N - 1] <= Value(v)
        BY <2>3, <4>1, PartsGrow
      <4> QED
        BY <2>1, <4>2 DEF u
    <3> HIDE DEF d, v
    <3>3. d * u < 2 * u
      <4> DEFINE y == Value(v)
      <4>1. y \in Nat /\ y < u + u /\ x <= y
        BY <2>2, <2>3, <3>2
      <4>2. u \in Nat /\ d \in Nat
        BY <1>3, <3>1
      <4> HIDE DEF y, d
      <4>3. x \in Nat
        BY ONLY <4>2, SMT DEF x
      <4> HIDE DEF x
      <4>4. x < 2 * u
        BY ONLY <4>1, <4>2, <4>3
      <4> QED
        BY <4>4 DEF x
    <3>4. d <= 1
      <4> SUFFICES ASSUME d >= 2 PROVE FALSE
        BY <3>1
      <4>1. d * u >= 2 * u
        BY <1>3, <3>1, SMT
      <4>2. d * u \in Nat /\ 2 * u \in Nat
        BY <1>3, <3>1, SMT
      <4> QED
        BY <3>3, <4>1, <4>2
    <3>5. x <= u /\ x \in Nat
      BY <1>3, <3>1, <3>4, SMT
    <3> HIDE DEF x
    <3>6. Value(h[N]) < 3 * u
      BY <1>3, <2>2, <2>3, <3>1, <3>5
    <3>7. ~(Len(h[N]) = Len(v) + 1)
      <4> SUFFICES ASSUME Len(h[N]) = Len(v) + 1 PROVE FALSE
        OBVIOUS
      <4>1. Weight[n + 1] <= Value(h[N])
        BY <2>5, <3>1
      <4> DEFINE W == Weight[n + 1]
                 y == Value(h[N])
      <4>2. W \in Nat /\ y \in Nat /\ W <= y /\ W >= 3 * u /\ y < 3 * u /\ u \in Nat
        BY <1>3, <1>4, <2>3, <3>6, <4>1
      <4> HIDE DEF W, y
      <4> QED
        BY ONLY <4>2
    <3> QED
      BY <1>2, <2>3, <2>5, <3>1, <3>7
  <2> QED
    BY <1>2, <2>2, <2>4, <2>5
<1> DEFINE v == h[N]
<1>11. v \in Seq(D!digit) /\ v # <<>> /\ ~(n + 2 <= Len(v)) /\ addToItself(a) = normalize(v)
  <2>1. v \in Seq(D!digit) /\ Len(v) \in n..(n + 1) /\ Len(v) \in Nat
    BY <1>2, <1>5, <1>10
  <2>2. ~(n + 2 <= Len(v)) /\ Len(v) >= 1
    BY <1>2, <2>1
  <2> QED
    BY <1>1, <2>1, <2>2
<1> HIDE DEF v
<1>12. normalize(v) \in Seq(D!digit) /\ normalize(v) # <<>> /\ normalize(normalize(v)) = normalize(v)
  BY <1>11, NormalizeKeeps
<1> QED
  BY <1>11, <1>12 DEF n

-----------------------------------------------------------------------------
(* Recursion on a measure, and powers of two.                              *)

(* A function defined by recursion on a measure: F gives the value at a    *)
(* place from the function, and looks only at places of a lower measure.   *)
Total(F, S, R) == \A p \in S : \A f \in [S -> R] : F[<<p, f>>] \in R
Local(F, S, R, m) ==
  \A p \in S : \A f, g \in [S -> R] :
    (\A q \in S : m[q] < m[p] => f[q] = g[q]) => F[<<p, f>>] = F[<<p, g>>]

Defines(F, S, R) == \E f \in [S -> R] : \A p \in S : f[p] = F[<<p, f>>]

(* Such a function exists.                                                 *)
LEMMA MeasureRecursion ==
  ASSUME NEW S, NEW R, R # {}, NEW m \in [S -> Nat], NEW F, Total(F, S, R), Local(F, S, R, m)
  PROVE  Defines(F, S, R)
<1>0. PICK r0 \in R : TRUE
  OBVIOUS
<1> DEFINE X == [S -> R]
           b == [p \in S |-> r0]
           Next1(x) == [p \in S |-> F[<<p, x>>]]
           E == [y \in Nat \X X |-> Next1(y[2])]
<1>1. b \in X /\ \A x \in X : Next1(x) \in X
  BY <1>0 DEF Total
<1>2. \A n \in Nat : \A x \in X : E[<<n, x>>] = Next1(x)
  OBVIOUS
<1>3. PICK g \in [Nat -> X] : \A n \in Nat : g[n + 1] = Next1(g[n])
  <2> HIDE DEF E, X, b, Next1
  <2>1. KeepsAll(E, X)
    BY <1>1, <1>2 DEF KeepsAll
  <2>2. PICK g \in [Nat -> X] : g[0] = b /\ \A n \in Nat : g[n + 1] = E[<<n, g[n]>>]
    BY <1>1, <2>1, Recursion
  <2>3. \A n \in Nat : g[n + 1] = Next1(g[n])
    BY <1>2, <2>2
  <2> QED
    BY <2>3
<1>4. \A n \in Nat : g[n] \in X /\ \A p \in S : g[n + 1][p] = F[<<p, g[n]>>] /\ g[n][p] \in R
  BY <1>1, <1>3
<1> DEFINE f == [p \in S |-> g[m[p] + 1][p]]
<1>5. \A p \in S : m[p] \in Nat /\ m[p] + 1 \in Nat
  OBVIOUS
<1>6. f \in X /\ \A p \in S : f[p] = F[<<p, g[m[p]]>>] /\ f[p] = g[m[p] + 1][p]
  BY <1>4, <1>5
<1> HIDE DEF f, X, E
<1> DEFINE T == {n \in Nat : \E p \in S : m[p] < n /\ g[n][p] # f[p]}
<1>7. T = {}
  <2> SUFFICES ASSUME T # {} PROVE FALSE
    OBVIOUS
  <2>1. PICK n \in T : \A k \in T : n <= k
    <3>1. T \in SUBSET Nat
      OBVIOUS
    <3> HIDE DEF T
    <3> QED
      BY <3>1, LeastNatural
  <2>2. PICK p \in S : m[p] < n /\ g[n][p] # f[p]
    BY <2>1
  <2>3. n \in Nat /\ n # 0 /\ n - 1 \in Nat /\ (n - 1) + 1 = n
    BY <1>5, <2>1, <2>2
  <2>4. \A j \in Nat : j < n => \A q \in S : m[q] < j => g[j][q] = f[q]
    BY <2>1, <2>3
  <2>5. m[p] # n - 1
    BY <1>6, <2>2, <2>3
  <2>6. m[p] < n - 1
    BY <1>5, <2>2, <2>3, <2>5
  <2>7. \A q \in S : m[q] < m[p] => g[n - 1][q] = f[q] /\ g[m[p]][q] = f[q]
    <3> SUFFICES ASSUME NEW q \in S, m[q] < m[p] PROVE g[n - 1][q] = f[q] /\ g[m[p]][q] = f[q]
      OBVIOUS
    <3>1. m[q] \in Nat /\ m[p] \in Nat
      BY <1>5
    <3>2. m[q] < n - 1 /\ n - 1 < n /\ m[p] < n
      BY <2>2, <2>3, <2>6, <3>1
    <3> QED
      BY <2>3, <2>4, <3>1, <3>2
  <2>8. F[<<p, g[n - 1]>>] = F[<<p, g[m[p]]>>]
    <3>1. g[n - 1] \in [S -> R] /\ g[m[p]] \in [S -> R]
      BY <1>4, <1>5, <2>3 DEF X
    <3>2. \A q \in S : m[q] < m[p] => g[n - 1][q] = g[m[p]][q]
      BY <2>7
    <3> QED
      BY <3>1, <3>2, Zenon DEF Local
  <2>9. g[n][p] = F[<<p, g[n - 1]>>]
    BY <1>4, <2>3
  <2> QED
    BY <1>6, <2>2, <2>8, <2>9
<1>8. ASSUME NEW p \in S PROVE f[p] = F[<<p, f>>]
  <2>1. \A q \in S : m[q] < m[p] => g[m[p]][q] = f[q]
    BY <1>5, <1>7
  <2>2. g[m[p]] \in [S -> R] /\ f \in [S -> R]
    BY <1>4, <1>5, <1>6 DEF X
  <2>3. F[<<p, g[m[p]]>>] = F[<<p, f>>]
    BY <2>1, <2>2, Zenon DEF Local
  <2> QED
    BY <1>6, <2>3
<1> QED
  BY <1>6, <1>8 DEF X, Defines

(* Powers of two.  The provers know nothing of them, so they are counted:  *)
(* 2^n is the number of subsets of 1..n.                                   *)
LEMMA PowerStep ==
  ASSUME NEW n \in Nat
  PROVE  2^n \in Nat /\ 2^n > 0 /\ 2^(n + 1) = 2 * 2^n
<1> DEFINE S == 1..n
           T == 1..(n + 1)
           U == SUBSET S
           W == {s \in SUBSET T : n + 1 \in s}
<1>1. IsFiniteSet(S) /\ Cardinality(S) = n /\ IsFiniteSet(T) /\ Cardinality(T) = n + 1
  BY FS_Interval
<1>2. IsFiniteSet(U) /\ Cardinality(U) = 2^n /\ Cardinality(SUBSET T) = 2^(n + 1)
      /\ IsFiniteSet(SUBSET T)
  BY <1>1, FS_SUBSET
<1>3. ExistsBijection(U, W)
  <2> DEFINE f == [s \in U |-> s \cup {n + 1}]
  <2>1. f \in [U -> W]
    OBVIOUS
  <2>2. ASSUME NEW s \in U, NEW t \in U, f[s] = f[t] PROVE s = t
    <3>1. n + 1 \notin s /\ n + 1 \notin t
      OBVIOUS
    <3>2. s \cup {n + 1} = t \cup {n + 1}
      BY <2>2
    <3> QED
      BY <3>1, <3>2
  <2>3. ASSUME NEW w \in W PROVE \E s \in U : f[s] = w
    <3>1. w \ {n + 1} \in U
      OBVIOUS
    <3>2. f[w \ {n + 1}] = w
      BY <3>1
    <3> QED
      BY <3>1, <3>2
  <2> HIDE DEF f, U, W
  <2>4. f \in Injection(U, W) /\ f \in Surjection(U, W)
    BY <2>1, <2>2, <2>3, Zenon DEF Injection, Surjection, IsInjective
  <2>5. f \in Bijection(U, W)
    BY <2>4, Zenon DEF Bijection
  <2> QED
    BY <2>5, Zenon DEF ExistsBijection
<1>4. IsFiniteSet(W) /\ Cardinality(W) = 2^n
  <2> HIDE DEF U, W
  <2> QED
    BY <1>2, <1>3, FS_Bijection
<1>5. SUBSET T = U \cup W
  <2>1. ASSUME NEW s \in SUBSET T PROVE s \in U \cup W
    <3>1. CASE n + 1 \in s
      BY <3>1
    <3>2. CASE n + 1 \notin s
      BY <3>2
    <3> QED
      BY <3>1, <3>2
  <2>2. ASSUME NEW s \in U \cup W PROVE s \in SUBSET T
    OBVIOUS
  <2> QED
    BY <2>1, <2>2, Zenon
<1>6. U \cap W = {}
  <2>1. ASSUME NEW s \in U, s \in W PROVE FALSE
    BY <2>1
  <2> QED
    BY <2>1, Zenon
<1>7. Cardinality(U \cup W) = Cardinality(U) + Cardinality(W) - Cardinality(U \cap W)
  <2> HIDE DEF U, W
  <2> QED
    BY <1>2, <1>4, FS_Union
<1>8. 2^n \in Nat /\ 2^n # 0
  <2>1. {} \in U
    OBVIOUS
  <2> HIDE DEF U
  <2>2. Cardinality(U) \in Nat /\ Cardinality(U) # 0
    BY <1>2, <2>1, FS_CardinalityType, FS_EmptySet
  <2> QED
    BY <1>2, <2>2
<1>9. 2^(n + 1) = 2^n + 2^n - 0
  BY <1>2, <1>4, <1>5, <1>6, <1>7, FS_EmptySet
<1> DEFINE z == 2^n
           y == 2^(n + 1)
<1> HIDE DEF z, y
<1>10. z \in Nat /\ z # 0 /\ y = z + z - 0
  BY <1>8, <1>9 DEF z, y
<1>11. z > 0 /\ y = 2 * z
  BY <1>10
<1> QED
  BY <1>10, <1>11 DEF z, y

(* 2^0 counts the one subset of the empty set.                             *)
LEMMA PowerZero == 2^0 = 1
<1>1. Cardinality(SUBSET {}) = 2^Cardinality({})
  BY FS_SUBSET, FS_EmptySet
<1>2. SUBSET {} = {{}}
  OBVIOUS
<1>3. Cardinality({{}}) = 1
  BY FS_Singleton
<1> QED
  BY <1>1, <1>2, <1>3, FS_EmptySet

(* Powers of two grow.                                                     *)
LEMMA PowerGrows ==
  ASSUME NEW n \in Nat, NEW k \in 0..n
  PROVE  2^k <= 2^n
<1> DEFINE P == {i \in 0..(n - k) : 2^k <= 2^(k + i)}
<1>0. n - k \in Nat /\ k \in Nat /\ k + 0 = k
  OBVIOUS
<1>1. 0 \in P
  BY <1>0, PowerStep
<1>2. ASSUME NEW i \in 1..(n - k), i - 1 \in P PROVE i \in P
  <2> DEFINE j == k + (i - 1)
             z == 2^j
             y == 2^(j + 1)
             x == 2^k
  <2>1. j \in Nat /\ j + 1 = k + i /\ i \in 0..(n - k)
    OBVIOUS
  <2>2. x <= z
    BY <1>2
  <2>3. z \in Nat /\ y = 2 * z /\ x \in Nat
    BY <1>0, <2>1, PowerStep
  <2> HIDE DEF x, y, z
  <2>4. x <= y
    BY <2>2, <2>3
  <2> QED
    BY <2>1, <2>4 DEF x, y
<1>3. \A i \in 0..(n - k) : i \in P
  <2> HIDE DEF P
  <2> QED
    BY <1>0, <1>1, <1>2, Induction
<1>4. n - k \in P /\ k + (n - k) = n
  BY <1>0, <1>3
<1> QED
  BY <1>4

-----------------------------------------------------------------------------
(* The bitwise operations.                                                 *)

(* The states of word, from the highest bit down.                          *)
LEMMA WordLoop ==
  ASSUME NEW a \in Seq(0..1)
  PROVE  LET N == Len(a)
             X == Nat
         IN  \E h \in [0..N -> X] :
               /\ h[N] = 0
               /\ \A k \in 1..N : h[k - 1] = 2 * h[k] + a[k]
               /\ D!word(a) = h[0]
<1> DEFINE N == Len(a)
           X == Nat
           b0 == 0
           q == a
           F == [p \in (1..N) \X X |-> 2 * p[2] + a[p[1]]]
           Body(f) == [s \in SUBSET (DOMAIN q) |->
                         IF s = {} THEN b0 ELSE 2 * f[s \ {Min(s)}] + q[Min(s)]]
           it == CHOOSE f : f = Body(f)
<1>1. N \in Nat /\ b0 \in X
  OBVIOUS
<1>2. DOMAIN q = 1..N /\ (\A k \in 1..N : q[k] = a[k]) /\ \A k \in 1..N : a[k] \in 0..1
  OBVIOUS
<1>v. D!word(a) = it[DOMAIN q]
  BY DEF D!word, D!FoldRight, D!MapThenFoldSet, D!Min, Min
<1> HIDE DEF N, b0, q
<1>3. \A e \in 1..N : \A x \in X : F[<<e, x>>] = 2 * x + a[e]
  OBVIOUS
<1>4. \A e \in 1..N : \A x \in X : 2 * x + a[e] \in X
  BY <1>2
<1> HIDE DEF F, X
<1>5. Keeps(F, N, X)
  BY <1>3, <1>4 DEF Keeps
<1>6. PICK g \in [SUBSET (1..N) -> X] : Backward(g, N, X, b0, F)
  BY <1>1, <1>5, FoldDown
<1>m. \A s \in SUBSET (1..N) : s # {} => Min(s) \in 1..N
  BY <1>1, MinIn
<1>7. g = Body(g)
  <2>1. ASSUME NEW s \in SUBSET (1..N)
        PROVE  g[s] = IF s = {} THEN b0 ELSE 2 * g[s \ {Min(s)}] + q[Min(s)]
    <3>1. CASE s = {}
      BY <1>6, <3>1 DEF Backward
    <3>2. CASE s # {}
      <4>1. Min(s) \in 1..N /\ g[s \ {Min(s)}] \in X
        BY <1>m, <1>6, <3>2
      <4>2. g[s] = F[<<Min(s), g[s \ {Min(s)}]>>]
        BY <1>6, <3>2, <4>1, Zenon DEF Backward
      <4> QED
        BY <1>2, <1>3, <3>2, <4>1, <4>2
    <3> QED
      BY <3>1, <3>2
  <2> QED
    BY <1>2, <1>6, <2>1
<1>8. it = Body(it)
  <2> HIDE DEF Body
  <2> QED
    BY <1>7
<1> HIDE DEF it
<1>9. ASSUME NEW s \in SUBSET (1..N)
      PROVE  it[s] = IF s = {} THEN b0 ELSE 2 * it[s \ {Min(s)}] + q[Min(s)]
  BY <1>2, <1>8
<1>10. Backward(it, N, X, b0, F)
  <2>1. it[{}] = b0
    BY <1>9
  <2>2. ASSUME NEW s \in SUBSET (1..N), s # {}, it[s \ {Min(s)}] \in X
        PROVE  it[s] = F[<<Min(s), it[s \ {Min(s)}]>>]
    <3>1. Min(s) \in 1..N
      BY <1>m, <2>2
    <3>2. q[Min(s)] = a[Min(s)]
      BY <1>2, <3>1
    <3>3. it[s] = 2 * it[s \ {Min(s)}] + a[Min(s)]
      BY <1>9, <2>2, <3>2, Zenon
    <3> QED
      BY <1>3, <2>2, <3>1, <3>3, Zenon
  <2> QED
    BY <2>1, <2>2 DEF Backward
<1>11. PICK h \in [0..N -> X] : LoopDown(h, N, b0, F) /\ h[0] = it[1..N]
  <2>1. EndsDown(it, N, X, b0, F)
    BY <1>1, <1>5, <1>10, StepsDown, Zenon
  <2> QED
    BY <2>1 DEF EndsDown
<1>12. ASSUME NEW k \in 1..N PROVE h[k - 1] = 2 * h[k] + a[k]
  <2>1. h[k] \in X
    BY <1>1
  <2> QED
    BY <1>3, <1>11, <2>1 DEF LoopDown
<1>13. h[N] = b0 /\ D!word(a) = h[0]
  BY <1>2, <1>v, <1>11 DEF LoopDown
<1> QED
  BY <1>12, <1>13 DEF N, X, b0

(* A word of n bits is below 2^n.                                          *)
LEMMA WordBelow ==
  ASSUME NEW a \in Seq(0..1)
  PROVE  D!word(a) \in 0..(2^Len(a) - 1)
<1> DEFINE n == Len(a)
<1>1. PICK h \in [0..n -> Nat] :
         /\ h[n] = 0
         /\ \A k \in 1..n : h[k - 1] = 2 * h[k] + a[k]
         /\ D!word(a) = h[0]
  BY WordLoop
<1>2. n \in Nat /\ \A k \in 1..n : a[k] \in 0..1
  OBVIOUS
<1> HIDE DEF n
<1> DEFINE P == {i \in 0..n : h[n - i] < 2^i}
<1>3. 0 \in P
  BY <1>1, <1>2, PowerZero
<1>4. ASSUME NEW i \in 1..n, i - 1 \in P PROVE i \in P
  <2> DEFINE k == n - (i - 1)
             z == 2^(i - 1)
             x == h[k]
             y == h[n - i]
  <2>1. k \in 1..n /\ k - 1 = n - i /\ i - 1 \in Nat /\ (i - 1) + 1 = i /\ i \in 0..n /\ k \in 0..n
    BY <1>2
  <2>2. x < z
    BY <1>4
  <2>3. z \in Nat /\ 2^i = 2 * z
    BY <2>1, PowerStep
  <2>4. y = 2 * x + a[k] /\ a[k] \in 0..1 /\ x \in Nat
    BY <1>1, <1>2, <2>1
  <2> DEFINE b == a[k]
  <2> HIDE DEF x, y, z, b
  <2>5. y < 2 * z
    <3>1. b \in 0..1 /\ y = 2 * x + b
      BY <2>4 DEF b
    <3> QED
      BY <2>2, <2>3, <2>4, <3>1
  <2> QED
    BY <2>1, <2>3, <2>5 DEF y
<1>5. n \in P
  <2> HIDE DEF P
  <2>1. \A i \in 0..n : i \in P
    BY <1>2, <1>3, <1>4, Induction
  <2> QED
    BY <1>2, <2>1
<1>6. h[0] < 2^n /\ h[0] \in Nat /\ 2^n \in Nat
  BY <1>2, <1>5, PowerStep
<1> DEFINE z == 2^n
           y == h[0]
<1> HIDE DEF z, y
<1>7. y \in 0..(z - 1)
  BY <1>6 DEF z, y
<1> QED
  BY <1>1, <1>7 DEF n, z, y

(* The bitwise operations of words make words.                             *)
LEMMA BitsDigit ==
  ASSUME D!Bits \in Nat, NEW x, NEW y
  PROVE  D!BitAnd(x, y) \in D!digit /\ D!BitOr(x, y) \in D!digit /\ D!BitXor(x, y) \in D!digit
<1> DEFINE n == D!Bits
           a == [k \in 1..n |-> IF D!getbit(x, k - 1) /\ D!getbit(y, k - 1) THEN 1 ELSE 0]
           o == [k \in 1..n |-> IF D!getbit(x, k - 1) \/ D!getbit(y, k - 1) THEN 1 ELSE 0]
           e == [k \in 1..n |-> IF D!getbit(x, k - 1) # D!getbit(y, k - 1) THEN 1 ELSE 0]
<1>1. D!BitAnd(x, y) = D!word(a) /\ D!BitOr(x, y) = D!word(o) /\ D!BitXor(x, y) = D!word(e)
  BY DEF D!BitAnd, D!BitOr, D!BitXor, D!Number
<1>2. a \in Seq(0..1) /\ o \in Seq(0..1) /\ e \in Seq(0..1) /\ Len(a) = n /\ Len(o) = n /\ Len(e) = n
  OBVIOUS
<1> HIDE DEF a, o, e
<1> QED
  BY <1>1, <1>2, WordBelow DEF D!digit, D!Base

(* The complement of a word is a word.                                     *)
LEMMA NotDigit ==
  ASSUME D!Base \in Nat, NEW x \in D!digit
  PROVE  D!BitNot(x) \in D!digit
  BY DEF D!BitNot, D!digit

(* The greater of two lengths, to which the bitwise operations extend.     *)
LEMMA MaxPair ==
  ASSUME NEW x \in Nat, NEW y \in Nat
  PROVE  Max({x, y}) \in {x, y} /\ Max({x, y}) >= x /\ Max({x, y}) >= y
<1>1. \E m \in {x, y} : \A z \in {x, y} : m >= z
  BY Z3
<1>2. Max({x, y}) = CHOOSE m \in {x, y} : \A z \in {x, y} : m >= z
  BY DEF Max
<1> QED
  BY <1>1, <1>2

(* The lesser of two numbers, by which divide bounds its estimate.         *)
LEMMA MinPair ==
  ASSUME NEW x \in Nat, NEW y \in Nat
  PROVE  Min({x, y}) \in {x, y} /\ Min({x, y}) <= x /\ Min({x, y}) <= y
<1>1. \E m \in {x, y} : \A z \in {x, y} : m <= z
  BY Z3
<1>2. Min({x, y}) = CHOOSE m \in {x, y} : \A z \in {x, y} : m <= z
  BY DEF Min
<1> QED
  BY <1>1, <1>2

(* The results of the bitwise operations are normal vectors.               *)
LEMMA BitwiseVectors ==
  ASSUME D!Base \in Nat, D!Base > 2, D!Bits \in Nat, NEW a \in Vectors, NEW b \in Vectors
  PROVE  /\ bitwiseAnd(a, b) \in Normals /\ bitwiseOr(a, b) \in Normals
         /\ bitwiseXor(a, b) \in Normals /\ bitwiseNot(a) \in Normals
<1> DEFINE n == Max({Len(a), Len(b)})
           v == [i \in 1..n |-> D!BitAnd(At(a, i), At(b, i))]
           o == [i \in 1..n |-> D!BitOr(At(a, i), At(b, i))]
           x == [i \in 1..n |-> D!BitXor(At(a, i), At(b, i))]
           c == [i \in DOMAIN a |-> D!BitNot(a[i])]
<1>1. a \in Seq(D!digit) /\ a # <<>> /\ Len(a) \in Nat /\ DOMAIN a = 1..Len(a) /\ Len(a) >= 1
      /\ Len(b) \in Nat
  BY VectorSeq DEF Vectors
<1>2. n \in Nat /\ n >= 1
  <2>1. n \in {Len(a), Len(b)} /\ n >= Len(a)
    BY <1>1, MaxPair
  <2> QED
    BY <1>1, <2>1
<1>3. /\ bitwiseAnd(a, b) = normalize(v) /\ bitwiseOr(a, b) = normalize(o)
      /\ bitwiseXor(a, b) = normalize(x) /\ bitwiseNot(a) = normalize(c)
  BY DEF bitwiseAnd, bitwiseOr, bitwiseXor, bitwiseNot, bitwise
<1> HIDE DEF n
<1>4. v \in Seq(D!digit) /\ v # <<>>
  <2>1. \A i \in 1..n : D!BitAnd(At(a, i), At(b, i)) \in D!digit
    BY BitsDigit
  <2> QED
    BY <1>2, <2>1
<1>5. o \in Seq(D!digit) /\ o # <<>>
  <2>1. \A i \in 1..n : D!BitOr(At(a, i), At(b, i)) \in D!digit
    BY BitsDigit
  <2> QED
    BY <1>2, <2>1
<1>6. x \in Seq(D!digit) /\ x # <<>>
  <2>1. \A i \in 1..n : D!BitXor(At(a, i), At(b, i)) \in D!digit
    BY BitsDigit
  <2> QED
    BY <1>2, <2>1
<1>7. c \in Seq(D!digit) /\ c # <<>>
  <2>1. \A i \in 1..Len(a) : D!BitNot(a[i]) \in D!digit
    BY <1>1, NotDigit
  <2> QED
    BY <1>1, <2>1
<1> HIDE DEF v, o, x, c
<1> QED
  BY <1>3, <1>4, <1>5, <1>6, <1>7, NormalizeNormal

(* A digit of a quotient times the divisor, digit by digit.                *)
TimesStep(s, x, q, k) == put(s, k, cell(x, q, 0, s.c))

(* A step of timesDigit stays among the states.                            *)
LEMMA TimesStepIs ==
  ASSUME D!Base \in Nat, D!Base > 2, NEW n \in Nat, NEW s \in Carrying(n), NEW k \in 1..n,
         NEW x \in D!digit, NEW d \in D!digit
  PROVE  TimesStep(s, x, d, k) \in Carrying(n)
<1> DEFINE r == cell(x, d, 0, s.c)
<1>1. s.c \in D!digit /\ 0 \in D!digit
  BY CarryingIs, DigitNat
<1>2. r.v \in D!digit /\ r.ov \in D!digit
  BY <1>1, CellExact
<1> HIDE DEF r
<1>3. put(s, k, r) \in Carrying(n)
  BY <1>2, PutExact
<1> QED
  BY <1>3 DEF TimesStep, r

(* The states of timesDigit.                                               *)
LEMMA TimesLoop ==
  ASSUME D!Base \in Nat, D!Base > 2, NEW b \in Seq(D!digit), NEW d \in D!digit
  PROVE  LET N == Len(b)
             X == Carrying(Len(b))
         IN  \E h \in [0..N -> X] :
               /\ h[0] = [v |-> Zeros(Len(b)), c |-> 0]
               /\ \A k \in 1..N : h[k] = TimesStep(h[k - 1], b[k], d, k)
               /\ timesDigit(b, d) = normalize(carried(h[N]))
<1> DEFINE N == Len(b)
           X == Carrying(Len(b))
           b0 == [v |-> Zeros(Len(b)), c |-> 0]
           q == [i \in DOMAIN b |-> i]
           F == [p \in (1..N) \X X |-> TimesStep(p[2], b[p[1]], d, p[1])]
           Body(f) == [s \in SUBSET (DOMAIN q) |->
                         IF s = {} THEN b0 ELSE TimesStep(f[s \ {Max(s)}], b[q[Max(s)]], d, q[Max(s)])]
           it == CHOOSE f : f = Body(f)
<1>1. N \in Nat /\ b0 \in X /\ Len(b) \in Nat
  <2>1. 0 \in D!digit /\ Len(b) \in Nat
    BY DigitNat, VectorSeq
  <2>2. Zeros(Len(b)) \in Seq(D!digit) /\ Len(Zeros(Len(b))) = Len(b)
    BY <2>1, ZerosDigits
  <2> QED
    BY <2>1, <2>2, CarryingMake
<1>2. DOMAIN q = 1..N /\ \A k \in 1..N : q[k] = k
  BY VectorSeq
<1>b. \A k \in 1..N : b[k] \in D!digit
  BY VectorSeq
<1>v. timesDigit(b, d) = normalize(carried(it[DOMAIN q]))
  BY DEF timesDigit, FoldLeftDomain, FoldLeft, MapThenFoldSet, TimesStep
<1> HIDE DEF N, b0, q
<1>3. \A e \in 1..N : \A x \in X : F[<<e, x>>] = TimesStep(x, b[e], d, e)
  OBVIOUS
<1>4. \A e \in 1..N : \A x \in X : TimesStep(x, b[e], d, e) \in X
  <2>1. \A e \in 1..N : e \in 1..Len(b)
    BY DEF N
  <2> QED
    BY <1>1, <1>b, <2>1, TimesStepIs
<1> HIDE DEF F, X
<1>5. Keeps(F, N, X)
  BY <1>3, <1>4 DEF Keeps
<1>6. PICK g \in [SUBSET (1..N) -> X] : Upward(g, N, X, b0, F)
  BY <1>1, <1>5, FoldUp
<1>m. \A s \in SUBSET (1..N) : s # {} => Max(s) \in 1..N
  BY <1>1, MaxIn
<1>7. g = Body(g)
  <2>1. ASSUME NEW s \in SUBSET (1..N)
        PROVE  g[s] = IF s = {} THEN b0 ELSE TimesStep(g[s \ {Max(s)}], b[q[Max(s)]], d, q[Max(s)])
    <3>1. CASE s = {}
      BY <1>6, <3>1 DEF Upward
    <3>2. CASE s # {}
      <4>1. Max(s) \in 1..N /\ g[s \ {Max(s)}] \in X
        BY <1>m, <1>6, <3>2
      <4>2. g[s] = F[<<Max(s), g[s \ {Max(s)}]>>]
        BY <1>6, <3>2, <4>1, Zenon DEF Upward
      <4> QED
        BY <1>2, <1>3, <3>2, <4>1, <4>2
    <3> QED
      BY <3>1, <3>2
  <2> QED
    BY <1>2, <1>6, <2>1
<1>8. it = Body(it)
  <2> HIDE DEF Body
  <2> QED
    BY <1>7
<1> HIDE DEF it
<1>9. ASSUME NEW s \in SUBSET (1..N)
      PROVE  it[s] = IF s = {} THEN b0 ELSE TimesStep(it[s \ {Max(s)}], b[q[Max(s)]], d, q[Max(s)])
  BY <1>2, <1>8
<1>10. Upward(it, N, X, b0, F)
  <2>1. it[{}] = b0
    BY <1>9
  <2>2. ASSUME NEW s \in SUBSET (1..N), s # {}, it[s \ {Max(s)}] \in X
        PROVE  it[s] = F[<<Max(s), it[s \ {Max(s)}]>>]
    <3>1. Max(s) \in 1..N
      BY <1>m, <2>2
    <3>2. q[Max(s)] = Max(s)
      BY <1>2, <3>1
    <3>3. it[s] = TimesStep(it[s \ {Max(s)}], b[Max(s)], d, Max(s))
      BY <1>9, <2>2, <3>2, Zenon
    <3> QED
      BY <1>3, <2>2, <3>1, <3>3, Zenon
  <2> QED
    BY <2>1, <2>2 DEF Upward
<1>11. PICK h \in [0..N -> X] : LoopUp(h, N, b0, F) /\ h[N] = it[1..N]
  <2>1. EndsUp(it, N, X, b0, F)
    BY <1>1, <1>5, <1>10, StepsUp, Zenon
  <2> QED
    BY <2>1 DEF EndsUp
<1>12. ASSUME NEW k \in 1..N PROVE h[k] = TimesStep(h[k - 1], b[k], d, k)
  <2>1. h[k - 1] \in X
    BY <1>1
  <2> QED
    BY <1>3, <1>11, <2>1 DEF LoopUp
<1>13. h[0] = b0 /\ timesDigit(b, d) = normalize(carried(h[N]))
  BY <1>2, <1>v, <1>11 DEF LoopUp
<1> QED
  BY <1>12, <1>13 DEF N, X, b0

(* The divisor times a trial digit is a vector of digits.                  *)
LEMMA TimesVector ==
  ASSUME D!Base \in Nat, D!Base > 2, NEW b \in Vectors, NEW d \in D!digit
  PROVE  timesDigit(b, d) \in Vectors
<1> DEFINE N == Len(b)
<1>1. b \in Seq(D!digit) /\ N \in Nat /\ N >= 1
  BY VectorSeq DEF Vectors
<1>2. PICK h \in [0..N -> Carrying(N)] :
         /\ h[0] = [v |-> Zeros(Len(b)), c |-> 0]
         /\ \A k \in 1..N : h[k] = TimesStep(h[k - 1], b[k], d, k)
         /\ timesDigit(b, d) = normalize(carried(h[N]))
  BY <1>1, TimesLoop
<1>3. h[N] \in Carrying(N)
  BY <1>1
<1> DEFINE t == h[N]
<1> HIDE DEF t, N
<1>4. carried(t) \in Seq(D!digit) /\ Len(carried(t)) \in N..(N + 1)
  BY <1>1, <1>3, CarriedExact DEF t
<1>5. carried(t) # <<>>
  BY <1>1, <1>4
<1>6. normalize(carried(t)) \in Normals
  BY <1>4, <1>5, NormalizeNormal
<1> QED
  BY <1>2, <1>6 DEF t, Normals

-----------------------------------------------------------------------------
(* divide.                                                                 *)

(* A remainder by the base is a digit.                                     *)
LEMMA ModDigit ==
  ASSUME D!Base \in Nat, D!Base > 2, NEW x \in Int
  PROVE  x % D!Base \in D!digit
<1> DEFINE B == D!Base
<1>1. D!digit = 0..(B - 1) /\ B \in Nat /\ B > 0
  BY DEF D!digit
<1> HIDE DEF B
<1>2. x % B \in 0..(B - 1)
  BY <1>1
<1> QED
  BY <1>1, <1>2 DEF B

(* Every trial of divide is a digit.                                       *)
LEMMA TrialDigit ==
  ASSUME D!Base \in Nat, D!Base > 2, NEW q \in D!digit, NEW t \in Nat
  PROVE  trial(q, t) \in D!digit
<1> DEFINE u == (t + 1) \div 2
           w == t \div 2
<1>1. u \in Int /\ w \in Int /\ q \in Nat
  BY DigitNat
<1> HIDE DEF u, w
<1>2. q + u \in Int /\ q - w \in Int
  BY <1>1
<1>3. (q + u) % D!Base \in D!digit /\ (q - w) % D!Base \in D!digit
  BY <1>2, ModDigit
<1>4. trial(q, t) \in {(q + u) % D!Base, (q - w) % D!Base, q}
  <2>1. CASE t % 2 = 1 /\ q < D!Base - 1
    <3>1. ~(t > 0 /\ t % 2 = 0 /\ q > 0)
      BY <2>1
    <3> QED
      BY <2>1, <3>1 DEF trial, u, w
  <2>2. CASE t > 0 /\ t % 2 = 0 /\ q > 0
    <3>1. ~(t % 2 = 1 /\ q < D!Base - 1)
      BY <2>2
    <3> QED
      BY <2>2, <3>1 DEF trial, u, w
  <2>3. CASE ~(t % 2 = 1 /\ q < D!Base - 1) /\ ~(t > 0 /\ t % 2 = 0 /\ q > 0)
    BY <2>3 DEF trial
  <2> QED
    BY <2>1, <2>2, <2>3
<1> QED
  BY <1>3, <1>4

(* So is the estimate it starts from.                                      *)
LEMMA EstimateDigit ==
  ASSUME D!Base \in Nat, D!Base > 2, NEW part \in Vectors, NEW b \in Vectors
  PROVE  estimate(part, b) \in D!digit
<1> DEFINE n == Len(part)
           div_top == IF b[Len(b)] = 0 /\ Len(b) > 1 THEN b[Len(b) - 1] ELSE b[Len(b)]
           rem_top == IF n > 1 THEN part[n] * D!Base + part[n - 1] ELSE part[n]
<1>1. div_top \in Nat
  <2>1. Len(b) \in Nat /\ Len(b) >= 1 /\ \A k \in 1..Len(b) : b[k] \in Nat
    BY VectorSeq DEF Vectors
  <2>2. b[Len(b)] \in Nat /\ (Len(b) > 1 => b[Len(b) - 1] \in Nat)
    BY <2>1
  <2> QED
    BY <2>2
<1>2. rem_top \in Nat
  <2>1. n \in Nat /\ n >= 1 /\ \A k \in 1..n : part[k] \in Nat
    BY VectorSeq DEF Vectors
  <2>2. part[n] \in Nat /\ (n > 1 => part[n - 1] \in Nat)
    BY <2>1
  <2> DEFINE x == part[n]
             y == part[n - 1]
             B == D!Base
  <2> HIDE DEF x, y, n, B
  <2>3. n > 1 => x * B + y \in Nat
    <3> SUFFICES ASSUME n > 1 PROVE x * B + y \in Nat
      OBVIOUS
    <3>1. x \in Nat /\ y \in Nat /\ B \in Nat
      BY <2>2 DEF x, y, B
    <3> QED
      BY <3>1, SMT
  <2> QED
    BY <2>2, <2>3 DEF x, y, B
<1>3. estimate(part, b) = IF div_top = 0 THEN 0 ELSE Min({rem_top \div div_top, D!Base - 1})
  BY DEF estimate
<1> HIDE DEF div_top, rem_top
<1>4. CASE div_top = 0
  BY <1>3, <1>4, DigitNat
<1>5. CASE div_top # 0
  <2> DEFINE e == rem_top \div div_top
             z == D!Base - 1
             m == Min({e, z})
  <2>1. e \in Nat /\ z \in Nat
    <3>1. div_top > 0
      BY <1>1, <1>5
    <3> QED
      BY <1>1, <1>2, <3>1, DivMod
  <2>2. m \in {e, z} /\ m <= z
    <3> HIDE DEF e, z
    <3> QED
      BY <2>1, MinPair
  <2>3. m \in Nat /\ m < D!Base
    <3>1. m \in Nat
      BY <2>1, <2>2
    <3> HIDE DEF m
    <3> QED
      BY <2>2, <3>1
  <2>4. m \in D!digit
    BY <2>3, DigitNat
  <2> QED
    BY <1>3, <1>5, <2>4
<1> QED
  BY <1>4, <1>5

(* A vector moved up by whole digits.                                      *)
LEMMA JoinVectors ==
  ASSUME D!Base \in Nat, D!Base > 2, NEW n \in Nat, NEW a \in Vectors
  PROVE  Zeros(n) \o a \in Vectors
<1>1. Zeros(n) \in Seq(D!digit) /\ Len(Zeros(n)) = n /\ a \in Seq(D!digit) /\ a # <<>> /\ Len(a) >= 1
  BY ZerosDigits DEF Vectors
<1>2. Zeros(n) \o a \in Seq(D!digit) /\ Len(Zeros(n) \o a) = n + Len(a)
  BY <1>1
<1>3. Zeros(n) \o a # <<>>
  BY <1>1, <1>2
<1> QED
  BY <1>2, <1>3 DEF Vectors

(* A part of a vector, as the loop of divide takes it.                     *)
LEMMA PartDigits ==
  ASSUME D!Base \in Nat, D!Base > 2, NEW r \in Vectors, NEW i \in Nat, i >= 1, NEW n \in Nat
  PROVE  LET part == SubSeq(r, i, Min({i + n, Len(r)}))
         IN  part = <<>> \/ part \in Vectors
<1> DEFINE e == Min({i + n, Len(r)})
           part == SubSeq(r, i, e)
<1>1. r \in Seq(D!digit) /\ Len(r) \in Nat
  BY VectorSeq DEF Vectors
<1>2. e \in Nat /\ e <= Len(r)
  <2>1. i + n \in Nat
    OBVIOUS
  <2>2. e \in {i + n, Len(r)} /\ e <= Len(r)
    BY <1>1, <2>1, MinPair
  <2> QED
    BY <1>1, <2>1, <2>2
<1> HIDE DEF e
<1>3. ASSUME i > e PROVE part = <<>>
  BY <1>1, <1>2, <1>3
<1>4. ASSUME i <= e PROVE part \in Vectors
  <2>1. part \in Seq(D!digit) /\ Len(part) = e - i + 1
    BY <1>1, <1>2, <1>4
  <2>2. part # <<>>
    BY <1>2, <1>4, <2>1
  <2> QED
    BY <2>1, <2>2 DEF Vectors
<1>5. part = <<>> \/ part \in Vectors
  BY <1>2, <1>3, <1>4
<1> QED
  BY <1>2, <1>5 DEF e

(* The states of the loop of divide: a quotient of n digits, a remainder.  *)
Dividing(n) == [ok : BOOLEAN, q : {s \in Seq(D!digit) : Len(s) = n}, r : Vectors]

(* A place of the quotient: whatever the trials, the remainder and the     *)
(* quotient stay vectors of digits.                                        *)
LEMMA DivideAtIs ==
  ASSUME D!Base \in Nat, D!Base > 2, NEW n \in Nat, NEW i \in 1..n, NEW s \in Dividing(n),
         NEW b \in Vectors
  PROVE  divideAt(i, s, b) \in Dividing(n)
<1>1. /\ s.ok \in BOOLEAN /\ s.q \in Seq(D!digit) /\ Len(s.q) = n /\ s.r \in Vectors
      /\ s.r \in Seq(D!digit) /\ s.r # <<>>
  BY DEF Dividing, Vectors
<1>2. i \in Nat /\ i >= 1 /\ i - 1 \in Nat /\ Len(b) \in Nat
  BY VectorSeq DEF Vectors
<1>3. ASSUME NEW d \in D!digit PROVE taken(i, s, b, d) \in Dividing(n)
  <2> DEFINE p == productAt(i, b, d)
             left == subtract(s.r, p)
  <2>1. p \in Vectors
    BY <1>2, TimesVector, JoinVectors DEF productAt
  <2>2. p \in Seq(D!digit)
    BY <2>1 DEF Vectors
  <2> HIDE DEF p
  <2>3. left.ok \in BOOLEAN /\ left.v \in Vectors
    BY <1>1, <2>2, NaiveSubtractExact DEF Vectors
  <2>4. [s.q EXCEPT ![i] = d] \in Seq(D!digit) /\ Len([s.q EXCEPT ![i] = d]) = n
    BY <1>1
  <2>5. taken(i, s, b, d) = subtracted(i, s, d, left)
    BY DEF taken, p
  <2> HIDE DEF left
  <2>6. subtracted(i, s, d, left) \in Dividing(n)
    <3>1. CASE left.ok
      BY <2>3, <2>4, <3>1 DEF subtracted, Dividing
    <3>2. CASE ~left.ok
      BY <1>1, <2>3, <3>2 DEF subtracted, Dividing
    <3> QED
      BY <3>1, <3>2
  <2> QED
    BY <2>5, <2>6
<1>4. ASSUME NEW d \in D!digit PROVE attempts(i, s, b, d) \in Dividing(n)
  <2> DEFINE fits == fitting(i, s.r, b, d)
  <2>1. fits \in SUBSET (0..(Attempts - 1))
    BY DEF fitting
  <2>2. attempts(i, s, b, d) = firstOf(i, s, b, d, fits)
    BY DEF attempts
  <2> HIDE DEF fits
  <2>3. CASE fits = {}
    BY <2>2, <2>3 DEF firstOf
  <2>4. CASE fits # {}
    <3> DEFINE t == Min(fits)
    <3>1. t \in Nat
      <4>1. fits \in SUBSET Nat
        BY <2>1 DEF Attempts
      <4>2. \E m \in fits : \A k \in fits : m <= k
        BY <2>4, <4>1, LeastNatural
      <4>3. t \in fits
        BY <4>2 DEF Min
      <4> QED
        BY <4>1, <4>3
    <3> HIDE DEF t
    <3>2. trial(d, t) \in D!digit
      BY <3>1, TrialDigit
    <3>3. attempts(i, s, b, d) = taken(i, s, b, trial(d, t))
      BY <2>2, <2>4 DEF firstOf, t
    <3> QED
      BY <1>3, <3>2, <3>3
  <2> QED
    BY <2>3, <2>4
<1> DEFINE part == SubSeq(s.r, i, Min({i + Len(b), Len(s.r)}))
<1>5. part = <<>> \/ part \in Vectors
  BY <1>1, <1>2, PartDigits
<1>6. divideAt(i, s, b) = IF s.ok THEN dividePart(i, s, b, part) ELSE s
  BY DEF divideAt
<1> HIDE DEF part
<1>7. dividePart(i, s, b, part) \in Dividing(n)
  <2>1. CASE part = <<>> \/ compare(part, b) < 0
    BY <2>1 DEF dividePart
  <2>2. CASE ~(part = <<>> \/ compare(part, b) < 0)
    <3>1. dividePart(i, s, b, part) = attempts(i, s, b, estimate(part, b))
      BY <2>2 DEF dividePart
    <3>2. estimate(part, b) \in D!digit
      BY <1>5, <2>2, EstimateDigit
    <3> QED
      BY <1>4, <3>1, <3>2
  <2> QED
    BY <2>1, <2>2
<1> QED
  BY <1>6, <1>7

(* The states of the loop of divide, from the highest place down.          *)
LEMMA DivideLoop ==
  ASSUME D!Base \in Nat, D!Base > 2, NEW a \in Vectors, NEW b \in Vectors, NEW n \in Nat, n >= 1
  PROVE  LET N == n
             X == Dividing(n)
         IN  \E h \in [0..N -> X] :
               /\ h[N] = done(Zeros(n), a)
               /\ \A k \in 1..N : h[k - 1] = divideAt(k, h[k], b)
               /\ longDivision(a, b, n) = finished(h[0])
<1> DEFINE N == n
           X == Dividing(n)
           b0 == done(Zeros(n), a)
           q == Positions(1, n)
           F == [p \in (1..N) \X X |-> divideAt(p[1], p[2], b)]
           Body(f) == [s \in SUBSET (DOMAIN q) |->
                         IF s = {} THEN b0 ELSE divideAt(q[Min(s)], f[s \ {Min(s)}], b)]
           it == CHOOSE f : f = Body(f)
<1>1. N \in Nat /\ b0 \in X
  <2>1. Zeros(n) \in Seq(D!digit) /\ Len(Zeros(n)) = n
    BY ZerosDigits
  <2> QED
    BY <2>1 DEF done, pair, Dividing
<1>2. DOMAIN q = 1..N /\ \A k \in 1..N : q[k] = k
  <2>1. 1 \in 1..n
    OBVIOUS
  <2>2. DOMAIN Positions(1, n) = 1..(n - 1 + 1)
        /\ \A k \in 1..(n - 1 + 1) : Positions(1, n)[k] = 1 + k - 1
    BY <2>1, PositionsIs
  <2>3. n - 1 + 1 = n /\ \A k \in 1..n : 1 + k - 1 = k
    OBVIOUS
  <2> QED
    BY <2>2, <2>3
<1>v. longDivision(a, b, n) = finished(it[DOMAIN q])
  BY DEF longDivision, FoldRight, MapThenFoldSet
<1> HIDE DEF N, b0, q
<1>3. \A e \in 1..N : \A x \in X : F[<<e, x>>] = divideAt(e, x, b)
  OBVIOUS
<1>4. \A e \in 1..N : \A x \in X : divideAt(e, x, b) \in X
  BY DivideAtIs DEF N
<1> HIDE DEF F, X
<1>5. Keeps(F, N, X)
  BY <1>3, <1>4 DEF Keeps
<1>6. PICK g \in [SUBSET (1..N) -> X] : Backward(g, N, X, b0, F)
  BY <1>1, <1>5, FoldDown
<1>m. \A s \in SUBSET (1..N) : s # {} => Min(s) \in 1..N
  BY <1>1, MinIn
<1>7. g = Body(g)
  <2>1. ASSUME NEW s \in SUBSET (1..N)
        PROVE  g[s] = IF s = {} THEN b0 ELSE divideAt(q[Min(s)], g[s \ {Min(s)}], b)
    <3>1. CASE s = {}
      BY <1>6, <3>1 DEF Backward
    <3>2. CASE s # {}
      <4>1. Min(s) \in 1..N /\ g[s \ {Min(s)}] \in X
        BY <1>m, <1>6, <3>2
      <4>2. g[s] = F[<<Min(s), g[s \ {Min(s)}]>>]
        BY <1>6, <3>2, <4>1, Zenon DEF Backward
      <4> QED
        BY <1>2, <1>3, <3>2, <4>1, <4>2
    <3> QED
      BY <3>1, <3>2
  <2> QED
    BY <1>2, <1>6, <2>1
<1>8. it = Body(it)
  <2> HIDE DEF Body
  <2> QED
    BY <1>7
<1> HIDE DEF it
<1>9. ASSUME NEW s \in SUBSET (1..N)
      PROVE  it[s] = IF s = {} THEN b0 ELSE divideAt(q[Min(s)], it[s \ {Min(s)}], b)
  BY <1>2, <1>8
<1>10. Backward(it, N, X, b0, F)
  <2>1. it[{}] = b0
    BY <1>9
  <2>2. ASSUME NEW s \in SUBSET (1..N), s # {}, it[s \ {Min(s)}] \in X
        PROVE  it[s] = F[<<Min(s), it[s \ {Min(s)}]>>]
    <3>1. Min(s) \in 1..N
      BY <1>m, <2>2
    <3>2. q[Min(s)] = Min(s)
      BY <1>2, <3>1
    <3>3. it[s] = divideAt(Min(s), it[s \ {Min(s)}], b)
      BY <1>9, <2>2, <3>2, Zenon
    <3> QED
      BY <1>3, <2>2, <3>1, <3>3, Zenon
  <2> QED
    BY <2>1, <2>2 DEF Backward
<1>11. PICK h \in [0..N -> X] : LoopDown(h, N, b0, F) /\ h[0] = it[1..N]
  <2>1. EndsDown(it, N, X, b0, F)
    BY <1>1, <1>5, <1>10, StepsDown, Zenon
  <2> QED
    BY <2>1 DEF EndsDown
<1>12. ASSUME NEW k \in 1..N PROVE h[k - 1] = divideAt(k, h[k], b)
  <2>1. h[k] \in X
    BY <1>1
  <2> QED
    BY <1>3, <1>11, <2>1 DEF LoopDown
<1>13. h[N] = b0 /\ longDivision(a, b, n) = finished(h[0])
  BY <1>2, <1>v, <1>11 DEF LoopDown
<1> QED
  BY <1>12, <1>13 DEF N, X, b0

(* BigNumberNaive::divide that returns has written two vectors of digits,  *)
(* normal ones for a normal dividend, whatever its trials and its          *)
(* subtractions with their borrows did.                                    *)
THEOREM NaiveDivideVectors ==
  ASSUME D!Base \in Nat, D!Base > 2, NEW a \in Vectors, NEW b \in Vectors, NEW out
  PROVE  LET d == divide(a, b, out)
         IN  /\ d.ok \in BOOLEAN
             /\ d.ok => d.q \in Vectors /\ d.r \in Vectors
             /\ d.ok /\ a \in Normals => d.q \in Normals /\ d.r \in Normals
<1> DEFINE d == divide(a, b, out)
           OK(e) == /\ e.ok \in BOOLEAN
                    /\ e.ok => e.q \in Vectors /\ e.r \in Vectors
                    /\ e.ok /\ a \in Normals => e.q \in Normals /\ e.r \in Normals
<1>1. Zero \in Normals /\ Zero \in Vectors
  BY ZeroNormal DEF Normals
<1>2. ASSUME NEW n \in Nat, n >= 1 PROVE OK(longDivision(a, b, n))
  <2>1. PICK h \in [0..n -> Dividing(n)] :
           /\ h[n] = done(Zeros(n), a)
           /\ \A k \in 1..n : h[k - 1] = divideAt(k, h[k], b)
           /\ longDivision(a, b, n) = finished(h[0])
    BY <1>2, DivideLoop
  <2> DEFINE s == h[0]
  <2>2. s \in Dividing(n)
    BY <1>2
  <2> HIDE DEF s
  <2>3. /\ s.ok \in BOOLEAN /\ s.q \in Seq(D!digit) /\ Len(s.q) = n
        /\ s.r \in Seq(D!digit) /\ s.r # <<>>
    BY <2>2 DEF Dividing, Vectors
  <2>4. s.q # <<>>
    BY <1>2, <2>3
  <2>5. normalize(s.q) \in Normals /\ normalize(s.r) \in Normals
    BY <2>3, <2>4, NormalizeNormal
  <2>6. CASE s.ok
    <3>1. finished(s) = done(normalize(s.q), normalize(s.r))
      BY <2>6 DEF finished
    <3>2. OK(finished(s))
      BY <2>5, <3>1 DEF done, pair, Normals
    <3> QED
      BY <2>1, <3>2 DEF s
  <2>7. CASE ~s.ok
    <3>1. finished(s) = s
      BY <2>7 DEF finished
    <3>2. OK(finished(s))
      BY <2>3, <2>7, <3>1
    <3> QED
      BY <2>1, <3>2 DEF s
  <2> QED
    BY <2>6, <2>7
<1>3. CASE isZero(b)
  <2>1. ~isOne(b)
    BY <1>3 DEF isZero, isOne, Zero
  <2>2. d = pair(FALSE, out.q, out.r)
    BY <1>3, <2>1 DEF divide
  <2> QED
    BY <2>2 DEF pair
<1>4. CASE ~isZero(b) /\ isZero(a)
  BY <1>1, <1>4 DEF divide, done, pair
<1>5. CASE ~isZero(b) /\ ~isZero(a) /\ isOne(b)
  BY <1>1, <1>5 DEF divide, done, pair
<1>6. CASE ~isZero(b) /\ ~isZero(a) /\ ~isOne(b)
  <2> DEFINE n == Max({1, Len(a) - Len(b) + 1})
  <2>1. d = IF compare(a, b) < 0 THEN done(Zero, a) ELSE longDivision(a, b, n)
    BY <1>6 DEF divide
  <2>2. CASE compare(a, b) < 0
    BY <1>1, <2>1, <2>2 DEF done, pair
  <2>3. CASE ~(compare(a, b) < 0)
    <3>1. n \in Nat /\ n >= 1
      <4>1. Len(a) \in Nat /\ Len(b) \in Nat /\ a \in Seq(D!digit) /\ b \in Seq(D!digit)
        BY VectorSeq DEF Vectors
      <4>2. ~(Len(a) < Len(b))
        <5>1. ASSUME Len(a) < Len(b) PROVE compare(a, b) = -1
          BY <4>1, <5>1 DEF compare
        <5> QED
          BY <2>3, <5>1
      <4>3. 1 \in Nat /\ Len(a) - Len(b) + 1 \in Nat
        BY <4>1, <4>2
      <4> DEFINE l == Len(a) - Len(b) + 1
      <4> HIDE DEF l
      <4>4. Max({1, l}) \in {1, l} /\ Max({1, l}) >= 1
        BY <4>3, MaxPair DEF l
      <4> QED
        BY <4>3, <4>4 DEF l
    <3> HIDE DEF n
    <3>2. OK(longDivision(a, b, n))
      BY <1>2, <3>1
    <3> QED
      BY <2>1, <2>3, <3>2
  <2> QED
    BY <2>2, <2>3
<1> QED
  BY <1>3, <1>4, <1>5, <1>6

-----------------------------------------------------------------------------
(* The shifts.                                                             *)

(* The words and the bits that shifts of a word make are words.            *)
LEMMA ShiftDigit ==
  ASSUME D!Base \in Nat, D!Base > 2, D!Bits \in Nat, NEW x \in D!digit, NEW k \in 0..D!Bits
  PROVE  D!shl(x, k).v \in D!digit /\ D!shl(x, k).ov \in D!digit /\ D!shr(x, k).v \in D!digit
<1> DEFINE z == 2^k
           B == D!Base
           p == x * z
           e == p \div B
<1>1. z \in Nat /\ z > 0 /\ z <= B
  <2>1. k \in Nat
    OBVIOUS
  <2> QED
    BY <2>1, PowerStep, PowerGrows DEF D!Base
<1>2. x \in Nat /\ x < B /\ B \in Nat /\ B > 2
  BY DigitNat
<1> HIDE DEF z, B
<1>3. p \in Nat /\ p < z * B /\ z * B \in Nat
  BY <1>1, <1>2, SMT
<1> HIDE DEF p
<1>4. e \in Nat /\ p % B \in 0..(B - 1) /\ p = B * e + (p % B)
  BY <1>2, <1>3, DivMod
<1>5. e < z
  <2> SUFFICES ASSUME e >= z PROVE FALSE
    BY <1>1, <1>4
  <2>1. B * e >= z * B /\ B * e \in Nat
    <3> HIDE DEF e
    <3> QED
      BY <1>1, <1>2, <1>4, SMT
  <2> DEFINE be == B * e
             zb == z * B
             m == p % B
  <2>2. be >= zb /\ be \in Nat /\ zb \in Nat /\ m \in Nat /\ p = be + m /\ p < zb
    BY <1>2, <1>3, <1>4, <2>1
  <2> HIDE DEF be, zb, m
  <2> QED
    BY ONLY <2>2
<1>6. e < B
  BY <1>1, <1>2, <1>4, <1>5
<1>7. e \in D!digit /\ p % B \in D!digit
  BY <1>2, <1>3, <1>4, <1>6, ModDigit, DigitNat DEF B
<1>8. x \div z \in D!digit
  <2> DEFINE y == x \div z
             m == x % z
             zy == z * y
  <2>1. y \in Nat /\ m \in 0..(z - 1) /\ x = z * y + m
    BY <1>1, <1>2, DivMod
  <2> HIDE DEF y, m
  <2>2. zy \in Nat /\ zy >= y
    BY <1>1, <2>1, SMT
  <2>3. x = zy + m
    BY <2>1
  <2> HIDE DEF zy
  <2>4. y < B
    BY <1>1, <1>2, <2>1, <2>2, <2>3
  <2> QED
    BY <2>1, <2>4, DigitNat DEF y, B
<1> QED
  BY <1>7, <1>8 DEF D!shl, D!shr, p, z, B

(* One word of a left shift.                                               *)
UpStep(s, i, k) ==
  put(s, i, [v |-> D!BitOr(D!shl(s.v[i], k).v, s.c), ov |-> D!shl(s.v[i], k).ov])

(* A step of the left shift stays among the states.                        *)
LEMMA UpStepIs ==
  ASSUME D!Base \in Nat, D!Base > 2, D!Bits \in Nat, NEW n \in Nat, NEW s \in Carrying(n),
         NEW i \in 1..n, NEW k \in 0..D!Bits
  PROVE  UpStep(s, i, k) \in Carrying(n)
<1> DEFINE x == s.v[i]
           r == [v |-> D!BitOr(D!shl(x, k).v, s.c), ov |-> D!shl(x, k).ov]
<1>1. x \in D!digit
  BY CarryingIs
<1> HIDE DEF x
<1>2. r.v \in D!digit /\ r.ov \in D!digit
  BY <1>1, ShiftDigit, BitsDigit
<1> HIDE DEF r
<1>3. put(s, i, r) \in Carrying(n)
  BY <1>2, PutExact
<1> QED
  BY <1>3 DEF UpStep, r, x

(* The states of shiftedUp.                                                *)
LEMMA UpLoop ==
  ASSUME D!Base \in Nat, D!Base > 2, D!Bits \in Nat, NEW a \in Vectors, NEW m \in Nat,
         NEW j \in 0..D!Bits
  PROVE  LET N == Len(a)
             X == Carrying(m + Len(a))
         IN  \E h \in [0..N -> X] :
               /\ h[0] = [v |-> Zeros(m) \o a, c |-> 0]
               /\ \A k \in 1..N : h[k] = UpStep(h[k - 1], m + k, j)
               /\ shiftedUp(a, m, j) = carried(h[N])
<1> DEFINE N == Len(a)
           X == Carrying(m + Len(a))
           b0 == [v |-> Zeros(m) \o a, c |-> 0]
           q == Positions(m + 1, m + Len(a))
           F == [p \in (1..N) \X X |-> UpStep(p[2], m + p[1], j)]
           Body(f) == [s \in SUBSET (DOMAIN q) |->
                         IF s = {} THEN b0 ELSE UpStep(f[s \ {Max(s)}], q[Max(s)], j)]
           it == CHOOSE f : f = Body(f)
<1>0. Len(a) \in Nat /\ Len(a) >= 1 /\ a \in Seq(D!digit) /\ a # <<>>
  BY VectorSeq DEF Vectors
<1>1. N \in Nat /\ b0 \in X /\ m + Len(a) \in Nat
  <2>1. Zeros(m) \in Seq(D!digit) /\ Len(Zeros(m)) = m /\ 0 \in D!digit
    BY ZerosDigits, DigitNat
  <2>2. Zeros(m) \o a \in Seq(D!digit) /\ Len(Zeros(m) \o a) = m + Len(a)
    BY <1>0, <2>1
  <2> DEFINE z == Zeros(m) \o a
             l == m + Len(a)
  <2>3. l \in Nat /\ z \in Seq(D!digit) /\ Len(z) = l
    BY <1>0, <2>2
  <2> HIDE DEF z, l
  <2>4. [v |-> z, c |-> 0] \in Carrying(l)
    BY <2>1, <2>3, CarryingMake
  <2> QED
    BY <1>0, <2>3, <2>4 DEF z, l
<1>2. DOMAIN q = 1..N /\ \A k \in 1..N : q[k] = m + k /\ m + k \in 1..(m + Len(a))
  <2> DEFINE i == m + 1
             l == m + Len(a)
  <2>1. i \in 1..l /\ l \in Nat
    BY <1>0
  <2>2. l - i + 1 = N /\ \A k \in 1..N : i + k - 1 = m + k
    BY <1>0
  <2> HIDE DEF i, l
  <2>3. DOMAIN Positions(i, l) = 1..(l - i + 1)
        /\ \A k \in 1..(l - i + 1) : Positions(i, l)[k] = i + k - 1 /\ i + k - 1 \in 1..l
    BY <2>1, PositionsIs
  <2> HIDE DEF N
  <2>4. DOMAIN Positions(i, l) = 1..N /\ \A k \in 1..N : Positions(i, l)[k] = m + k /\ m + k \in 1..l
    BY <2>2, <2>3
  <2> QED
    BY <2>4 DEF i, l
<1>v. shiftedUp(a, m, j) = carried(it[DOMAIN q])
  BY DEF shiftedUp, FoldLeft, MapThenFoldSet, UpStep
<1> HIDE DEF N, b0, q
<1>3. \A e \in 1..N : \A x \in X : F[<<e, x>>] = UpStep(x, m + e, j)
  OBVIOUS
<1>4. \A e \in 1..N : \A x \in X : UpStep(x, m + e, j) \in X
  BY <1>1, <1>2, UpStepIs
<1> HIDE DEF F, X
<1>5. Keeps(F, N, X)
  BY <1>3, <1>4 DEF Keeps
<1>6. PICK g \in [SUBSET (1..N) -> X] : Upward(g, N, X, b0, F)
  BY <1>1, <1>5, FoldUp
<1>m. \A s \in SUBSET (1..N) : s # {} => Max(s) \in 1..N
  BY <1>1, MaxIn
<1>7. g = Body(g)
  <2>1. ASSUME NEW s \in SUBSET (1..N)
        PROVE  g[s] = IF s = {} THEN b0 ELSE UpStep(g[s \ {Max(s)}], q[Max(s)], j)
    <3>1. CASE s = {}
      BY <1>6, <3>1 DEF Upward
    <3>2. CASE s # {}
      <4>1. Max(s) \in 1..N /\ g[s \ {Max(s)}] \in X
        BY <1>m, <1>6, <3>2
      <4>2. g[s] = F[<<Max(s), g[s \ {Max(s)}]>>]
        BY <1>6, <3>2, <4>1, Zenon DEF Upward
      <4> QED
        BY <1>2, <1>3, <3>2, <4>1, <4>2
    <3> QED
      BY <3>1, <3>2
  <2> QED
    BY <1>2, <1>6, <2>1
<1>8. it = Body(it)
  <2> HIDE DEF Body
  <2> QED
    BY <1>7
<1> HIDE DEF it
<1>9. ASSUME NEW s \in SUBSET (1..N)
      PROVE  it[s] = IF s = {} THEN b0 ELSE UpStep(it[s \ {Max(s)}], q[Max(s)], j)
  BY <1>2, <1>8
<1>10. Upward(it, N, X, b0, F)
  <2>1. it[{}] = b0
    BY <1>9
  <2>2. ASSUME NEW s \in SUBSET (1..N), s # {}, it[s \ {Max(s)}] \in X
        PROVE  it[s] = F[<<Max(s), it[s \ {Max(s)}]>>]
    <3>1. Max(s) \in 1..N
      BY <1>m, <2>2
    <3>2. q[Max(s)] = m + Max(s)
      BY <1>2, <3>1
    <3>3. it[s] = UpStep(it[s \ {Max(s)}], m + Max(s), j)
      BY <1>9, <2>2, <3>2, Zenon
    <3> QED
      BY <1>3, <2>2, <3>1, <3>3, Zenon
  <2> QED
    BY <2>1, <2>2 DEF Upward
<1>11. PICK h \in [0..N -> X] : LoopUp(h, N, b0, F) /\ h[N] = it[1..N]
  <2>1. EndsUp(it, N, X, b0, F)
    BY <1>1, <1>5, <1>10, StepsUp, Zenon
  <2> QED
    BY <2>1 DEF EndsUp
<1>12. ASSUME NEW k \in 1..N PROVE h[k] = UpStep(h[k - 1], m + k, j)
  <2>1. h[k - 1] \in X
    BY <1>1
  <2> QED
    BY <1>3, <1>11, <2>1 DEF LoopUp
<1>13. h[0] = b0 /\ shiftedUp(a, m, j) = carried(h[N])
  BY <1>2, <1>v, <1>11 DEF LoopUp
<1> QED
  BY <1>12, <1>13 DEF N, X, b0

(* Its loop makes a vector of digits.                                      *)
LEMMA UpVector ==
  ASSUME D!Base \in Nat, D!Base > 2, D!Bits \in Nat, NEW a \in Vectors, NEW m \in Nat,
         NEW j \in 0..D!Bits
  PROVE  shiftedUp(a, m, j) \in Vectors
<1> DEFINE N == Len(a)
           l == m + N
<1>1. N \in Nat /\ N >= 1 /\ l \in Nat /\ l >= 1
  BY VectorSeq DEF Vectors
<1>2. PICK h \in [0..N -> Carrying(l)] :
         /\ h[0] = [v |-> Zeros(m) \o a, c |-> 0]
         /\ \A k \in 1..N : h[k] = UpStep(h[k - 1], m + k, j)
         /\ shiftedUp(a, m, j) = carried(h[N])
  BY UpLoop
<1> DEFINE t == h[N]
<1>3. t \in Carrying(l)
  BY <1>1
<1> HIDE DEF t, l, N
<1>4. carried(t) \in Seq(D!digit) /\ Len(carried(t)) \in l..(l + 1)
  BY <1>1, <1>3, CarriedExact
<1>5. carried(t) # <<>>
  BY <1>1, <1>4
<1> QED
  BY <1>2, <1>4, <1>5 DEF t, Vectors

(* One word of a right shift, and the bits that go to the word below.      *)
DownStep(v, i, k) ==
  IF i = 1 THEN [v EXCEPT ![i] = D!shr(v[i], k).v]
  ELSE [v EXCEPT ![i] = D!shr(v[i], k).v,
                 ![i - 1] = D!BitOr(v[i - 1], D!shl(D!shr(v[i], k).ov, D!Bits - k).v)]
Sized(n) == {s \in Seq(D!digit) : Len(s) = n}

(* A step of the right shift keeps the length and makes words.             *)
LEMMA DownStepIs ==
  ASSUME D!Base \in Nat, D!Base > 2, D!Bits \in Nat, NEW n \in Nat, NEW v \in Sized(n),
         NEW i \in 1..n, NEW k \in 0..D!Bits
  PROVE  DownStep(v, i, k) \in Sized(n)
<1>1. v \in Seq(D!digit) /\ Len(v) = n
  BY DEF Sized
<1>2. v[i] \in D!digit
  BY <1>1
<1> DEFINE x == D!shr(v[i], k).v
           y == D!BitOr(v[i - 1], D!shl(D!shr(v[i], k).ov, D!Bits - k).v)
<1>3. x \in D!digit /\ y \in D!digit
  BY <1>2, ShiftDigit, BitsDigit
<1>4. DownStep(v, i, k) = IF i = 1 THEN [v EXCEPT ![i] = x] ELSE [v EXCEPT ![i] = x, ![i - 1] = y]
  BY DEF DownStep
<1> HIDE DEF x, y
<1>5. CASE i = 1
  <2>1. [v EXCEPT ![i] = x] \in Seq(D!digit) /\ Len([v EXCEPT ![i] = x]) = n
    BY <1>1, <1>3
  <2> QED
    BY <1>4, <1>5, <2>1 DEF Sized
<1>6. CASE i # 1
  <2> DEFINE w == [v EXCEPT ![i] = x]
             u == [w EXCEPT ![i - 1] = y]
  <2>1. w \in Seq(D!digit) /\ Len(w) = n
    BY <1>1, <1>3
  <2> HIDE DEF w
  <2>2. i - 1 \in 1..n
    BY <1>6
  <2>3. u \in Seq(D!digit) /\ Len(u) = n
    BY <1>3, <2>1, <2>2
  <2>4. DownStep(v, i, k) = u
    BY <1>4, <1>6 DEF w
  <2> QED
    BY <2>3, <2>4 DEF Sized
<1> QED
  BY <1>5, <1>6

(* The vectors of shiftedDown, from the highest word down.                 *)
LEMMA DownLoop ==
  ASSUME D!Base \in Nat, D!Base > 2, D!Bits \in Nat, NEW a \in Vectors, NEW j \in 0..D!Bits
  PROVE  LET N == Len(a)
             X == Sized(Len(a))
         IN  \E h \in [0..N -> X] :
               /\ h[N] = a
               /\ \A k \in 1..N : h[k - 1] = DownStep(h[k], k, j)
               /\ shiftedDown(a, j) = h[0]
<1> DEFINE N == Len(a)
           X == Sized(Len(a))
           b0 == a
           q == Positions(1, Len(a))
           F == [p \in (1..N) \X X |-> DownStep(p[2], p[1], j)]
           Body(f) == [s \in SUBSET (DOMAIN q) |->
                         IF s = {} THEN b0 ELSE DownStep(f[s \ {Min(s)}], q[Min(s)], j)]
           it == CHOOSE f : f = Body(f)
<1>0. Len(a) \in Nat /\ Len(a) >= 1 /\ a \in Seq(D!digit) /\ a # <<>>
  BY VectorSeq DEF Vectors
<1>1. N \in Nat /\ b0 \in X
  BY <1>0 DEF Sized
<1>2. DOMAIN q = 1..N /\ \A k \in 1..N : q[k] = k
  <2> DEFINE n == Len(a)
  <2>0. n \in Nat /\ n >= 1
    BY <1>0
  <2> HIDE DEF n
  <2>1. 1 \in 1..n
    BY <2>0
  <2>2. DOMAIN Positions(1, n) = 1..(n - 1 + 1)
        /\ \A k \in 1..(n - 1 + 1) : Positions(1, n)[k] = 1 + k - 1
    BY <2>0, <2>1, PositionsIs
  <2>3. n - 1 + 1 = n /\ \A k \in 1..n : 1 + k - 1 = k
    BY <2>0
  <2> QED
    BY <2>2, <2>3 DEF n
<1>v. shiftedDown(a, j) = it[DOMAIN q]
  BY DEF shiftedDown, FoldRight, MapThenFoldSet, DownStep
<1> HIDE DEF N, b0, q
<1>3. \A e \in 1..N : \A x \in X : F[<<e, x>>] = DownStep(x, e, j)
  OBVIOUS
<1>4. \A e \in 1..N : \A x \in X : DownStep(x, e, j) \in X
  BY <1>0, DownStepIs DEF N
<1> HIDE DEF F, X
<1>5. Keeps(F, N, X)
  BY <1>3, <1>4 DEF Keeps
<1>6. PICK g \in [SUBSET (1..N) -> X] : Backward(g, N, X, b0, F)
  BY <1>1, <1>5, FoldDown
<1>m. \A s \in SUBSET (1..N) : s # {} => Min(s) \in 1..N
  BY <1>1, MinIn
<1>7. g = Body(g)
  <2>1. ASSUME NEW s \in SUBSET (1..N)
        PROVE  g[s] = IF s = {} THEN b0 ELSE DownStep(g[s \ {Min(s)}], q[Min(s)], j)
    <3>1. CASE s = {}
      BY <1>6, <3>1 DEF Backward
    <3>2. CASE s # {}
      <4>1. Min(s) \in 1..N /\ g[s \ {Min(s)}] \in X
        BY <1>m, <1>6, <3>2
      <4>2. g[s] = F[<<Min(s), g[s \ {Min(s)}]>>]
        BY <1>6, <3>2, <4>1, Zenon DEF Backward
      <4> QED
        BY <1>2, <1>3, <3>2, <4>1, <4>2
    <3> QED
      BY <3>1, <3>2
  <2> QED
    BY <1>2, <1>6, <2>1
<1>8. it = Body(it)
  <2> HIDE DEF Body
  <2> QED
    BY <1>7
<1> HIDE DEF it
<1>9. ASSUME NEW s \in SUBSET (1..N)
      PROVE  it[s] = IF s = {} THEN b0 ELSE DownStep(it[s \ {Min(s)}], q[Min(s)], j)
  BY <1>2, <1>8
<1>10. Backward(it, N, X, b0, F)
  <2>1. it[{}] = b0
    BY <1>9
  <2>2. ASSUME NEW s \in SUBSET (1..N), s # {}, it[s \ {Min(s)}] \in X
        PROVE  it[s] = F[<<Min(s), it[s \ {Min(s)}]>>]
    <3>1. Min(s) \in 1..N
      BY <1>m, <2>2
    <3>2. q[Min(s)] = Min(s)
      BY <1>2, <3>1
    <3>3. it[s] = DownStep(it[s \ {Min(s)}], Min(s), j)
      BY <1>9, <2>2, <3>2, Zenon
    <3> QED
      BY <1>3, <2>2, <3>1, <3>3, Zenon
  <2> QED
    BY <2>1, <2>2 DEF Backward
<1>11. PICK h \in [0..N -> X] : LoopDown(h, N, b0, F) /\ h[0] = it[1..N]
  <2>1. EndsDown(it, N, X, b0, F)
    BY <1>1, <1>5, <1>10, StepsDown, Zenon
  <2> QED
    BY <2>1 DEF EndsDown
<1>12. ASSUME NEW k \in 1..N PROVE h[k - 1] = DownStep(h[k], k, j)
  <2>1. h[k] \in X
    BY <1>1
  <2> QED
    BY <1>3, <1>11, <2>1 DEF LoopDown
<1>13. h[N] = b0 /\ shiftedDown(a, j) = h[0]
  BY <1>2, <1>v, <1>11 DEF LoopDown
<1> QED
  BY <1>12, <1>13 DEF N, X, b0

(* Its loop makes a vector of digits.                                      *)
LEMMA DownVector ==
  ASSUME D!Base \in Nat, D!Base > 2, D!Bits \in Nat, NEW a \in Vectors, NEW j \in 0..D!Bits
  PROVE  shiftedDown(a, j) \in Vectors
<1> DEFINE N == Len(a)
<1>1. N \in Nat /\ N >= 1
  BY VectorSeq DEF Vectors
<1>2. PICK h \in [0..N -> Sized(N)] :
         /\ h[N] = a
         /\ \A k \in 1..N : h[k - 1] = DownStep(h[k], k, j)
         /\ shiftedDown(a, j) = h[0]
  BY DownLoop
<1> DEFINE t == h[0]
<1>3. t \in Sized(N)
  BY <1>1
<1> HIDE DEF t, N
<1>4. t \in Seq(D!digit) /\ Len(t) = N
  BY <1>3 DEF Sized
<1>5. t # <<>>
  BY <1>1, <1>4
<1> QED
  BY <1>2, <1>4, <1>5 DEF t, Vectors

(* BigNumberNaive::shiftLeft and shiftRight by less than a word make       *)
(* normal vectors.                                                         *)
THEOREM NaiveShiftVectors ==
  ASSUME D!Base \in Nat, D!Base > 2, D!Bits \in Nat, NEW a \in Vectors, NEW n \in Nat,
         0 < n, n < D!Bits
  PROVE  shiftLeft(a, n) \in Normals /\ shiftRight(a, n) \in Normals
<1>1. digit_shift(n) = 0 /\ bit_shift(n) = n /\ n \in 0..D!Bits /\ n # 0
  BY DEF digit_shift, bit_shift
<1>2. a \in Seq(D!digit) /\ a # <<>> /\ Len(a) \in Nat /\ Len(a) >= 1
  BY VectorSeq DEF Vectors
<1>3. shiftLeft(a, n) = normalize(shiftedUp(a, 0, n))
  BY <1>1, <1>2 DEF shiftLeft
<1>4. shiftRight(a, n) = normalize(shiftedDown(a, n))
  <2>1. SubSeq(a, 0 + 1, Len(a)) = a
    <3>1. 0 + 1 = 1
      OBVIOUS
    <3> QED
      BY <1>2, <3>1
  <2>2. ~(0 >= Len(a))
    BY <1>2
  <2> QED
    BY <1>1, <1>2, <2>1, <2>2 DEF shiftRight
<1>5. shiftedUp(a, 0, n) \in Vectors /\ shiftedDown(a, n) \in Vectors
  BY <1>1, UpVector, DownVector
<1> QED
  BY <1>3, <1>4, <1>5, NormalizeNormal DEF Vectors

-----------------------------------------------------------------------------
(* Lengths and bounds that Karatsuba's and the doubling loop's ends rest   *)
(* on.                                                                     *)

(* A vector of n digits is worth less than the weight of the place above.  *)
LEMMA ValueBelow ==
  ASSUME D!Base \in Nat, D!Base > 2, NEW a \in Seq(D!digit), NEW n \in Nat, Len(a) <= n
  PROVE  Value(a) < Weight[n] /\ Value(a) \in Nat /\ Weight[n] \in Nat
<1>1. Len(a) \in Nat /\ a \in Seq(Nat)
  BY VectorSeq
<1>2. Value(a) = Parts(a)[Len(a)] /\ Value(a) \in Nat
  BY <1>1, PartsOf
<1>3. Len(a) \in 0..Len(a)
  BY <1>1
<1>4. Value(a) < Weight[Len(a)]
  BY <1>2, <1>3, PartsBound
<1>5. Weight[Len(a)] <= Weight[n] /\ Weight[Len(a)] \in Nat /\ Weight[n] \in Nat
  BY <1>1, WeightGrows, WeightNat
<1> QED
  BY <1>2, <1>4, <1>5

(* add makes a vector of at most one digit more than the longer operand.   *)
LEMMA AddLength ==
  ASSUME D!Base \in Nat, D!Base > 2, NEW a \in Vectors, NEW b \in Vectors,
         NEW n \in Nat, Len(a) <= n, Len(b) <= n
  PROVE  add(a, b) \in Normals /\ Len(add(a, b)) <= n + 1
<1> DEFINE s == add(a, b)
           l == Len(s)
           w == Weight[n]
           B == D!Base
<1>1. a \in Seq(D!digit) /\ a # <<>> /\ b \in Seq(D!digit)
  BY DEF Vectors
<1>2. s \in Seq(D!digit) /\ s # <<>> /\ Value(s) = Value(a) + Value(b) /\ normalize(s) = s
  BY <1>1, NaiveAddExact
<1>3. s \in Normals
  BY <1>2 DEF Normals, Vectors
<1>4. Value(a) < w /\ Value(a) \in Nat /\ Value(b) < w /\ Value(b) \in Nat /\ w \in Nat
      /\ B \in Nat /\ B > 2
  BY <1>1, ValueBelow
<1>5. Weight[n + 1] = B * w /\ Weight[n + 1] \in Nat
  <2>1. n + 1 \in Nat /\ n + 1 > 0 /\ (n + 1) - 1 = n
    OBVIOUS
  <2>2. Weight[n + 1] = D!Base * Weight[(n + 1) - 1] /\ Weight[n + 1] \in Nat
    BY <2>1, WeightStep, WeightNat
  <2> QED
    BY <2>1, <2>2
<1>6. l \in Nat /\ l >= 1 /\ (l = 1 \/ s[l] # 0)
  <2>1. \A t \in Seq(D!digit) : t # <<>> /\ normalize(t) = t
           => Len(t) \in Nat /\ Len(t) >= 1 /\ (Len(t) = 1 \/ t[Len(t)] # 0)
    BY NormalTop
  <2> QED
    BY <1>2, <2>1
<1> HIDE DEF s, w, B
<1>7. ASSUME l > n + 1 PROVE FALSE
  <2>1. l \in 1..l /\ l - 1 \in Nat /\ n + 1 <= l - 1 /\ n + 1 \in Nat /\ l # 1
    <3> HIDE DEF l
    <3> QED
      BY <1>6, <1>7
  <2> DEFINE d == s[l]
             u == Weight[l - 1]
  <2>2. d * u <= Value(s)
    BY <1>2, <2>1, PartsGrow
  <2>3. d \in Nat /\ d # 0 /\ u \in Nat
    BY <1>2, <1>6, <2>1, VectorSeq, WeightNat
  <2>4. Weight[n + 1] <= u
    BY <2>1, WeightGrows
  <2> HIDE DEF d, u
  <2>5. u <= d * u /\ d * u \in Nat
    BY <2>3, SMT
  <2>6. 2 * w <= B * w /\ B * w \in Nat
    BY <1>4, SMT
  <2> DEFINE x == d * u
             y == B * w
             va == Value(a)
             vb == Value(b)
  <2>7. /\ u \in Nat /\ x \in Nat /\ y \in Nat /\ va \in Nat /\ vb \in Nat /\ w \in Nat
        /\ va < w /\ vb < w /\ 2 * w <= y /\ y <= u /\ u <= x /\ x <= va + vb
    BY <1>2, <1>4, <1>5, <2>2, <2>3, <2>4, <2>5, <2>6
  <2> HIDE DEF x, y, va, vb
  <2> QED
    BY ONLY <2>7
<1>8. l <= n + 1
  BY <1>6, <1>7
<1> QED
  BY <1>3, <1>8 DEF s

(* normalize makes a vector no longer.                                     *)
LEMMA NormalizeLength ==
  ASSUME D!Base \in Nat, D!Base > 2, NEW a \in Vectors
  PROVE  normalize(a) \in Normals /\ Len(normalize(a)) <= Len(a)
<1>1. a \in Seq(D!digit) /\ a # <<>> /\ Len(a) \in Nat
  BY DEF Vectors
<1>2. Len(normalize(a)) = TopOf(a) /\ TopOf(a) \in 1..Len(a)
  BY <1>1, NormalizeIs
<1> QED
  BY <1>1, <1>2, NormalizeNormal

(* multiply of any vectors, empty ones included, is normal.                *)
LEMMA MultiplyNormal ==
  ASSUME D!Base \in Nat, D!Base > 2, NEW a \in Seq(D!digit), NEW b \in Seq(D!digit)
  PROVE  multiply(a, b) \in Normals
<1>1. CASE a = <<>> \/ b = <<>>
  BY <1>1, ZeroNormal DEF multiply
<1>2. CASE ~(a = <<>> \/ b = <<>>)
  BY <1>2, NaiveMultiplyExact DEF Normals, Vectors
<1> QED
  BY <1>1, <1>2

(* What is below a vector is worth less than the weight of its length.     *)
LEMMA BelowBound ==
  ASSUME D!Base \in Nat, D!Base > 2, NEW i \in Seq(D!digit), NEW n \in Seq(D!digit), compare(i, n) < 0
  PROVE  Value(i) < Weight[Len(n)] /\ Value(i) \in Nat /\ Weight[Len(n)] \in Nat
<1>1. Len(i) \in Nat /\ Len(n) \in Nat
  BY VectorSeq
<1>2. Lower(i, n)
  BY CompareCases
<1>3. Len(i) <= Len(n)
  BY <1>1, <1>2 DEF Lower
<1> QED
  BY <1>1, <1>3, ValueBelow

(* A number of one digit is that digit.                                    *)
LEMMA OneDigit ==
  ASSUME D!Base \in Nat, D!Base > 2, NEW d \in D!digit
  PROVE  <<d>> \in Normals /\ Value(<<d>>) = d
<1>1. <<d>> \in Normals
  BY DigitNormal
<1> DEFINE a == <<d>>
<1>2. a \in Seq(Nat) /\ Len(a) = 1 /\ a[1] = d /\ d \in Nat
  BY DigitNat
<1>3. Weight[0] = 1
  BY WeightIs
<1> HIDE DEF a
<1>4. /\ Parts(a)[0] = 0 /\ Parts(a)[1] = Value(a)
      /\ \A k \in 1..1 : Parts(a)[k] = Parts(a)[k - 1] + a[k] * Weight[k - 1]
  BY <1>2, PartsOf
<1>5. Parts(a)[1] = Parts(a)[0] + a[1] * Weight[0]
  BY <1>4
<1>6. Value(a) = d
  BY <1>2, <1>3, <1>4, <1>5
<1> QED
  BY <1>1, <1>6 DEF a
=============================================================================
