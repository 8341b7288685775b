------------------------------ MODULE BigPrime ------------------------------
(***************************************************************************)
(* The primality tests of cpp/lib/bign/BigPrime.h and the table of small   *)
(* primes they share.  Their numbers are BigNumbers that stay below the    *)
(* square root of a digit's range, where every BigNumber operation used    *)
(* here is exact (BigCalculator checks that), so they are naturals here.   *)
(***************************************************************************)
EXTENDS Integers, Sequences, SequencesExt, FiniteSetsExt

CONSTANTS Sizes,     \* the sizes initPrimality is called with (200 by default)
          Multiple,  \* how far the sieve goes for a size, 10 times it in the code
          NumTests,  \* numTests of isPrimeQR, 10 by default
          Rounds     \* k of isPrimeMR, 10 by default

VARIABLES primeBase, maxPrime
primeVars == <<primeBase, maxPrime>>

(* The sieve of Eratosthenes up to lim, in ascending order.                *)
sieve(lim) ==
  LET cross(s, i) == IF i \in s THEN s \ {j \in (i * i) .. lim : j % i = 0} ELSE s
      upto == [i \in 1 .. lim |-> i]
      rows == SelectSeq(upto, LAMBDA i : i >= 2 /\ i * i <= lim)
      left == FoldLeft(cross, 2 .. lim, rows)
  IN  SelectSeq(upto, LAMBDA i : i \in left)

PrimeInit == primeBase = <<>> /\ maxPrime = 0

initPrimality(sz) ==
  LET all == sieve(sz * Multiple)
  IN  /\ primeBase' = SubSeq(all, 1, Min({Len(all), sz}))
      /\ maxPrime' = IF primeBase' = <<>> THEN maxPrime ELSE primeBase'[Len(primeBase')]

(* The Jacobi symbol: the twos of a are taken out, then a and n change     *)
(* places.                                                                 *)
jacobiBig(a, n) ==
  LET odd[x \in Nat, m \in Nat, r \in {-1, 1}] ==
        IF x % 2 = 0 THEN odd[x \div 2, m, IF m % 8 \in {3, 5} THEN -r ELSE r] ELSE <<x, r>>
      loop[x \in Nat, m \in Nat, r \in {-1, 1}] ==
        LET o == odd[x, m, r]
            s == IF m % 4 = 3 /\ o[1] % 4 = 3 THEN -o[2] ELSE o[2]
        IN  IF x = 0 THEN IF m = 1 THEN r ELSE 0 ELSE loop[m % o[1], o[1], s]
  IN  IF n <= 0 \/ n % 2 = 0 THEN 0 ELSE loop[((a % n) + n) % n, n, 1]

leg2Big(n) ==
  LET m8 == ((n % 8) + 8) % 8
  IN  CASE m8 \in {1, 7} -> 1 [] m8 \in {3, 5} -> -1 [] OTHER -> 0

powMod(b, e, m) ==
  LET loop[base \in Nat, exp \in Nat, r \in Nat] ==
        IF exp = 0 THEN r
        ELSE loop[(base * base) % m, exp \div 2, IF exp % 2 = 1 THEN (r * base) % m ELSE r]
  IN  IF m = 1 THEN 0 ELSE loop[b % m, e, 1]

(* A power as the symbol it should be.                                     *)
Symbol(v, minusOne) == IF v = minusOne THEN -1 ELSE IF v = 1 THEN 1 ELSE 0

(* Quadratic residues: trial division by the table, an early answer below  *)
(* the square of its last prime, Euler's criterion with reciprocity for    *)
(* the first primes, and Fermat's test for 2, 3, 5 and 7.                  *)
passesQR(p, n) ==
  LET half == (n - 1) \div 2
      npn == Symbol(powMod(n % p, (p - 1) \div 2, p), p - 1)
      sign == IF (((p - 1) \div 2) * half) % 2 = 1 THEN -1 ELSE 1
      pn == jacobiBig(p, n)
  IN  IF p = 2 THEN Symbol(powMod(2, half, n), n - 1) = leg2Big(n)
      ELSE pn = sign * npn /\ Symbol(powMod(p, half, n), n - 1) = pn

isPrimeQR(n) ==
  LET tried == {i \in DOMAIN primeBase : \A j \in 1 .. i : primeBase[j] * primeBase[j] <= n}
      tests == Min({NumTests, Len(primeBase)})
  IN  IF n < 2 THEN FALSE
      ELSE IF n = 2 THEN TRUE
      ELSE IF n % 2 = 0 \/ \E i \in tried : n % primeBase[i] = 0 THEN FALSE
      ELSE IF maxPrime \notin {0, 1} /\ n < maxPrime * maxPrime THEN TRUE
      ELSE /\ \A i \in 1 .. tests : passesQR(primeBase[i], n)
           /\ \A b \in {2, 3, 5, 7} : powMod(b, n - 1, n) = 1

(* Miller and Rabin with the fixed bases; a base not below n is replaced   *)
(* by 2.                                                                   *)
small_bases == <<2, 3, 5, 7, 11, 13, 17, 19, 23, 29, 31, 37, 41, 43, 47>>
isPrimeMR(n) ==
  LET twos[d \in Nat, r \in Nat] == IF d % 2 = 0 THEN twos[d \div 2, r + 1] ELSE <<d, r>>
      split == twos[n - 1, 0]
      base(i) == LET a == IF i <= Len(small_bases) THEN small_bases[i] ELSE 2 + ((i - 1) % 100)
                 IN  IF a >= n THEN 2 ELSE a
      squares[x \in Nat, j \in Nat] ==
        /\ j > 0
        /\ LET y == powMod(x, 2, n) IN y = n - 1 \/ squares[y, j - 1]
      witness(x) == x # 1 /\ x # n - 1 /\ ~squares[x, split[2] - 1]
  IN  IF n < 2 THEN FALSE
      ELSE IF n \in {2, 3} THEN TRUE
      ELSE n % 2 # 0 /\ \A i \in 1 .. Rounds : ~witness(powMod(base(i), split[1], n))

(* Mutant of firstFactor: the root itself is not tried. *)
firstFactorShort(n) ==
  LET from[i \in Nat] == IF i * i >= n THEN n ELSE IF n % i = 0 THEN i ELSE from[i + 2]
  IN  IF n < 2 THEN 0 ELSE IF n % 2 = 0 THEN 2 ELSE from[3]

(* Trial division by the table, then by the odd numbers above it.          *)
firstFactor(n) ==
  LET tried == {i \in DOMAIN primeBase :
                  \A j \in 1 .. (i - 1) : primeBase[j] * primeBase[j] <= n}
      table == {i \in tried : n % primeBase[i] = 0}
      above == IF primeBase = <<>> THEN 3 ELSE primeBase[Len(primeBase)] + 2
      start == IF above % 2 = 0 THEN above + 1 ELSE above
      from[i \in Nat] == IF i * i > n THEN n ELSE IF n % i = 0 THEN i ELSE from[i + 2]
  IN  IF n < 2 THEN 0
      ELSE IF n % 2 = 0 THEN 2
      ELSE IF table # {} THEN primeBase[Min(table)] ELSE from[start]

isPrimeTD(n) ==
  IF n < 2 THEN FALSE ELSE n = 2 \/ (n % 2 # 0 /\ firstFactor(n) = n)
=============================================================================
