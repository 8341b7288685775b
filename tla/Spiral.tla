------------------------------- MODULE Spiral --------------------------------
(***************************************************************************)
(* The search for a divisor of tests/prime.cc: by odd numbers, by the      *)
(* eight residues modulo 30 that are prime to it, and by the first block   *)
(* of these, which paralelDivisor tries before it pushes tasks to the      *)
(* pool.  The tasks are left out: they read b and write result by          *)
(* reference, when the loop has moved b or the call has returned.          *)
(***************************************************************************)
EXTENDS Integers, FiniteSetsExt

CONSTANT BlockSize      \* 3000000 in the code

ASSUME BlockAssumption == BlockSize \in Nat /\ BlockSize % 30 = 0 /\ BlockSize > 0

isqrt(n) == Max({r \in 0 .. n : r * r <= n})
(* The first of the candidates that divides n, or n.                       *)
FirstOf(candidates, n) ==
  LET found == {j \in candidates : n % j = 0} IN IF found = {} THEN n ELSE Min(found)

firstDivisor0(n) ==
  IF n % 2 = 0 THEN 2 ELSE FirstOf({i \in 3 .. isqrt(n) : i % 2 = 1}, n)


(* Eight candidates from every start, also those that pass max.            *)
spiral(n, min, max) ==
  FirstOf({i + step : i \in {k \in min .. max : (k - min) % 30 = 0},
                      step \in {0, 4, 6, 10, 12, 16, 22, 24}}, n)

(* limit 0 stands for no limit.                                            *)
spiralDivisor(n, limit) ==
  IF \E p \in {2, 3, 5} : n % p = 0 THEN Min({p \in {2, 3, 5} : n % p = 0})
  ELSE spiral(n, 7, Min({IF limit = 0 THEN n ELSE limit, isqrt(n)}))

(* The first block of paralelDivisor, tried in the caller's own thread.    *)
firstBlock(n) == spiralDivisor(n, 7 + BlockSize)
=============================================================================
